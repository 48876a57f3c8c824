------------------------ MODULE PayloadsQueueProofs ------------------------
EXTENDS PayloadsQueue, TLAPS

(* No payload is ever queued twice: a queued payload's hash is indexed.    *)
THEOREM NoDuplicatesInvariant == Spec => []NoDuplicates
<1>1. Init => NoDuplicates
  BY DEF Init, NoDuplicates
<1>2. NoDuplicates /\ [Next]_vars => NoDuplicates'
  BY DEF NoDuplicates, Next, Push, Pop, vars
<1>3. QED
  BY <1>1, <1>2, PTL DEF Spec
=============================================================================
