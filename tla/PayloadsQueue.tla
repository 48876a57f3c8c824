---------------------------- MODULE PayloadsQueue ----------------------------
(***************************************************************************)
(* The buffer of unsafe L2 payloads of op-node                             *)
(* (op-node/rollup/derive/payloads_queue.go): a heap ordered by block      *)
(* number, a memory budget, and an index of the hashes it holds.           *)
(*                                                                         *)
(* A payload is identified by its block hash.  The layout of the heap is   *)
(* abstracted: which of several payloads of the lowest block number is at  *)
(* its top is left open.                                                   *)
(***************************************************************************)
EXTENDS Integers, FiniteSets, FiniteSetsExt

CONSTANTS
    Payloads,      \* the payloads that may arrive, one per block hash
    NumberOf,      \* NumberOf[p]: block number
    SizeOf,        \* SizeOf[p]: what SizeFn computes
    MaxSize        \* the memory budget

ASSUME PayloadsAssumption ==
    /\ IsFiniteSet(Payloads)
    /\ NumberOf \in [Payloads -> Nat]
    /\ SizeOf \in [Payloads -> Nat \ {0}]   \* payloadMemFixedCost > 0
    /\ MaxSize \in Nat

VARIABLES
    pq,            \* the payloads in the heap
    currentSize,   \* the memory accounted for them
    blockHashes    \* the hashes taken for present

vars == <<pq, currentSize, blockHashes>>

MemSize(S) == MapThenSumSet(LAMBDA p : SizeOf[p], S)

(* The candidates for the top of the heap *)
Lowest(S) == {p \in S : \A q \in S : NumberOf[p] <= NumberOf[q]}

Init ==
    /\ pq = {}
    /\ currentSize = 0
    /\ blockHashes = {}

(* A payload is refused as a duplicate, or because it can never fit. *)
Refused(p) == p \in blockHashes \/ SizeOf[p] > MaxSize

(* Eviction that goes on while the budget is used up, though not exceeded *)
Evictions_WhileFull(S, size) ==
    {E \in SUBSET S :
        /\ size - MemSize(E) < MaxSize
        /\ \A e \in E, k \in S \ E : NumberOf[e] <= NumberOf[k]
        /\ E # {} => \E e \in E : /\ \A f \in E : NumberOf[f] <= NumberOf[e]
                                  /\ size - MemSize(E \ {e}) >= MaxSize}

(* Eviction of at most one payload *)
Evictions_Once(S, size) ==
    {E \in SUBSET S :
        /\ Cardinality(E) = IF size > MaxSize THEN 1 ELSE 0
        /\ \A e \in E, k \in S \ E : NumberOf[e] <= NumberOf[k]}

(* What repeated Pops may remove from S, when the sizes of S add up to     *)
(* size: the lowest block numbers first, and only while size is too large. *)
Evictions(S, size) ==
    {E \in SUBSET S :
        /\ size - MemSize(E) <= MaxSize
        /\ \A e \in E, k \in S \ E : NumberOf[e] <= NumberOf[k]
        /\ E # {} => \E e \in E : /\ \A f \in E : NumberOf[f] <= NumberOf[e]
                                  /\ size - MemSize(E \ {e}) > MaxSize}

Push(p) ==
    /\ ~Refused(p)
    /\ \E E \in Evictions(pq \cup {p}, currentSize + SizeOf[p]) :
        /\ pq' = (pq \cup {p}) \ E
        /\ currentSize' = currentSize + SizeOf[p] - MemSize(E)
        /\ blockHashes' = (blockHashes \ E) \cup {p}

Pop ==
    \E p \in Lowest(pq) :
        /\ pq' = pq \ {p}
        /\ currentSize' = currentSize - SizeOf[p]
        /\ blockHashes' = blockHashes \ {p}

Next == Pop \/ \E p \in Payloads : Push(p)

Spec == Init /\ [][Next]_vars

-----------------------------------------------------------------------------
(* The accounted memory is exactly that of the queued payloads and never   *)
(* exceeds the budget, whatever was evicted (Push and Pop).                *)
SizeAccounted == currentSize = MemSize(pq) /\ currentSize <= MaxSize

(* No queued payload could be queued a second time: its hash is known to   *)
(* the duplicate check of Push.                                            *)
NoDuplicates == pq \subseteq blockHashes

(* An accepted payload leaves something to peek at, even when evictions    *)
(* follow: EngineQueue.AddUnsafePayload dereferences Peek() after a Push.  *)
PushLeavesHead == [][blockHashes' \ blockHashes # {} => pq' # {}]_vars
=============================================================================
