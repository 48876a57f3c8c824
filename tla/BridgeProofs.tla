---------------------------- MODULE BridgeProofs ----------------------------
(***************************************************************************)
(* The properties of the bridge, for every set of withdrawals and          *)
(* messages, every schedule of proposals, deletions, proofs and calls, and *)
(* every depth of calls.                                                   *)
(***************************************************************************)
EXTENDS Bridge, SequenceTheorems, TLAPS

(* The types of the constants *)
LEMMA Constants ==
    /\ SubmissionInterval \in Nat /\ L2BlockTime \in Nat
    /\ FinalizationPeriodSeconds \in Nat /\ StartingBlockNumber \in Nat
    /\ StartingTimestamp \in Nat /\ MaxBlock \in Nat /\ MaxLag \in Nat
    /\ \A m \in Messages : Value[m] \in Nat
  BY OracleAssumption, SubmitterAssumption, MessengerAssumption

(* What SubSeq keeps of a sequence *)
LEMMA FrontProperties ==
    ASSUME NEW S, NEW s \in Seq(S), NEW n \in 0 .. Len(s)
    PROVE  /\ SubSeq(s, 1, n) \in Seq(S)
           /\ Len(SubSeq(s, 1, n)) = n
           /\ \A i \in 1 .. n : SubSeq(s, 1, n)[i] = s[i]
  BY SubSeqProperties

-----------------------------------------------------------------------------
(* Type correctness *)

LEMMA InitType == Init => TypeOK
  <1> SUFFICES ASSUME Init PROVE TypeOK
    OBVIOUS
  <1> USE DEF Init, InitOracle, InitMessenger, InitSubmitter
  <1>1. evm \in Storage
    BY DEF Storage
  <1>2. refused \in SUBSET Messages
    BY MessengerAssumption
  <1>3. l2Outputs \in Seq(Proposal) /\ calls \in Seq(Calls)
    OBVIOUS
  <1> QED
    BY <1>1, <1>2, <1>3, Constants DEF TypeOK

LEMMA StorageSteps ==
    ASSUME NEW s \in Storage, NEW m \in Messages
    PROVE  /\ Failed(m, s) \in Storage
           /\ Succeeded(m, s) \in Storage
           /\ Restored(m, s) \in Storage
           /\ Calling(m, s) \in Storage
           /\ FinalizeReturns(s) \in Storage
  <1>0. Value[m] \in Nat
    BY Constants
  <1>1. Failed(m, s) \in Storage
    BY DEF Storage, Failed
  <1>2. Succeeded(m, s) \in Storage
    <2>1. [s.relays EXCEPT ![m] = s.relays[m] + 1] \in [Messages -> Nat]
      BY DEF Storage
    <2>2. s.successfulMessages \cup {m} \in SUBSET Messages
      BY DEF Storage
    <2> QED
      BY <2>1, <2>2 DEF Storage, Succeeded
  <1>3. Restored(m, s) \in Storage
    BY DEF Storage, Restored
  <1>4. Calling(m, s) \in Storage
    <2>1. s.balance - Value[m] \in Int
      BY <1>0 DEF Storage
    <2> QED
      BY <2>1 DEF Storage, Calling
  <1>5. FinalizeReturns(s) \in Storage
    BY DEF Storage, FinalizeReturns
  <1> QED
    BY <1>1, <1>2, <1>3, <1>4, <1>5

LEMMA NextIsNat ==
    ASSUME l2Outputs \in Seq(Proposal)
    PROVE  LatestBlockNumber \in Nat /\ NextBlockNumber \in Nat
  <1>1. CASE l2Outputs = <<>>
    BY <1>1, Constants DEF NextBlockNumber, LatestBlockNumber
  <1>2. CASE l2Outputs # <<>>
    <2>1. l2Outputs[Len(l2Outputs)] \in Proposal
      BY <1>2
    <2> QED
      BY <1>2, <2>1, Constants DEF NextBlockNumber, LatestBlockNumber, Proposal
  <1> QED
    BY <1>1, <1>2

LEMMA SubmitterType ==
    ASSUME TypeOK, Submitter
    PROVE  TypeOK'
  <1>0. UNCHANGED <<timestamp, evm, paused, calls, refused>>
    BY DEF Submitter
  <1>1. ASSUME NEW root \in Roots, NEW l1 \in CurrentL1, SendProposal(root, l1)
        PROVE  TypeOK'
    <2>1. NextBlockNumber \in Nat
      BY NextIsNat DEF TypeOK
    <2>2. l1 \in Nat \cup {None}
      BY DEF CurrentL1
    <2>3. pending' \in SUBSET PendingProposal
      BY <1>1, <2>1, <2>2 DEF SendProposal, PendingProposal, TypeOK
    <2>4. faults' \in Nat
      BY <1>1 DEF SendProposal, TypeOK
    <2> QED
      BY <1>0, <1>1, <2>3, <2>4 DEF SendProposal, TypeOK
  <1>2. ASSUME NEW p \in pending, IncludeProposal(p)
        PROVE  TypeOK'
    <2>1. p \in PendingProposal
      BY DEF TypeOK
    <2>2. [outputRoot |-> p.outputRoot, timestamp |-> timestamp, l2BlockNumber |-> p.l2BlockNumber]
             \in Proposal
      BY <2>1 DEF PendingProposal, Proposal, TypeOK
    <2>3. l2Outputs' \in Seq(Proposal)
      BY <1>2, <2>2 DEF IncludeProposal, ProposeL2Output, TypeOK
    <2> QED
      BY <1>0, <1>2, <2>3 DEF IncludeProposal, TypeOK
  <1>3. CASE L2HeadAdvances
    BY <1>0, <1>3 DEF L2HeadAdvances, TypeOK
  <1> QED
    BY <1>1, <1>2, <1>3 DEF Submitter

LEMMA UserType ==
    ASSUME TypeOK, User
    PROVE  TypeOK'
  <1>0. UNCHANGED <<l2Outputs, timestamp, paused, refused, l2Head, pending, faults>>
    BY DEF User, submitterVars
  <1> SUFFICES evm' \in Storage /\ calls' \in Seq(Calls)
    BY <1>0 DEF TypeOK
  <1>t. evm \in Storage /\ calls \in Seq(Calls) /\ l2Outputs \in Seq(Proposal) /\ timestamp \in Nat
    BY DEF TypeOK
  <1>a. ASSUME NEW w \in Withdrawals, NEW m \in Messages \cup {None}, NEW s \in Storage
        PROVE  Append(calls, Call(w, m, s)) \in Seq(Calls)
    <2>1. Call(w, m, s) \in Calls
      BY DEF Call, Calls
    <2> QED
      BY <1>t, <2>1
  <1>f. \A w \in Withdrawals : Finalizing(w) \in Storage
    BY <1>t DEF Finalizing, Storage
  <1>1. ASSUME NEW w \in Withdrawals, NEW i \in DOMAIN l2Outputs,
               ProveWithdrawalTransaction(w, i), UNCHANGED calls
        PROVE  evm' \in Storage /\ calls' \in Seq(Calls)
    <2> DEFINE p == [outputRoot |-> l2Outputs[i].outputRoot, timestamp |-> timestamp, l2OutputIndex |-> i]
    <2>1. p \in Proof
      <3>1. i \in Nat \ {0} /\ l2Outputs[i] \in Proposal
        BY <1>t
      <3> QED
        BY <1>t, <3>1 DEF Proposal, Proof
    <2>2. [evm.provenWithdrawals EXCEPT ![w] = p] \in [Withdrawals -> Proof \cup {None}]
      BY <1>t, <2>1 DEF Storage
    <2>3. evm' = [evm EXCEPT !.provenWithdrawals = [evm.provenWithdrawals EXCEPT ![w] = p]]
      BY <1>1 DEF ProveWithdrawalTransaction
    <2> HIDE DEF p
    <2> QED
      BY <1>1, <1>t, <2>2, <2>3 DEF Storage
  <1>2. ASSUME NEW w \in Withdrawals, FinalizeDirect(w)
        PROVE  evm' \in Storage /\ calls' \in Seq(Calls)
    BY SMTT(30), <1>2, <1>f, <1>a DEF FinalizeDirect
  <1>3. ASSUME NEW w \in Withdrawals, FinalizeMessage(w)
        PROVE  evm' \in Storage /\ calls' \in Seq(Calls)
    <2> DEFINE m == MessageOf[w]
               paid == [Finalizing(w) EXCEPT !.balance = @ + Value[m]]
               early == [paid EXCEPT !.failedMessages = @ \cup {m}]
    <2>1. m \in Messages
      BY <1>3, MessengerAssumption DEF FinalizeMessage
    <2>2. paid \in Storage
      <3>1. Finalizing(w).balance + Value[m] \in Int
        BY <2>1, <1>f, Constants DEF Storage
      <3> QED
        BY <3>1, <1>f DEF Storage
    <2>3. early \in Storage
      BY <2>1, <2>2 DEF Storage
    <2>4. \/ evm' = FinalizeReturns(Finalizing(w)) /\ calls' = calls
          \/ evm' = FinalizeReturns(early) /\ calls' = calls
          \/ evm' = Calling(m, paid) /\ calls' = Append(calls, Call(w, m, Restored(m, paid)))
      BY <1>3 DEF FinalizeMessage
    <2> HIDE DEF m, paid, early
    <2> QED
      BY <1>t, <1>f, <1>a, <2>1, <2>2, <2>3, <2>4, StorageSteps
  <1>4. ASSUME NEW m \in Messages, RelayMessage(m)
        PROVE  evm' \in Storage /\ calls' \in Seq(Calls)
    <2>1. Call(None, m, Restored(m, evm)) \in Calls
      BY <1>t, StorageSteps DEF Call, Calls
    <2>2. evm' = Calling(m, evm) /\ calls' = Append(calls, Call(None, m, Restored(m, evm)))
      BY <1>4 DEF RelayMessage
    <2>3. calls' \in Seq(Calls)
      BY <1>t, <2>1, <2>2
    <2>4. Calling(m, evm) \in Storage
      BY <1>t, StorageSteps
    <2> QED
      BY <2>2, <2>3, <2>4
  <1>5. ASSUME NEW success \in BOOLEAN, TargetReturns(success)
        PROVE  evm' \in Storage /\ calls' \in Seq(Calls)
    <2> DEFINE call == calls[Len(calls)]
               s == IF success THEN evm ELSE call.saved
               relayed == IF call.message = None THEN s
                          ELSE IF success THEN Succeeded(call.message, s) ELSE Failed(call.message, s)
    <2>1. call \in Calls /\ Len(calls) - 1 \in 0 .. Len(calls)
      BY <1>5, <1>t DEF TargetReturns
    <2>2. s \in Storage
      BY <2>1, <1>t DEF Calls
    <2>3. call.message \in Messages \cup {None}
      BY <2>1 DEF Calls
    <2>4. evm' = (IF call.withdrawal = None THEN relayed ELSE FinalizeReturns(relayed))
          /\ calls' = SubSeq(calls, 1, Len(calls) - 1)
      BY <1>5 DEF TargetReturns
    <2> HIDE DEF call, s
    <2>5. relayed \in Storage
      BY <2>2, <2>3, StorageSteps
    <2>6. FinalizeReturns(relayed) \in Storage
      BY <2>5 DEF FinalizeReturns, Storage
    <2> HIDE DEF relayed
    <2> QED
      BY <1>t, <2>1, <2>4, <2>5, <2>6, FrontProperties
  <1> QED
    BY <1>1, <1>2, <1>3, <1>4, <1>5 DEF User

(* The variables keep their types. *)
THEOREM TypeCorrect == Spec => []TypeOK
  <1>1. ASSUME TypeOK, [Next]_vars
        PROVE  TypeOK'
    <2>1. CASE Challenger
      <3>1. ASSUME NEW i \in DOMAIN l2Outputs, DeleteL2Outputs(i)
            PROVE  l2Outputs' \in Seq(Proposal)
        BY <1>1, <3>1, FrontProperties DEF DeleteL2Outputs, TypeOK
      <3> QED
        BY <1>1, <2>1, <3>1 DEF Challenger, TypeOK, submitterVars
    <2>2. CASE Guardian
      BY <1>1, <2>2 DEF Guardian, TypeOK, submitterVars
    <2>3. CASE Tick
      BY <1>1, <2>3 DEF Tick, TypeOK, submitterVars
    <2>4. CASE UNCHANGED vars
      BY <1>1, <2>4 DEF vars, TypeOK, submitterVars
    <2> QED
      BY <1>1, <2>1, <2>2, <2>3, <2>4, SubmitterType, UserType DEF Next
  <1> QED
    BY <1>1, InitType, PTL DEF Spec

-----------------------------------------------------------------------------
(* The outputs *)

LEMMA NextInOrder ==
    ASSUME TypeOK, OutputsInOrder
    PROVE  NextBlockNumber = StartingBlockNumber + (Len(l2Outputs) + 1) * SubmissionInterval
  <1>1. CASE l2Outputs = <<>>
    <2>1. Len(l2Outputs) = 0
      BY <1>1
    <2>2. (0 + 1) * SubmissionInterval = SubmissionInterval
      BY Constants
    <2> QED
      BY <1>1, <2>1, <2>2 DEF NextBlockNumber, LatestBlockNumber
  <1>2. CASE l2Outputs # <<>>
    <2>1. Len(l2Outputs) \in DOMAIN l2Outputs /\ Len(l2Outputs) \in Nat
      BY <1>2 DEF TypeOK
    <2>2. LatestBlockNumber = StartingBlockNumber + Len(l2Outputs) * SubmissionInterval
      BY <1>2, <2>1 DEF OutputsInOrder, LatestBlockNumber
    <2>3. \A k \in Nat : (k + 1) * SubmissionInterval = k * SubmissionInterval + SubmissionInterval
                          /\ k * SubmissionInterval \in Nat
      BY Constants
    <2> QED
      BY <2>1, <2>2, <2>3, Constants DEF NextBlockNumber
  <1> QED
    BY <1>1, <1>2

(* An output is appended *)
LEMMA ProposeInOrder ==
    ASSUME TypeOK, OutputsInOrder, OutputsAreOfL2, NEW p \in pending,
           ProposeL2Output(p.outputRoot, p.l2BlockNumber, p.l1), UNCHANGED <<timestamp, l2Head>>
    PROVE  OutputsInOrder' /\ \A i \in DOMAIN l2Outputs' : l2Outputs'[i].l2BlockNumber <= l2Head'
  <1> DEFINE n == p.l2BlockNumber
             output == [outputRoot |-> p.outputRoot, timestamp |-> timestamp, l2BlockNumber |-> n]
  <1>1. l2Outputs' = Append(l2Outputs, output) /\ n = NextBlockNumber /\ ComputeL2Timestamp(n) < timestamp
    BY DEF ProposeL2Output, CanPropose
  <1>2. n = StartingBlockNumber + (Len(l2Outputs) + 1) * SubmissionInterval
    BY <1>1, NextInOrder
  <1>3. output.l2BlockNumber = n /\ output.timestamp = timestamp
    OBVIOUS
  <1>4. n <= l2Head
    BY DEF OutputsAreOfL2
  <1>t. l2Outputs \in Seq(Proposal) /\ timestamp \in Nat
    BY DEF TypeOK
  <1> HIDE DEF n, output
  <1>5. /\ DOMAIN l2Outputs' = 1 .. Len(l2Outputs) + 1
        /\ \A i \in 1 .. Len(l2Outputs) : l2Outputs'[i] = l2Outputs[i]
        /\ l2Outputs'[Len(l2Outputs) + 1] = output
        /\ Len(l2Outputs) \in Nat /\ DOMAIN l2Outputs = 1 .. Len(l2Outputs)
    BY <1>1, <1>t
  <1>6. ASSUME NEW i \in DOMAIN l2Outputs'
        PROVE  /\ l2Outputs'[i].l2BlockNumber = StartingBlockNumber + i * SubmissionInterval
               /\ ComputeL2Timestamp(l2Outputs'[i].l2BlockNumber) < l2Outputs'[i].timestamp
               /\ l2Outputs'[i].timestamp <= timestamp
               /\ \A j \in 1 .. i : l2Outputs'[j].timestamp <= l2Outputs'[i].timestamp
               /\ l2Outputs'[i].l2BlockNumber <= l2Head
    <2>1. CASE i \in 1 .. Len(l2Outputs)
      BY <1>5, <2>1 DEF OutputsInOrder, OutputsAreOfL2
    <2>2. CASE i = Len(l2Outputs) + 1
      <3>1. \A j \in 1 .. i : l2Outputs'[j].timestamp <= timestamp
        BY <1>5, <1>3, <1>t, <2>2 DEF OutputsInOrder
      <3> QED
        BY <1>1, <1>2, <1>3, <1>4, <1>5, <1>t, <2>2, <3>1
    <2> QED
      BY <1>5, <2>1, <2>2
  <1> QED
    BY <1>6 DEF OutputsInOrder, ComputeL2Timestamp

LEMMA OutputTypes ==
    ASSUME TypeOK
    PROVE  /\ l2Outputs \in Seq(Proposal) /\ timestamp \in Nat /\ l2Head \in Nat
           /\ DOMAIN l2Outputs = 1 .. Len(l2Outputs) /\ Len(l2Outputs) \in Nat
           /\ \A i \in DOMAIN l2Outputs :
                 /\ l2Outputs[i].outputRoot \in Roots
                 /\ l2Outputs[i].timestamp \in Nat /\ l2Outputs[i].l2BlockNumber \in Nat
           /\ \A p \in pending : p.l2BlockNumber \in Nat
  <1>1. l2Outputs \in Seq(Proposal) /\ timestamp \in Nat /\ l2Head \in Nat
        /\ pending \subseteq PendingProposal
    BY DEF TypeOK
  <1>2. \A i \in DOMAIN l2Outputs : l2Outputs[i] \in Proposal
    BY <1>1
  <1>3. \A i \in DOMAIN l2Outputs :
          /\ l2Outputs[i].outputRoot \in Roots
          /\ l2Outputs[i].timestamp \in Nat /\ l2Outputs[i].l2BlockNumber \in Nat
    BY <1>2 DEF Proposal
  <1>4. \A p \in pending : p.l2BlockNumber \in Nat
    BY <1>1 DEF PendingProposal
  <1> QED
    BY <1>1, <1>3, <1>4

LEMMA OutputsStep ==
    ASSUME TypeOK, OutputsInOrder, OutputsAreOfL2, [Next]_vars
    PROVE  OutputsInOrder' /\ OutputsAreOfL2'
  <1> USE DEF ComputeL2Timestamp
  <1>t. /\ l2Outputs \in Seq(Proposal) /\ timestamp \in Nat /\ l2Head \in Nat
        /\ \A i \in DOMAIN l2Outputs : l2Outputs[i].timestamp \in Nat /\ l2Outputs[i].l2BlockNumber \in Nat
        /\ \A p \in pending : p.l2BlockNumber \in Nat
    BY OutputTypes
  <1>s. ASSUME UNCHANGED <<l2Outputs, timestamp, submitterVars>>
        PROVE  OutputsInOrder' /\ OutputsAreOfL2'
    BY <1>s DEF OutputsInOrder, OutputsAreOfL2, submitterVars
  <1>1. CASE Submitter
    <2>0. UNCHANGED timestamp
      BY <1>1 DEF Submitter
    <2>1. ASSUME NEW root \in Roots, NEW l1 \in CurrentL1, SendProposal(root, l1)
          PROVE  OutputsInOrder' /\ OutputsAreOfL2'
      BY <2>0, <2>1 DEF SendProposal, OutputsInOrder, OutputsAreOfL2
    <2>2. ASSUME NEW p \in pending, IncludeProposal(p)
          PROVE  OutputsInOrder' /\ OutputsAreOfL2'
      <3>1. CASE ProposeL2Output(p.outputRoot, p.l2BlockNumber, p.l1)
        BY <2>0, <2>2, <3>1, ProposeInOrder DEF IncludeProposal, OutputsAreOfL2
      <3>2. CASE UNCHANGED l2Outputs
        BY <2>0, <2>2, <3>2 DEF IncludeProposal, OutputsInOrder, OutputsAreOfL2
      <3> QED
        BY <2>2, <3>1, <3>2 DEF IncludeProposal
    <2>3. CASE L2HeadAdvances
      BY <2>0, <2>3, <1>t, Constants DEF L2HeadAdvances, OutputsInOrder, OutputsAreOfL2
    <2> QED
      BY <1>1, <2>1, <2>2, <2>3 DEF Submitter
  <1>2. CASE Challenger
    <2>1. PICK i \in DOMAIN l2Outputs : DeleteL2Outputs(i)
      BY <1>2 DEF Challenger
    <2>2. /\ DOMAIN l2Outputs' = 1 .. i - 1
          /\ \A j \in 1 .. i - 1 : l2Outputs'[j] = l2Outputs[j] /\ j \in DOMAIN l2Outputs
          /\ i \in Nat
      BY <2>1, <1>t, FrontProperties DEF DeleteL2Outputs
    <2>3. UNCHANGED <<timestamp, submitterVars>>
      BY <1>2 DEF Challenger
    <2> QED
      BY <2>2, <2>3, <1>t DEF OutputsInOrder, OutputsAreOfL2, submitterVars
  <1>3. CASE Tick
    BY <1>3, <1>t DEF Tick, OutputsInOrder, OutputsAreOfL2, submitterVars
  <1> QED
    BY <1>1, <1>2, <1>3, <1>s DEF Next, Guardian, User, vars

LEMMA InitOutputs == Init => OutputsInOrder /\ OutputsAreOfL2
  BY SubmitterAssumption DEF Init, InitOracle, InitSubmitter, OutputsInOrder, OutputsAreOfL2

(* Outputs are for every SubmissionInterval-th block, in order and in the  *)
(* order of their timestamps, however proposals and deletions interleave   *)
(* (proposeL2Output and deleteL2Outputs).                                  *)
THEOREM OutputsAlwaysInOrder == Spec => []OutputsInOrder
  <1>1. TypeOK /\ OutputsInOrder /\ OutputsAreOfL2 /\ [Next]_vars
        => OutputsInOrder' /\ OutputsAreOfL2'
    BY OutputsStep
  <1> QED
    BY <1>1, InitOutputs, TypeCorrect, PTL DEF Spec

LEMMA FinalStay ==
    ASSUME TypeOK, OutputsInOrder, [Next]_vars, NEW i \in DOMAIN l2Outputs,
           timestamp - l2Outputs[i].timestamp >= FinalizationPeriodSeconds
    PROVE  i \in DOMAIN l2Outputs' /\ l2Outputs'[i] = l2Outputs[i]
  <1>t. /\ l2Outputs \in Seq(Proposal) /\ timestamp \in Nat
        /\ DOMAIN l2Outputs = 1 .. Len(l2Outputs) /\ Len(l2Outputs) \in Nat
        /\ \A j \in DOMAIN l2Outputs : l2Outputs[j].timestamp \in Nat
    BY OutputTypes
  <1>1. ASSUME NEW root, NEW n, NEW l1, ProposeL2Output(root, n, l1)
        PROVE  i \in DOMAIN l2Outputs' /\ l2Outputs'[i] = l2Outputs[i]
    <2>1. \E output : l2Outputs' = Append(l2Outputs, output)
      BY <1>1 DEF ProposeL2Output
    <2> QED
      BY <2>1, <1>t, AppendProperties
  <1>2. ASSUME NEW k \in DOMAIN l2Outputs, DeleteL2Outputs(k)
        PROVE  i \in DOMAIN l2Outputs' /\ l2Outputs'[i] = l2Outputs[i]
    <2>1. i < k
      <3>1. timestamp - l2Outputs[k].timestamp < FinalizationPeriodSeconds
        BY <1>2 DEF DeleteL2Outputs
      <3>2. k <= i => l2Outputs[k].timestamp <= l2Outputs[i].timestamp
        BY <1>t DEF OutputsInOrder
      <3> QED
        BY <1>t, <3>1, <3>2, Constants
    <2>2. k - 1 \in 0 .. Len(l2Outputs) /\ i \in 1 .. k - 1
      BY <1>t, <2>1
    <2>3. l2Outputs' = SubSeq(l2Outputs, 1, k - 1)
      BY <1>2 DEF DeleteL2Outputs
    <2> QED
      BY <1>t, <2>2, <2>3, FrontProperties
  <1>3. CASE UNCHANGED l2Outputs
    BY <1>3
  <1> QED
    BY <1>1, <1>2, <1>3
    DEF Next, Submitter, SendProposal, IncludeProposal, L2HeadAdvances,
        Challenger, Guardian, Tick, User, vars

(* An output that is older than the finalization period is never deleted   *)
(* or replaced, though deleteL2Outputs checks the age of one output only.  *)
THEOREM FinalOutputsAlwaysStay == Spec => FinalOutputsStay
  <1>1. TypeOK /\ OutputsInOrder /\ [Next]_vars =>
          [\A i \in DOMAIN l2Outputs :
             timestamp - l2Outputs[i].timestamp >= FinalizationPeriodSeconds
             => i \in DOMAIN l2Outputs' /\ l2Outputs'[i] = l2Outputs[i]]_vars
    BY FinalStay
  <1> QED
    BY <1>1, TypeCorrect, OutputsAlwaysInOrder, PTL DEF Spec, FinalOutputsStay

-----------------------------------------------------------------------------
(* What each function does to the storage *)

(* The balance and l2Sender play no part in GoodStorage *)
LEMMA SameGood ==
    ASSUME NEW s, NEW t, GoodStorage(s),
           t.provenWithdrawals = s.provenWithdrawals,
           t.finalizedWithdrawals = s.finalizedWithdrawals,
           t.successfulMessages = s.successfulMessages, t.failedMessages = s.failedMessages,
           t.xDomainMsgSender = s.xDomainMsgSender, t.relays = s.relays
    PROVE  GoodStorage(t)
  BY DEF GoodStorage

LEMMA ReturnsGood ==
    ASSUME NEW s \in Storage, GoodStorage(s)
    PROVE  GoodStorage(FinalizeReturns(s))
  BY SameGood DEF FinalizeReturns, Storage

(* The message that is being relayed fails or succeeds *)
LEMMA RelayedGood ==
    ASSUME NEW s \in Storage, GoodStorage(s), NEW m \in Messages, s.xDomainMsgSender = m
    PROVE  GoodStorage(Failed(m, s)) /\ GoodStorage(Succeeded(m, s))
  <1>1. /\ Failed(m, s).provenWithdrawals = s.provenWithdrawals
        /\ Failed(m, s).finalizedWithdrawals = s.finalizedWithdrawals
        /\ Failed(m, s).successfulMessages = s.successfulMessages
        /\ Failed(m, s).failedMessages = s.failedMessages \cup {m}
        /\ Failed(m, s).xDomainMsgSender = None
        /\ Failed(m, s).relays = s.relays
    BY DEF Failed, Storage
  <1>2. /\ Succeeded(m, s).provenWithdrawals = s.provenWithdrawals
        /\ Succeeded(m, s).finalizedWithdrawals = s.finalizedWithdrawals
        /\ Succeeded(m, s).successfulMessages = s.successfulMessages \cup {m}
        /\ Succeeded(m, s).failedMessages = s.failedMessages
        /\ Succeeded(m, s).xDomainMsgSender = None
        /\ Succeeded(m, s).relays = [s.relays EXCEPT ![m] = s.relays[m] + 1]
    BY DEF Succeeded, Storage
  <1>3. /\ s.successfulMessages \subseteq Messages /\ s.failedMessages \subseteq Messages
        /\ None \notin Messages /\ s.relays \in [Messages -> Nat]
    BY MessengerAssumption DEF Storage
  <1>4. GoodStorage(Failed(m, s))
    BY <1>1, <1>3 DEF GoodStorage
  <1>5. \A l \in Messages :
          Succeeded(m, s).relays[l] = IF l \in Succeeded(m, s).successfulMessages THEN 1 ELSE 0
    BY <1>2, <1>3 DEF GoodStorage
  <1>6. GoodStorage(Succeeded(m, s))
    BY <1>2, <1>3, <1>5 DEF GoodStorage
  <1> QED
    BY <1>4, <1>6

(* A withdrawal is finalized: w joins the finalized ones and its message   *)
(* is none, is being relayed, or has failed or been refused.               *)
LEMMA FinalizedGood ==
    ASSUME TypeOK, GoodStorage(evm), NEW w \in Withdrawals, CanFinalize(w), NEW t \in Storage,
           t.provenWithdrawals = evm.provenWithdrawals,
           t.finalizedWithdrawals = evm.finalizedWithdrawals \cup {w},
           t.successfulMessages = evm.successfulMessages, t.relays = evm.relays,
           t.failedMessages \in {evm.failedMessages, evm.failedMessages \cup {MessageOf[w]}},
           t.xDomainMsgSender \in {evm.xDomainMsgSender, MessageOf[w]},
           evm.xDomainMsgSender \in {None, t.xDomainMsgSender},
           MessageOf[w] \in {None, t.xDomainMsgSender} \cup t.failedMessages \cup refused,
           t.xDomainMsgSender \notin t.successfulMessages
    PROVE  GoodStorage(t)
  <1>1. \A v \in t.finalizedWithdrawals :
          LET p == t.provenWithdrawals[v] IN p # None /\ Stands(p) /\ Mature(p)
    BY DEF CanFinalize, GoodStorage
  <1>2. \A v \in Withdrawals :
          /\ MessageOf[v] # None
          /\ MessageOf[v] \in t.successfulMessages \cup t.failedMessages \cup {t.xDomainMsgSender}
          => v \in t.finalizedWithdrawals
    BY MessengerAssumption DEF GoodStorage
  <1>3. \A v \in t.finalizedWithdrawals :
          MessageOf[v] \in {None, t.xDomainMsgSender} \cup refused
                             \cup t.successfulMessages \cup t.failedMessages
    BY DEF GoodStorage
  <1> QED
    BY <1>1, <1>2, <1>3 DEF GoodStorage

LEMMA ReplayGood ==
    ASSUME TypeOK, GoodStorage(evm), NEW m \in Messages, CanReplay(m), CanCall(m, evm),
           NEW t \in Storage,
           t.provenWithdrawals = evm.provenWithdrawals,
           t.finalizedWithdrawals = evm.finalizedWithdrawals,
           t.successfulMessages = evm.successfulMessages, t.failedMessages = evm.failedMessages,
           t.xDomainMsgSender = m, t.relays = evm.relays
    PROVE  GoodStorage(t)
  BY MessengerAssumption DEF GoodStorage, CanReplay, CanCall

LEMMA ProveGood ==
    ASSUME TypeOK, GoodStorage(evm), NEW w \in Withdrawals, NEW i \in DOMAIN l2Outputs,
           ProveWithdrawalTransaction(w, i)
    PROVE  GoodStorage(evm')
  <1> DEFINE p == [outputRoot |-> l2Outputs[i].outputRoot, timestamp |-> timestamp, l2OutputIndex |-> i]
  <1>1. /\ evm'.provenWithdrawals = [evm.provenWithdrawals EXCEPT ![w] = p]
        /\ evm'.finalizedWithdrawals = evm.finalizedWithdrawals
        /\ evm'.successfulMessages = evm.successfulMessages
        /\ evm'.failedMessages = evm.failedMessages
        /\ evm'.xDomainMsgSender = evm.xDomainMsgSender
        /\ evm'.relays = evm.relays
    BY DEF TypeOK, Storage, ProveWithdrawalTransaction
  <1>2. evm.provenWithdrawals \in [Withdrawals -> Proof \cup {None}]
        /\ evm.finalizedWithdrawals \subseteq Withdrawals
    BY DEF TypeOK, Storage
  <1>3. w \notin evm.finalizedWithdrawals
    BY DEF ProveWithdrawalTransaction, Outdated, GoodStorage, Stands
  <1>4. w \in Contents[p.outputRoot]
    BY DEF ProveWithdrawalTransaction
  <1> HIDE DEF p
  <1>5. \A v \in Withdrawals : evm'.provenWithdrawals[v] # None =>
          v \in Contents[evm'.provenWithdrawals[v].outputRoot]
    BY <1>1, <1>2, <1>4 DEF GoodStorage
  <1>6. \A v \in evm.finalizedWithdrawals : evm'.provenWithdrawals[v] = evm.provenWithdrawals[v]
    BY SMTT(30), <1>1, <1>2, <1>3
  <1> QED
    BY <1>1, <1>5, <1>6 DEF GoodStorage

-----------------------------------------------------------------------------
(* The calls in progress *)

(* Nothing that GoodStorage depends on changes in a transaction of a user *)
LEMMA SameContext ==
    ASSUME UNCHANGED <<l2Outputs, timestamp, refused>>, GoodStorage(evm'),
           \A k \in DOMAIN calls' : GoodStorage(calls'[k].saved)
    PROVE  GoodStorage(evm)' /\ (\A k \in DOMAIN calls : GoodStorage(calls[k].saved))'
  BY DEF GoodStorage, Stands, Mature, Elapsed

(* No call starts or returns *)
LEMMA SameCalls ==
    ASSUME TypeOK, CallsInv, UNCHANGED <<l2Outputs, timestamp, refused, calls>>, GoodStorage(evm'),
           evm'.l2Sender = evm.l2Sender, evm'.xDomainMsgSender = evm.xDomainMsgSender
    PROVE  CallsInv'
  <1>1. GoodStorage(evm)' /\ (\A k \in DOMAIN calls : GoodStorage(calls[k].saved))'
    BY SameContext DEF CallsInv
  <1> QED
    BY <1>1 DEF CallsInv, SendersMatchCalls, SendersMatch

(* A call of a target starts *)
LEMMA CallStarts ==
    ASSUME TypeOK, CallsInv, UNCHANGED <<l2Outputs, timestamp, refused>>,
           NEW c \in Calls, calls' = Append(calls, c),
           GoodStorage(evm'), GoodStorage(c.saved),
           c.withdrawal # None => evm.l2Sender = None,
           c.message # None => evm.xDomainMsgSender = None,
           evm'.l2Sender = IF c.withdrawal = None THEN evm.l2Sender ELSE c.withdrawal,
           evm'.xDomainMsgSender = IF c.message = None THEN evm.xDomainMsgSender ELSE c.message,
           c.saved.l2Sender = evm'.l2Sender,
           c.saved.xDomainMsgSender = evm'.xDomainMsgSender
    PROVE  CallsInv'
  <1> DEFINE n == Len(calls)
  <1>1. /\ n \in Nat /\ DOMAIN calls = 1 .. n /\ DOMAIN calls' = 1 .. n + 1
        /\ Len(calls') = n + 1
        /\ \A k \in 1 .. n : calls'[k] = calls[k]
        /\ calls'[n + 1] = c
    BY AppendProperties DEF TypeOK
  <1> HIDE DEF n
  <1>2. SendersMatch(evm, n)
    BY DEF CallsInv, SendersMatchCalls, n
  <1>3. ASSUME NEW s, s.l2Sender = evm'.l2Sender, s.xDomainMsgSender = evm'.xDomainMsgSender
        PROVE  /\ s.l2Sender # None <=> \E j \in 1 .. n + 1 : calls'[j].withdrawal # None
               /\ s.xDomainMsgSender # None <=> \E j \in 1 .. n + 1 : calls'[j].message # None
               /\ \A j \in 1 .. n + 1 : /\ calls'[j].withdrawal \in {None, s.l2Sender}
                                        /\ calls'[j].message \in {None, s.xDomainMsgSender}
    BY <1>1, <1>2, <1>3 DEF SendersMatch
  <1>4. SendersMatch(evm, Len(calls))'
    BY <1>1, <1>3 DEF SendersMatch
  <1>5. ASSUME NEW k \in DOMAIN calls'
        PROVE  SendersMatch(calls[k].saved, k)'
    <2>1. CASE k \in 1 .. n
      <3>1. SendersMatch(calls[k].saved, k)
        BY <1>1, <2>1 DEF CallsInv
      <3>2. calls'[k] = calls[k] /\ \A j \in 1 .. k : calls'[j] = calls[j]
        BY <1>1, <2>1
      <3> QED
        BY <3>1, <3>2 DEF SendersMatch
    <2>2. CASE k = n + 1
      BY <1>1, <1>3, <2>2 DEF SendersMatch
    <2> QED
      BY <1>1, <2>1, <2>2
  <1>6. ASSUME NEW j \in DOMAIN calls', NEW k \in DOMAIN calls', j # k
        PROVE  /\ None \in {calls'[j].withdrawal, calls'[k].withdrawal}
               /\ None \in {calls'[j].message, calls'[k].message}
    <2>1. \A i \in 1 .. n : /\ c.withdrawal # None => calls[i].withdrawal = None
                            /\ c.message # None => calls[i].message = None
      BY <1>2 DEF SendersMatch
    <2> QED
      BY <1>1, <1>6, <2>1 DEF CallsInv, SendersMatchCalls
  <1>7. \A k \in DOMAIN calls' : GoodStorage(calls'[k].saved)
    BY <1>1 DEF CallsInv
  <1>8. GoodStorage(evm)' /\ (\A k \in DOMAIN calls : GoodStorage(calls[k].saved))'
    BY <1>7, SameContext
  <1> QED
    BY <1>4, <1>5, <1>6, <1>8 DEF CallsInv, SendersMatchCalls

(* The innermost call returns, with storage s from which the senders of    *)
(* the call are removed.                                                   *)
LEMMA CallReturns ==
    ASSUME TypeOK, CallsInv, UNCHANGED <<l2Outputs, timestamp, refused>>, calls # <<>>,
           calls' = SubSeq(calls, 1, Len(calls) - 1),
           NEW s, SendersMatch(s, Len(calls)), GoodStorage(evm'),
           evm'.l2Sender = IF calls[Len(calls)].withdrawal = None THEN s.l2Sender ELSE None,
           evm'.xDomainMsgSender = IF calls[Len(calls)].message = None THEN s.xDomainMsgSender ELSE None
    PROVE  CallsInv'
  <1> DEFINE n == Len(calls) - 1
             c == calls[Len(calls)]
  <1>1. /\ n \in 0 .. Len(calls) /\ n + 1 = Len(calls) /\ DOMAIN calls = 1 .. n + 1
        /\ DOMAIN calls' = 1 .. n /\ Len(calls') = n
        /\ \A k \in 1 .. n : calls'[k] = calls[k]
        /\ calls[n + 1] = c
    <2>1. calls \in Seq(Calls) /\ Len(calls) \in Nat /\ Len(calls) > 0 /\ DOMAIN calls = 1 .. Len(calls)
      BY EmptySeq DEF TypeOK
    <2>2. n \in 0 .. Len(calls) /\ n + 1 = Len(calls)
      BY <2>1
    <2>3. calls' \in Seq(Calls) /\ Len(calls') = n /\ \A k \in 1 .. n : calls'[k] = calls[k]
      BY <2>1, <2>2, FrontProperties
    <2> QED
      BY <2>1, <2>2, <2>3
  <1>2. \A i \in 1 .. n : /\ c.withdrawal # None => calls[i].withdrawal = None
                          /\ c.message # None => calls[i].message = None
    BY <1>1 DEF CallsInv, SendersMatchCalls
  <1> HIDE DEF n
  <1>3. /\ evm'.l2Sender # None <=> \E j \in 1 .. n : calls'[j].withdrawal # None
        /\ evm'.xDomainMsgSender # None <=> \E j \in 1 .. n : calls'[j].message # None
        /\ \A j \in 1 .. n : /\ calls'[j].withdrawal \in {None, evm'.l2Sender}
                             /\ calls'[j].message \in {None, evm'.xDomainMsgSender}
    BY <1>1, <1>2 DEF SendersMatch
  <1>4. SendersMatch(evm, Len(calls))'
    BY <1>1, <1>3 DEF SendersMatch
  <1>5. ASSUME NEW k \in DOMAIN calls'
        PROVE  SendersMatch(calls[k].saved, k)'
    <2>1. SendersMatch(calls[k].saved, k)
      BY <1>1 DEF CallsInv
    <2>2. calls'[k] = calls[k] /\ \A j \in 1 .. k : calls'[j] = calls[j]
      BY <1>1
    <2> QED
      BY ZenonT(40), <2>1, <2>2 DEF SendersMatch
  <1>6. \A k \in DOMAIN calls' : GoodStorage(calls'[k].saved)
    BY <1>1 DEF CallsInv
  <1>7. GoodStorage(evm)' /\ (\A k \in DOMAIN calls : GoodStorage(calls[k].saved))'
    BY <1>6, SameContext
  <1> QED
    BY <1>1, <1>4, <1>5, <1>7 DEF CallsInv, SendersMatchCalls

LEMMA UserKeepsCalls ==
    ASSUME TypeOK, CallsInv, User
    PROVE  CallsInv'
  <1>0. UNCHANGED <<l2Outputs, timestamp, refused>>
    BY DEF User
  <1>t. /\ evm \in Storage /\ calls \in Seq(Calls) /\ GoodStorage(evm)
        /\ None \notin Messages /\ None \notin Withdrawals
    BY MessengerAssumption, PortalAssumption DEF TypeOK, CallsInv
  <1>1. ASSUME NEW w \in Withdrawals, NEW i \in DOMAIN l2Outputs,
               ProveWithdrawalTransaction(w, i), UNCHANGED calls
        PROVE  CallsInv'
    <2>1. evm'.l2Sender = evm.l2Sender /\ evm'.xDomainMsgSender = evm.xDomainMsgSender
      BY <1>1, <1>t DEF ProveWithdrawalTransaction, Storage
    <2> QED
      BY <1>0, <1>1, <1>t, <2>1, ProveGood, SameCalls
  <1>f. ASSUME NEW w \in Withdrawals
        PROVE  /\ Finalizing(w) \in Storage
               /\ Finalizing(w).provenWithdrawals = evm.provenWithdrawals
               /\ Finalizing(w).finalizedWithdrawals = evm.finalizedWithdrawals \cup {w}
               /\ Finalizing(w).successfulMessages = evm.successfulMessages
               /\ Finalizing(w).failedMessages = evm.failedMessages
               /\ Finalizing(w).xDomainMsgSender = evm.xDomainMsgSender
               /\ Finalizing(w).relays = evm.relays
               /\ Finalizing(w).l2Sender = w
    BY <1>t DEF Finalizing, Storage
  <1>g. evm.xDomainMsgSender \notin evm.successfulMessages
    BY <1>t DEF GoodStorage
  <1>2. ASSUME NEW w \in Withdrawals, FinalizeDirect(w)
        PROVE  CallsInv'
    <2> DEFINE c == Call(w, None, Finalizing(w))
    <2>1. GoodStorage(Finalizing(w))
      BY <1>2, <1>f, <1>t, <1>g, FinalizedGood DEF FinalizeDirect
    <2>2. /\ c \in Calls /\ c.withdrawal = w /\ c.message = None /\ c.saved = Finalizing(w)
          /\ calls' = Append(calls, c) /\ evm' = Finalizing(w) /\ evm.l2Sender = None
      BY <1>2, <1>f DEF FinalizeDirect, CanFinalize, Call, Calls
    <2> HIDE DEF c
    <2> QED
      BY <1>0, <1>f, <1>t, <2>1, <2>2, CallStarts
  <1>4. ASSUME NEW m \in Messages, RelayMessage(m)
        PROVE  CallsInv'
    <2> DEFINE c == Call(None, m, Restored(m, evm))
    <2>1. /\ Calling(m, evm).provenWithdrawals = evm.provenWithdrawals
          /\ Calling(m, evm).finalizedWithdrawals = evm.finalizedWithdrawals
          /\ Calling(m, evm).successfulMessages = evm.successfulMessages
          /\ Calling(m, evm).failedMessages = evm.failedMessages
          /\ Calling(m, evm).xDomainMsgSender = m
          /\ Calling(m, evm).relays = evm.relays
          /\ Calling(m, evm).l2Sender = evm.l2Sender
      BY <1>t DEF Calling, Storage
    <2>2. /\ Restored(m, evm).provenWithdrawals = evm.provenWithdrawals
          /\ Restored(m, evm).finalizedWithdrawals = evm.finalizedWithdrawals
          /\ Restored(m, evm).successfulMessages = evm.successfulMessages
          /\ Restored(m, evm).failedMessages = evm.failedMessages
          /\ Restored(m, evm).xDomainMsgSender = m
          /\ Restored(m, evm).relays = evm.relays
          /\ Restored(m, evm).l2Sender = evm.l2Sender
      BY <1>t DEF Restored, Storage
    <2>3. Calling(m, evm) \in Storage /\ Restored(m, evm) \in Storage
      BY <1>t, StorageSteps
    <2>4. CanReplay(m) /\ CanCall(m, evm) /\ evm' = Calling(m, evm) /\ calls' = Append(calls, c)
      BY <1>4 DEF RelayMessage
    <2>5. GoodStorage(Calling(m, evm)) /\ GoodStorage(Restored(m, evm))
      BY <1>t, <2>1, <2>2, <2>3, <2>4, ReplayGood
    <2>6. c \in Calls /\ c.withdrawal = None /\ c.message = m /\ c.saved = Restored(m, evm)
      BY <2>3 DEF Call, Calls
    <2>7. evm.xDomainMsgSender = None
      BY <2>4 DEF CanCall
    <2> HIDE DEF c
    <2> QED
      BY <1>0, <1>t, <2>1, <2>2, <2>4, <2>5, <2>6, <2>7, CallStarts
  <1>3. ASSUME NEW w \in Withdrawals, FinalizeMessage(w)
        PROVE  CallsInv'
    <2> DEFINE m == MessageOf[w]
               paid == [Finalizing(w) EXCEPT !.balance = @ + Value[m]]
               early == [paid EXCEPT !.failedMessages = @ \cup {m}]
               c == Call(w, m, Restored(m, paid))
    <2>1. m \in Messages /\ CanFinalize(w) /\ evm.l2Sender = None
      BY <1>3, MessengerAssumption DEF FinalizeMessage, CanFinalize
    <2>2. paid \in Storage
      <3>1. Finalizing(w).balance + Value[m] \in Int
        BY <2>1, <1>f, Constants DEF Storage
      <3> QED
        BY <3>1, <1>f DEF Storage
    <2>3. /\ paid.provenWithdrawals = evm.provenWithdrawals
          /\ paid.finalizedWithdrawals = evm.finalizedWithdrawals \cup {w}
          /\ paid.successfulMessages = evm.successfulMessages
          /\ paid.failedMessages = evm.failedMessages
          /\ paid.xDomainMsgSender = evm.xDomainMsgSender
          /\ paid.relays = evm.relays
          /\ paid.l2Sender = w
      BY <1>f DEF Storage
    <2>4. \/ ~Relayable(m, Finalizing(w)) /\ evm' = FinalizeReturns(Finalizing(w)) /\ calls' = calls
          \/ evm' = FinalizeReturns(early) /\ calls' = calls
          \/ /\ Relayable(m, Finalizing(w)) /\ CanCall(m, paid)
             /\ evm' = Calling(m, paid) /\ calls' = Append(calls, c)
      BY <1>3 DEF FinalizeMessage
    <2>5. m \notin evm.failedMessages \cup evm.successfulMessages
      <3>1. w \notin evm.finalizedWithdrawals
        BY <2>1 DEF CanFinalize
      <3>2. MessageOf[w] # None
        BY <2>1, <1>t
      <3> QED
        BY <1>t, <3>1, <3>2 DEF GoodStorage
    <2>6. early \in Storage /\ early.failedMessages = evm.failedMessages \cup {m}
          /\ early.provenWithdrawals = paid.provenWithdrawals
          /\ early.finalizedWithdrawals = paid.finalizedWithdrawals
          /\ early.successfulMessages = paid.successfulMessages
          /\ early.xDomainMsgSender = paid.xDomainMsgSender
          /\ early.relays = paid.relays
      BY <2>1, <2>2, <2>3 DEF Storage
    <2> HIDE DEF m, paid, early
    <2>7. CASE ~Relayable(m, Finalizing(w)) /\ evm' = FinalizeReturns(Finalizing(w)) /\ calls' = calls
      <3>1. m \in refused
        BY <1>f, <2>5, <2>7 DEF Relayable
      <3>2. GoodStorage(Finalizing(w))
        BY <1>f, <1>t, <1>g, <2>1, <3>1, FinalizedGood DEF m
      <3>3. GoodStorage(evm')
        BY <1>f, <2>7, <3>2, ReturnsGood
      <3>4. evm'.l2Sender = None /\ evm'.xDomainMsgSender = evm.xDomainMsgSender
        BY <1>f, <2>7 DEF FinalizeReturns, Storage
      <3> QED
        BY <1>0, <2>1, <2>7, <3>3, <3>4, SameCalls
    <2>8. CASE evm' = FinalizeReturns(early) /\ calls' = calls
      <3>1. GoodStorage(early)
        BY <1>t, <1>g, <2>1, <2>3, <2>6, FinalizedGood DEF m
      <3>2. GoodStorage(evm')
        BY <2>6, <2>8, <3>1, ReturnsGood
      <3>3. evm'.l2Sender = None /\ evm'.xDomainMsgSender = evm.xDomainMsgSender
        BY SMTT(30), <2>3, <2>6, <2>8 DEF FinalizeReturns, Storage
      <3> QED
        BY <1>0, <2>1, <2>8, <3>2, <3>3, SameCalls
    <2>9. CASE /\ Relayable(m, Finalizing(w)) /\ CanCall(m, paid)
               /\ evm' = Calling(m, paid) /\ calls' = Append(calls, c)
      <3>1. evm.xDomainMsgSender = None
        BY <2>3, <2>9 DEF CanCall
      <3>2. /\ Calling(m, paid) \in Storage /\ Restored(m, paid) \in Storage
        BY <2>1, <2>2, StorageSteps
      <3>3. /\ Calling(m, paid).provenWithdrawals = paid.provenWithdrawals
            /\ Calling(m, paid).finalizedWithdrawals = paid.finalizedWithdrawals
            /\ Calling(m, paid).successfulMessages = paid.successfulMessages
            /\ Calling(m, paid).failedMessages = paid.failedMessages
            /\ Calling(m, paid).xDomainMsgSender = m
            /\ Calling(m, paid).relays = paid.relays
            /\ Calling(m, paid).l2Sender = paid.l2Sender
        BY <2>2 DEF Calling, Storage
      <3>4. /\ Restored(m, paid).provenWithdrawals = paid.provenWithdrawals
            /\ Restored(m, paid).finalizedWithdrawals = paid.finalizedWithdrawals
            /\ Restored(m, paid).successfulMessages = paid.successfulMessages
            /\ Restored(m, paid).failedMessages = paid.failedMessages
            /\ Restored(m, paid).xDomainMsgSender = m
            /\ Restored(m, paid).relays = paid.relays
            /\ Restored(m, paid).l2Sender = paid.l2Sender
        BY <2>2 DEF Restored, Storage
      <3>5. GoodStorage(Calling(m, paid))
        BY <1>t, <2>1, <2>3, <2>5, <3>1, <3>2, <3>3, FinalizedGood DEF m
      <3>6. GoodStorage(Restored(m, paid))
        BY <1>t, <2>1, <2>3, <2>5, <3>1, <3>2, <3>4, FinalizedGood DEF m
      <3>7. c \in Calls /\ c.withdrawal = w /\ c.message = m /\ c.saved = Restored(m, paid)
        BY <2>1, <3>2 DEF Call, Calls
      <3> HIDE DEF c
      <3> QED
        BY SMTT(30), <1>0, <1>t, <2>1, <2>3, <2>9, <3>1, <3>3, <3>4, <3>5, <3>6, <3>7, CallStarts
    <2> QED
      BY <2>4, <2>7, <2>8, <2>9
  <1>5. ASSUME NEW success \in BOOLEAN, TargetReturns(success)
        PROVE  CallsInv'
    <2> DEFINE c == calls[Len(calls)]
               s == IF success THEN evm ELSE c.saved
               relayed == IF c.message = None THEN s
                          ELSE IF success THEN Succeeded(c.message, s) ELSE Failed(c.message, s)
    <2>1. /\ calls # <<>> /\ calls' = SubSeq(calls, 1, Len(calls) - 1)
          /\ evm' = (IF c.withdrawal = None THEN relayed ELSE FinalizeReturns(relayed))
      BY <1>5 DEF TargetReturns
    <2>2. Len(calls) \in DOMAIN calls /\ c \in Calls /\ Len(calls) \in 1 .. Len(calls)
      BY <1>t, <2>1
    <2>3. SendersMatch(s, Len(calls)) /\ GoodStorage(s) /\ s \in Storage
      BY <1>t, <2>2 DEF CallsInv, SendersMatchCalls, Calls
    <2>4. c.message \in {None, s.xDomainMsgSender} /\ c.message \in Messages \cup {None}
      BY SMTT(30), <2>2, <2>3 DEF SendersMatch, Calls
    <2> HIDE DEF c, s
    <2>5. /\ relayed \in Storage /\ GoodStorage(relayed) /\ relayed.l2Sender = s.l2Sender
          /\ relayed.xDomainMsgSender = IF c.message = None THEN s.xDomainMsgSender ELSE None
      <3>1. CASE c.message = None
        BY <2>3, <3>1
      <3>2. CASE c.message # None
        <4>1. c.message \in Messages /\ s.xDomainMsgSender = c.message
          BY <2>4, <3>2
        <4>2. /\ Succeeded(c.message, s).l2Sender = s.l2Sender
              /\ Succeeded(c.message, s).xDomainMsgSender = None
              /\ Failed(c.message, s).l2Sender = s.l2Sender
              /\ Failed(c.message, s).xDomainMsgSender = None
          BY <2>3 DEF Succeeded, Failed, Storage
        <4> QED
          BY <2>3, <3>2, <4>1, <4>2, StorageSteps, RelayedGood
      <3> QED
        BY <3>1, <3>2
    <2> HIDE DEF relayed
    <2>6. GoodStorage(FinalizeReturns(relayed)) /\ FinalizeReturns(relayed).l2Sender = None
          /\ FinalizeReturns(relayed).xDomainMsgSender = relayed.xDomainMsgSender
      BY <2>5, ReturnsGood DEF FinalizeReturns, Storage
    <2>7. GoodStorage(evm')
      BY <2>1, <2>5, <2>6
    <2>8. /\ evm'.l2Sender = IF c.withdrawal = None THEN s.l2Sender ELSE None
          /\ evm'.xDomainMsgSender = IF c.message = None THEN s.xDomainMsgSender ELSE None
      BY <2>1, <2>5, <2>6
    <2> QED
      BY <1>0, <2>1, <2>3, <2>7, <2>8, CallReturns DEF c
  <1> QED
    BY <1>1, <1>2, <1>3, <1>4, <1>5 DEF User

-----------------------------------------------------------------------------
(* The inductive invariant *)

LEMMA InitBridge == Init => BridgeInv
  <1> SUFFICES ASSUME Init PROVE CallsInv
    BY InitType, InitOutputs DEF BridgeInv
  <1>1. calls = <<>> /\ DOMAIN calls = {} /\ Len(calls) = 0
    BY DEF Init, InitMessenger
  <1>2. GoodStorage(evm)
    BY DEF Init, InitMessenger, GoodStorage
  <1>3. SendersMatch(evm, 0)
    BY SMTT(30) DEF Init, InitMessenger, SendersMatch
  <1> QED
    BY <1>1, <1>2, <1>3 DEF CallsInv, SendersMatchCalls

(* A step between transactions: outputs change, but not the final ones *)
LEMMA OutsideStep ==
    ASSUME TypeOK, OutputsInOrder, CallsInv, [Next]_vars, calls = <<>>,
           UNCHANGED <<evm, calls, refused>>, timestamp' \in {timestamp, timestamp + 1}
    PROVE  CallsInv'
  <1>1. DOMAIN calls' = {} /\ Len(calls') = Len(calls)
    OBVIOUS
  <1>2. ASSUME NEW w \in evm.finalizedWithdrawals
        PROVE  LET p == evm.provenWithdrawals[w] IN p # None /\ Stands(p)' /\ Mature(p)'
    <2> DEFINE p == evm.provenWithdrawals[w]
               i == p.l2OutputIndex
    <2>1. p # None /\ Stands(p) /\ Mature(p)
      BY DEF CallsInv, GoodStorage
    <2>2. p \in Proof
      BY <2>1 DEF TypeOK, Storage
    <2>3. p.timestamp \in Nat /\ i \in DOMAIN l2Outputs
      BY <2>1, <2>2 DEF Proof, Stands
    <2>4. timestamp - l2Outputs[i].timestamp >= FinalizationPeriodSeconds
      <3> DEFINE t == l2Outputs[i].timestamp
      <3>1. timestamp > t + FinalizationPeriodSeconds
        BY <2>1 DEF Mature, Elapsed
      <3>2. timestamp \in Nat /\ t \in Nat /\ FinalizationPeriodSeconds \in Nat
        BY <2>3, OutputTypes, Constants
      <3> HIDE DEF t, i, p
      <3>3. timestamp - t >= FinalizationPeriodSeconds
        BY <3>1, <3>2
      <3> QED
        BY <3>3 DEF t
    <2>5. i \in DOMAIN l2Outputs' /\ l2Outputs'[i] = l2Outputs[i]
      BY <2>3, <2>4, FinalStay
    <2>6. Stands(p)'
      BY <2>1, <2>5 DEF Stands
    <2>7. Mature(p)'
      <3>1. /\ p' = p /\ l2Outputs'[i].timestamp = l2Outputs[i].timestamp
            /\ timestamp \in Nat /\ l2Outputs[i].timestamp \in Nat
        BY <2>3, <2>5, OutputTypes
      <3>2. \A t \in Nat : timestamp > t + FinalizationPeriodSeconds
                            => timestamp' > t + FinalizationPeriodSeconds
        BY <3>1, Constants
      <3> QED
        BY <2>1, <2>3, <3>1, <3>2 DEF Mature, Elapsed
    <2> QED
      BY <2>1, <2>6, <2>7
  <1> QED
    BY ZenonT(40), <1>1, <1>2 DEF CallsInv, GoodStorage, SendersMatchCalls, SendersMatch

LEMMA StepBridge == BridgeInv /\ TypeOK' /\ [Next]_vars => BridgeInv'
  <1> SUFFICES ASSUME BridgeInv, TypeOK', [Next]_vars PROVE CallsInv'
    BY OutputsStep DEF BridgeInv
  <1>1. CASE User
    BY <1>1, UserKeepsCalls DEF BridgeInv
  <1>2. CASE Submitter \/ Challenger \/ Guardian \/ Tick
    <2>1. calls = <<>> /\ UNCHANGED <<evm, calls, refused>>
      BY <1>2 DEF Submitter, Challenger, Guardian, Tick
    <2>2. timestamp' \in {timestamp, timestamp + 1}
      BY <1>2 DEF Submitter, Challenger, Guardian, Tick
    <2> QED
      BY <2>1, <2>2, OutsideStep DEF BridgeInv
  <1>3. CASE UNCHANGED vars
    <2>1. UNCHANGED <<l2Outputs, timestamp, refused, calls, evm>>
      BY <1>3 DEF vars
    <2>2. TypeOK /\ CallsInv /\ GoodStorage(evm')
      BY <2>1 DEF BridgeInv, CallsInv
    <2> QED
      BY <2>1, <2>2, SameCalls
  <1> QED
    BY <1>1, <1>2, <1>3 DEF Next

LEMMA BridgeInvariant == Spec => []BridgeInv
  BY InitBridge, StepBridge, TypeCorrect, PTL DEF Spec

(* What has been paid out stays proven by a final output, whatever the     *)
(* challenger deletes and the proposer posts (proveWithdrawalTransaction,  *)
(* finalizeWithdrawalTransaction, deleteL2Outputs).                        *)
THEOREM FinalizedAlwaysGrounded == Spec => []FinalizedIsGrounded
  <1>1. BridgeInv => FinalizedIsGrounded
    BY ZenonT(40) DEF BridgeInv, TypeOK, Storage, CallsInv, GoodStorage, FinalizedIsGrounded, Stands, Mature
  <1> QED
    BY <1>1, BridgeInvariant, PTL

(* Only withdrawals initiated on L2 are finalized, if the challenger does  *)
(* not let a wrong output become final.                                    *)
THEOREM FinalizedAlwaysSent == Spec => []FinalizedWereSent
  <1>1. ASSUME BridgeInv, ~WrongOutputFinal, NEW w \in evm.finalizedWithdrawals
        PROVE  SentAt[w] # None /\ SentAt[w] <= l2Head
    <2> DEFINE p == evm.provenWithdrawals[w]
               i == p.l2OutputIndex
               n == l2Outputs[i].l2BlockNumber
    <2>1. p # None /\ Stands(p) /\ Mature(p) /\ w \in Withdrawals /\ w \in Contents[p.outputRoot]
      BY <1>1 DEF BridgeInv, CallsInv, GoodStorage, TypeOK, Storage
    <2>2. i \in DOMAIN l2Outputs /\ l2Outputs[i].outputRoot = p.outputRoot
      BY <2>1 DEF Stands
    <2>3. timestamp - l2Outputs[i].timestamp >= FinalizationPeriodSeconds
      BY SMTT(30), <1>1, <2>1, <2>2, OutputTypes, Constants DEF Mature, Elapsed, BridgeInv
    <2>4. p.outputRoot = RootOf[n]
      BY <1>1, <2>2, <2>3 DEF WrongOutputFinal
    <2>5. n \in 0 .. MaxBlock /\ n <= l2Head /\ l2Head \in Nat
      BY SMTT(30), <1>1, <2>2, OutputTypes, Constants DEF BridgeInv, OutputsAreOfL2
    <2>6. SentAt[w] \in 0 .. n
      BY <2>1, <2>4, <2>5, BridgeAssumption
    <2>7. None \notin Nat
      BY BridgeAssumption
    <2> QED
      BY SMTT(30), <2>5, <2>6, <2>7
  <1>2. BridgeInv => FinalizedWereSent
    BY SMTT(30), <1>1 DEF FinalizedWereSent
  <1> QED
    BY <1>2, BridgeInvariant, PTL

(* A message is relayed successfully at most once, however targets call    *)
(* the portal and the messenger back (relayMessage).                       *)
THEOREM AlwaysRelayedOnce == Spec => []RelayedOnce
  <1>1. BridgeInv => RelayedOnce
    BY DEF BridgeInv, CallsInv, GoodStorage, RelayedOnce
  <1> QED
    BY <1>1, BridgeInvariant, PTL

(* A target sees the sender of the withdrawal and of the message that are  *)
(* being executed (l2Sender and xDomainMsgSender).                         *)
THEOREM SendersAlwaysMatch == Spec => []SendersMatchCalls
  <1>1. BridgeInv => SendersMatchCalls
    BY SMTT(30) DEF BridgeInv, CallsInv
  <1> QED
    BY <1>1, BridgeInvariant, PTL

(* A message that the portal gives to relayMessage has neither failed nor  *)
(* been relayed before: its second assertion holds.                        *)
THEOREM AssertsAlwaysHold == Spec => []AssertsHold
  <1>1. BridgeInv => AssertsHold
    <2> SUFFICES ASSUME BridgeInv, NEW w \in Withdrawals, CanFinalize(w)
                 PROVE  MessageOf[w] \notin evm.failedMessages \cup evm.successfulMessages
      BY DEF AssertsHold
    <2>1. w \notin evm.finalizedWithdrawals
      BY DEF CanFinalize
    <2>2. None \notin evm.failedMessages \cup evm.successfulMessages
      BY SMTT(30), MessengerAssumption DEF BridgeInv, TypeOK, Storage
    <2> QED
      BY <2>1, <2>2 DEF BridgeInv, CallsInv, GoodStorage
  <1> QED
    BY <1>1, BridgeInvariant, PTL

(* Between transactions no message is lost: it was relayed, can be         *)
(* replayed, or is refused (relayMessage).                                 *)
THEOREM NothingEverStuck == Spec => []NothingStuck
  <1>1. ASSUME BridgeInv, calls = <<>>
        PROVE  /\ evm.l2Sender = None /\ evm.xDomainMsgSender = None
               /\ \A w \in evm.finalizedWithdrawals :
                     MessageOf[w] \in {None} \cup refused \cup evm.successfulMessages \cup evm.failedMessages
    <2>1. SendersMatch(evm, 0)
      BY <1>1 DEF BridgeInv, CallsInv, SendersMatchCalls
    <2>2. evm.l2Sender = None /\ evm.xDomainMsgSender = None
      BY <2>1 DEF SendersMatch
    <2> QED
      BY SMTT(30), <1>1, <2>2 DEF BridgeInv, CallsInv, GoodStorage
  <1>2. BridgeInv => NothingStuck
    BY <1>1 DEF NothingStuck
  <1> QED
    BY <1>2, BridgeInvariant, PTL
=============================================================================
