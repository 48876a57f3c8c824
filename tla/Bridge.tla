------------------------------- MODULE Bridge -------------------------------
(***************************************************************************)
(* The way of a withdrawal from L2 to L1: op-proposer posts outputs to the *)
(* oracle, the challenger deletes some, users prove and finalize           *)
(* withdrawals at the portal, which calls targets directly or through the  *)
(* messenger, and replay the messages that failed.  Targets may call the   *)
(* portal and the messenger; proposals, deletions, pausing and the passing *)
(* of time are not part of those calls.                                    *)
(***************************************************************************)
EXTENDS CrossDomainMessenger, L2OutputSubmitter, FiniteSetsExt

CONSTANTS
    SentAt,               \* the L2 block in which a withdrawal is initiated, or None
    MaxTime

ASSUME BridgeAssumption ==
    /\ None \notin Nat
    /\ SentAt \in [Withdrawals -> Nat \cup {None}]
    /\ \A n \in 0 .. MaxBlock : \A w \in Contents[RootOf[n]] : SentAt[w] \in 0 .. n

vars == <<l2Outputs, timestamp, evm, paused, calls, refused, submitterVars>>

Init ==
    InitOracle /\ InitMessenger /\ InitSubmitter

Submitter ==
    /\ \/ \E root \in Roots, l1 \in CurrentL1 : SendProposal(root, l1)
       \/ \E p \in pending : IncludeProposal(p)
       \/ L2HeadAdvances
    /\ calls = <<>>
    /\ UNCHANGED <<timestamp, evm, paused, calls, refused>>

Challenger ==
    /\ calls = <<>>
    /\ \E i \in DOMAIN l2Outputs : DeleteL2Outputs(i)
    /\ UNCHANGED <<timestamp, evm, paused, calls, refused, submitterVars>>

Guardian ==
    /\ calls = <<>>
    /\ paused' = ~paused
    /\ UNCHANGED <<l2Outputs, timestamp, evm, calls, refused, submitterVars>>

Tick ==
    /\ calls = <<>> /\ timestamp < MaxTime
    /\ timestamp' = timestamp + 1
    /\ UNCHANGED <<l2Outputs, evm, paused, calls, refused, submitterVars>>

User ==
    /\ \/ \E w \in Withdrawals, i \in DOMAIN l2Outputs :
              ProveWithdrawalTransaction(w, i) /\ UNCHANGED calls
       \/ \E w \in Withdrawals : FinalizeDirect(w) \/ FinalizeMessage(w)
       \/ \E m \in Messages : RelayMessage(m)
       \/ \E success \in BOOLEAN : TargetReturns(success)
    /\ UNCHANGED <<l2Outputs, timestamp, paused, refused, submitterVars>>

Next == Submitter \/ Challenger \/ Guardian \/ Tick \/ User

Spec == Init /\ [][Next]_vars

-----------------------------------------------------------------------------
Calls == [withdrawal : Withdrawals \cup {None}, message : Messages \cup {None}, saved : Storage]

(* The variables have their types. *)
TypeOK ==
    /\ l2Outputs \in Seq(Proposal) /\ timestamp \in Nat
    /\ evm \in Storage /\ paused \in BOOLEAN
    /\ calls \in Seq(Calls)
    /\ l2Head \in Nat /\ faults \in Nat
    /\ pending \in SUBSET PendingProposal
    /\ refused \in SUBSET Messages

(* An output older than the finalization period stays in the oracle as it  *)
(* is, though deleteL2Outputs looks at the age of the first output only.   *)
FinalOutputsStay ==
    [][\A i \in DOMAIN l2Outputs :
          timestamp - l2Outputs[i].timestamp >= FinalizationPeriodSeconds
          => i \in DOMAIN l2Outputs' /\ l2Outputs'[i] = l2Outputs[i]]_vars

(* Outputs with the wrong root that have become final *)
WrongOutputFinal ==
    \E i \in DOMAIN l2Outputs :
        /\ l2Outputs[i].outputRoot # RootOf[l2Outputs[i].l2BlockNumber]
        /\ timestamp - l2Outputs[i].timestamp >= FinalizationPeriodSeconds

(* As long as the challenger deletes wrong outputs in time, only           *)
(* withdrawals that were initiated on L2 are finalized, also those proven  *)
(* against an output that was deleted and posted again.                    *)
FinalizedWereSent ==
    ~WrongOutputFinal =>
        \A w \in evm.finalizedWithdrawals : SentAt[w] # None /\ SentAt[w] <= l2Head

(* The target of a message is called successfully at most once, by the     *)
(* portal or by a replay, when targets call back as well: the storage to   *)
(* which a call in progress may return counts too (relayMessage).          *)
RelayedOnce ==
    \A m \in Messages : evm.relays[m] <= 1 /\ \A k \in DOMAIN calls : calls[k].saved.relays[m] <= 1

(* The senders in storage s are those of the first k calls in progress *)
SendersMatch(s, k) ==
    /\ s.l2Sender # None <=> \E j \in 1 .. k : calls[j].withdrawal # None
    /\ s.xDomainMsgSender # None <=> \E j \in 1 .. k : calls[j].message # None
    /\ \A j \in 1 .. k :
          /\ calls[j].withdrawal \in {None, s.l2Sender}
          /\ calls[j].message \in {None, s.xDomainMsgSender}

(* While a target runs, l2Sender and xDomainMsgSender are the senders of   *)
(* the withdrawal and of the message being executed, whichever targets     *)
(* call back and revert, and each contract is entered once                 *)
(* (finalizeWithdrawalTransaction and relayMessage).                       *)
SendersMatchCalls ==
    /\ SendersMatch(evm, Len(calls))
    /\ \A j, k \in DOMAIN calls : j # k =>
          /\ None \in {calls[j].withdrawal, calls[k].withdrawal}
          /\ None \in {calls[j].message, calls[k].message}

(* "These properties should always hold when the message is first          *)
(* submitted": when the portal calls relayMessage the message has not      *)
(* failed, which is its second assertion, nor been relayed, which it       *)
(* requires, so that no message that is not refused gets lost.  The first  *)
(* assertion, on the value, is about sendMessage on L2, which gives the    *)
(* withdrawal and the message the same value: Value stands for both.       *)
AssertsHold ==
    \A w \in Withdrawals :
        CanFinalize(w) => MessageOf[w] \notin evm.failedMessages \cup evm.successfulMessages

(* Between transactions, a message whose withdrawal was finalized was      *)
(* relayed or can be replayed, unless it is refused; and l2Sender and      *)
(* xDomainMsgSender have been reset, so that the next one is not refused.  *)
NothingStuck ==
    calls = <<>> =>
        /\ evm.l2Sender = None /\ evm.xDomainMsgSender = None
        /\ \A w \in evm.finalizedWithdrawals :
              MessageOf[w] \in {None} \cup refused \cup evm.successfulMessages \cup evm.failedMessages

(* Between transactions the messenger holds the ETH of the messages that   *)
(* can be replayed, and nothing else.                                      *)
Solvent ==
    calls = <<>> =>
        evm.balance = MapThenSumSet(LAMBDA m : Value[m],
                                    evm.failedMessages \ evm.successfulMessages)

-----------------------------------------------------------------------------
(* The inductive invariant.  A storage that a revert may bring back has    *)
(* the properties of the current one.                                      *)
GoodStorage(s) ==
    /\ \A w \in Withdrawals : s.provenWithdrawals[w] # None =>
          w \in Contents[s.provenWithdrawals[w].outputRoot]
    /\ \A w \in s.finalizedWithdrawals :
          LET p == s.provenWithdrawals[w] IN p # None /\ Stands(p) /\ Mature(p)
    /\ \A m \in Messages : s.relays[m] = IF m \in s.successfulMessages THEN 1 ELSE 0
    /\ \A w \in Withdrawals :
          /\ MessageOf[w] # None
          /\ MessageOf[w] \in s.successfulMessages \cup s.failedMessages \cup {s.xDomainMsgSender}
          => w \in s.finalizedWithdrawals
    /\ \A w \in s.finalizedWithdrawals :
          MessageOf[w] \in {None, s.xDomainMsgSender} \cup refused
                             \cup s.successfulMessages \cup s.failedMessages
    /\ s.xDomainMsgSender \notin s.successfulMessages

OutputsAreOfL2 ==
    /\ l2Head <= MaxBlock
    /\ \A i \in DOMAIN l2Outputs : l2Outputs[i].l2BlockNumber <= l2Head
    /\ \A p \in pending : p.l2BlockNumber <= l2Head

CallsInv ==
    /\ GoodStorage(evm) /\ SendersMatchCalls
    /\ \A k \in DOMAIN calls : GoodStorage(calls[k].saved) /\ SendersMatch(calls[k].saved, k)

BridgeInv == TypeOK /\ OutputsInOrder /\ OutputsAreOfL2 /\ CallsInv
=============================================================================
