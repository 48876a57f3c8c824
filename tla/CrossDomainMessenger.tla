------------------------ MODULE CrossDomainMessenger ------------------------
(***************************************************************************)
(* The L1CrossDomainMessenger, called by the portal with the messages that *)
(* withdrawals carry and by anyone to replay a message that failed, and    *)
(* the calls of targets that are in progress, which may call the portal    *)
(* and the messenger again.                                                *)
(*                                                                         *)
(* The version of a message, the targets that are refused and the legacy   *)
(* messages that were relayed before the migration make up refused.  The   *)
(* portal has the ETH that it pays out, and the messenger the gas that     *)
(* baseGas reserves for it.  The reverts for the estimation address only   *)
(* happen in simulations.                                                  *)
(***************************************************************************)
EXTENDS OptimismPortal

CONSTANTS
    Messages,
    MessageOf,            \* the message that a withdrawal carries, or None
    Value,                \* the ETH that a message carries
    RefusedSets           \* what refused may be

ASSUME MessengerAssumption ==
    /\ None \notin Messages
    /\ MessageOf \in [Withdrawals -> Messages \cup {None}]
    /\ \A v, w \in Withdrawals : MessageOf[v] = MessageOf[w] => v = w \/ MessageOf[v] = None
    /\ Value \in [Messages -> Nat]
    /\ RefusedSets \subseteq SUBSET Messages

VARIABLES
    calls,                \* the calls of targets in progress, the innermost last
    refused               \* messages with which relayMessage always reverts

Storage ==
    [provenWithdrawals : [Withdrawals -> Proof \cup {None}],
     finalizedWithdrawals : SUBSET Withdrawals,
     l2Sender : Withdrawals \cup {None},
     successfulMessages : SUBSET Messages,
     failedMessages : SUBSET Messages,
     xDomainMsgSender : Messages \cup {None},
     balance : Int,                        \* ETH of the messenger
     relays : [Messages -> Nat]]           \* calls of each target that succeeded

(* The call of a target: made by finalizeWithdrawalTransaction of the      *)
(* withdrawal, by relayMessage of the message, or by the second in the     *)
(* first.  saved is the storage that is restored when the target reverts.  *)
Call(withdrawal, message, saved) ==
    [withdrawal |-> withdrawal, message |-> message, saved |-> saved]

InitMessenger ==
    /\ evm = [provenWithdrawals |-> [w \in Withdrawals |-> None],
              finalizedWithdrawals |-> {}, l2Sender |-> None,
              successfulMessages |-> {}, failedMessages |-> {}, xDomainMsgSender |-> None,
              balance |-> 0, relays |-> [m \in Messages |-> 0]]
    /\ calls = <<>>
    /\ paused = FALSE
    /\ refused \in RefusedSets

(* The messenger may be entered again *)
CanCall_Reenters(m, s) == s.balance >= Value[m]

(* The call of the target of m can start: the messenger is not re-entered  *)
(* and has the ETH.  There may also be too little gas left, see hasMinGas. *)
CanCall(m, s) == s.xDomainMsgSender = None /\ s.balance >= Value[m]

(* The target of m is called: the storage it runs with *)
Calling(m, s) == [s EXCEPT !.xDomainMsgSender = m, !.balance = @ - Value[m]]

(* What a target that reverts restores: the value it was given too *)
Restored(m, s) == [s EXCEPT !.xDomainMsgSender = m]

Failed_NotRecorded(m, s) == [s EXCEPT !.xDomainMsgSender = None]

Failed(m, s) == [s EXCEPT !.xDomainMsgSender = None, !.failedMessages = @ \cup {m}]

Succeeded(m, s) ==
    [s EXCEPT !.xDomainMsgSender = None, !.successfulMessages = @ \cup {m}, !.relays[m] = @ + 1]

(* What relayMessage refuses when the portal calls it *)
Relayable(m, s) == m \notin refused \cup s.successfulMessages \cup s.failedMessages

(* finalizeWithdrawalTransaction of w, whose target is not the messenger *)
FinalizeDirect(w) ==
    /\ CanFinalize(w)
    /\ MessageOf[w] = None
    /\ evm' = Finalizing(w)
    /\ calls' = Append(calls, Call(w, None, Finalizing(w)))

(* finalizeWithdrawalTransaction of w, with relayMessage of its message m *)
FinalizeMessage(w) ==
    /\ CanFinalize(w)
    /\ MessageOf[w] # None
    /\ LET m == MessageOf[w]
           started == Finalizing(w)
           paid == [started EXCEPT !.balance = @ + Value[m]]
       IN \/ /\ ~Relayable(m, started)
             /\ evm' = FinalizeReturns(started)
             /\ UNCHANGED calls
          \/ /\ Relayable(m, started)            \* re-entered, or too little gas
             /\ evm' = FinalizeReturns([paid EXCEPT !.failedMessages = @ \cup {m}])
             /\ UNCHANGED calls
          \/ /\ Relayable(m, started) /\ CanCall(m, paid)
             /\ evm' = Calling(m, paid)
             /\ calls' = Append(calls, Call(w, m, Restored(m, paid)))

(* A message that was relayed may be replayed *)
CanReplay_Successful(m) == m \in evm.failedMessages /\ m \notin refused

CanReplay(m) ==
    m \in evm.failedMessages /\ m \notin refused /\ m \notin evm.successfulMessages

(* relayMessage by anyone.  When the call of the target cannot start the   *)
(* message stays failed.                                                   *)
RelayMessage(m) ==
    /\ CanReplay(m)
    /\ CanCall(m, evm)
    /\ evm' = Calling(m, evm)
    /\ calls' = Append(calls, Call(None, m, Restored(m, evm)))

(* The innermost call returns, and with it the functions that made it *)
TargetReturns(success) ==
    /\ calls # <<>>
    /\ LET call == calls[Len(calls)]
           s == IF success THEN evm ELSE call.saved
           relayed == IF call.message = None THEN s
                      ELSE IF success THEN Succeeded(call.message, s) ELSE Failed(call.message, s)
       IN evm' = IF call.withdrawal = None THEN relayed ELSE FinalizeReturns(relayed)
    /\ calls' = SubSeq(calls, 1, Len(calls) - 1)
=============================================================================
