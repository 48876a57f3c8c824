------------------------------ MODULE TxSender ------------------------------
(***************************************************************************)
(* What the transaction manager promises to op-batcher and op-proposer     *)
(* (TxManager, op-service/txmgr/txmgr.go:35-42): a call of Send ends with  *)
(* a receipt or an error, once.  What was sent is carried out on L1 at     *)
(* most once; with a receipt it is there and stays there; with an error it *)
(* may be there or not, and "may be included on L1" later.                 *)
(*                                                                         *)
(* One exception: while L1 takes a call back, the manager may be between   *)
(* learning where L1 has it and learning how deep that is.  Such a call is *)
(* doubtful until the manager has the second answer, and may then end with *)
(* a receipt that is worth nothing.                                        *)
(***************************************************************************)
EXTENDS Naturals, Sequences

CONSTANT Sends

VARIABLES
    outcome,             \* of each call: "pending", "receipt", "stale" or "error"
    onL1,                \* the calls that L1 carries out, in order
    doubtful             \* calls taken back while the manager asked about them

Carried == {onL1[i] : i \in DOMAIN onL1}

Init ==
    /\ outcome = [s \in Sends |-> "pending"]
    /\ onL1 = <<>>
    /\ doubtful = {}

Settle == doubtful' \subseteq doubtful

Include(s) ==
    /\ s \notin Carried
    /\ onL1' = Append(onL1, s)
    /\ Settle /\ UNCHANGED outcome

(* A reorg takes back the last ones, none that has a receipt. *)
Undo(n) ==
    /\ \A i \in n + 1 .. Len(onL1) : outcome[onL1[i]] # "receipt"
    /\ onL1' = SubSeq(onL1, 1, n)
    /\ doubtful' \subseteq doubtful \cup {onL1[i] : i \in n + 1 .. Len(onL1)}
    /\ UNCHANGED outcome

Return(s) ==
    /\ outcome[s] = "pending" /\ s \in Carried
    /\ outcome' = [outcome EXCEPT ![s] = "receipt"]
    /\ Settle /\ UNCHANGED onL1

ReturnStale(s) ==
    /\ outcome[s] = "pending" /\ s \in doubtful
    /\ outcome' = [outcome EXCEPT ![s] = "stale"]
    /\ Settle /\ UNCHANGED onL1

Fail(s) ==
    /\ outcome[s] = "pending"
    /\ outcome' = [outcome EXCEPT ![s] = "error"]
    /\ Settle /\ UNCHANGED onL1

Next ==
    \/ \E s \in Sends : Include(s) \/ Return(s) \/ ReturnStale(s) \/ Fail(s)
    \/ \E n \in 0 .. Len(onL1) : Undo(n)
    \/ Settle /\ UNCHANGED <<outcome, onL1>>

Spec == Init /\ [][Next]_<<outcome, onL1, doubtful>>
=============================================================================
