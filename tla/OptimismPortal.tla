--------------------------- MODULE OptimismPortal ---------------------------
(***************************************************************************)
(* The OptimismPortal contract: a withdrawal is proven against an output   *)
(* and, once the proof and the output are old enough, finalized by a call  *)
(* of its target.                                                          *)
(*                                                                         *)
(* evm is the storage of the contracts that a call may change, so that a   *)
(* call that reverts restores it.  Withdrawals to the portal itself, which *)
(* cannot be proven, are left out.                                         *)
(***************************************************************************)
EXTENDS L2OutputOracle

CONSTANTS
    Withdrawals,
    Contents              \* the withdrawals that each output root commits to

Proof == [outputRoot : Roots, timestamp : Nat, l2OutputIndex : Nat \ {0}]

ASSUME PortalAssumption ==
    /\ Contents \in [Roots -> SUBSET Withdrawals]
    /\ None \notin Withdrawals /\ None \notin Proof

VARIABLES
    evm,                  \* storage of portal and messenger
    paused

(* The proof was made against an output that has been replaced *)
Outdated(p) ==
    /\ p.l2OutputIndex \in DOMAIN l2Outputs
    /\ l2Outputs[p.l2OutputIndex].outputRoot # p.outputRoot

ProveWithdrawalTransaction(w, i) ==
    /\ ~paused
    /\ i \in DOMAIN l2Outputs
    /\ evm.provenWithdrawals[w] # None => Outdated(evm.provenWithdrawals[w])
    /\ w \in Contents[l2Outputs[i].outputRoot]
    /\ evm' = [evm EXCEPT !.provenWithdrawals[w] =
            [outputRoot |-> l2Outputs[i].outputRoot, timestamp |-> timestamp, l2OutputIndex |-> i]]

(* The output may have been replaced since the withdrawal was proven *)
Stands_AnyRoot(p) == p.l2OutputIndex \in DOMAIN l2Outputs

(* The root that p was made against is the root of its output *)
Stands(p) ==
    /\ p.l2OutputIndex \in DOMAIN l2Outputs
    /\ l2Outputs[p.l2OutputIndex].outputRoot = p.outputRoot

(* The age of the output is not looked at *)
Mature_ProofOnly(p) == p.timestamp >= StartingTimestamp /\ Elapsed(p.timestamp)

(* The proof and its output are older than the finalization period *)
Mature(p) ==
    /\ p.timestamp >= StartingTimestamp
    /\ Elapsed(p.timestamp)
    /\ Elapsed(l2Outputs[p.l2OutputIndex].timestamp)

(* The requirements of finalizeWithdrawalTransaction *)
CanFinalize(w) ==
    LET p == evm.provenWithdrawals[w] IN
    /\ ~paused
    /\ evm.l2Sender = None
    /\ p # None
    /\ Stands(p) /\ Mature(p)
    /\ w \notin evm.finalizedWithdrawals

(* The storage when the portal calls the target of w *)
Finalizing(w) ==
    [evm EXCEPT !.finalizedWithdrawals = @ \cup {w}, !.l2Sender = w]

FinalizeReturns_KeepsSender(s) == s

(* The storage s when finalizeWithdrawalTransaction returns *)
FinalizeReturns(s) == [s EXCEPT !.l2Sender = None]

-----------------------------------------------------------------------------
(* A withdrawal that was finalized stays proven by an output that is in    *)
(* the oracle with the root it was proven against, and that is older than  *)
(* the finalization period: what has been paid out does not lose its       *)
(* ground, whatever the challenger deletes (finalizeWithdrawalTransaction, *)
(* proveWithdrawalTransaction and deleteL2Outputs).                        *)
FinalizedIsGrounded ==
    \A w \in evm.finalizedWithdrawals :
        LET p == evm.provenWithdrawals[w] IN
        /\ p # None
        /\ p.l2OutputIndex \in DOMAIN l2Outputs
        /\ l2Outputs[p.l2OutputIndex].outputRoot = p.outputRoot
        /\ w \in Contents[p.outputRoot]
        /\ Elapsed(p.timestamp) /\ Elapsed(l2Outputs[p.l2OutputIndex].timestamp)
=============================================================================
