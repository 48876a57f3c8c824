---------------------------- MODULE MCTxManager ----------------------------
(***************************************************************************)
(* Two sends at a time, one of which may raise its price once, and one     *)
(* reorg; all fees of a small range.                                       *)
(***************************************************************************)
EXTENDS TxManager, TxFees

CONSTANTS s1, s2

MCSends == {s1, s2}
MCMaxPrice == [s \in MCSends |-> IF s = s1 THEN 1 ELSE 0]

SmallFees == BumpReplaces(0 .. 12, 0 .. 20)

(* While a send may publish again, the fees that updateFees gives it are   *)
(* the ones it has or high enough to replace its transaction, for small    *)
(* fees ("satisfies geth's required fee bumps", updateFees).               *)
BumpsReplace == \A s \in Sends : phase[s] = "sending" => SmallFees
=============================================================================
