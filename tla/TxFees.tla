------------------------------- MODULE TxFees -------------------------------
(***************************************************************************)
(* The fees of a transaction that is published again (op-service/txmgr/    *)
(* txmgr.go: calcGasFeeCap, calcThresholdValue, updateFees).               *)
(***************************************************************************)
EXTENDS Naturals

CalcGasFeeCap(baseFee, gasTipCap) == gasTipCap + baseFee * 2

(* Five percent more, which is too little. *)
CalcThresholdValue_TooLow(x) == (105 * x) \div 100

CalcThresholdValue(x) == (115 * x) \div 100

(* What L1 suggests is not higher and the fees stay; or both are raised to *)
(* their threshold at least.  When only the tip is below its threshold,    *)
(* the fee cap is computed anew for the tip that is used.                  *)
UpdateFees(oldTip, oldFeeCap, newTip, newBaseFee) ==
    LET newFeeCap       == CalcGasFeeCap(newBaseFee, newTip)
        thresholdTip    == CalcThresholdValue(oldTip)
        thresholdFeeCap == CalcThresholdValue(oldFeeCap)
        tip             == IF newTip >= thresholdTip THEN newTip ELSE thresholdTip
    IN  IF oldTip >= newTip /\ oldFeeCap >= newFeeCap
        THEN [tip |-> oldTip, feeCap |-> oldFeeCap]
        ELSE [tip    |-> tip,
              feeCap |-> IF newFeeCap >= thresholdFeeCap
                         THEN CalcGasFeeCap(newBaseFee, tip) ELSE thresholdFeeCap]

-----------------------------------------------------------------------------
(* What the transaction pool of geth asks of a replacement: both fees are  *)
(* higher, and by a tenth at least.                                        *)
Replaces(old, new) ==
    /\ new.tip > old.tip /\ new.feeCap > old.feeCap
    /\ new.tip >= (110 * old.tip) \div 100
    /\ new.feeCap >= (110 * old.feeCap) \div 100

(* Below, a threshold of 115 percent is rounded down to the old fee. *)
SmallestFee == 7

(* Whatever L1 suggests, the fees stay as they are or are high enough for  *)
(* the new transaction to replace the old one ("satisfies geth's required  *)
(* fee bumps", updateFees), for fees of 7 wei and more.                    *)
BumpReplaces(fees, suggested) ==
    \A oldTip, oldFeeCap \in {f \in fees : f >= SmallestFee}, newTip, newBaseFee \in suggested :
        LET old == [tip |-> oldTip, feeCap |-> oldFeeCap]
            new == UpdateFees(oldTip, oldFeeCap, newTip, newBaseFee)
        IN new = old \/ Replaces(old, new)
=============================================================================
