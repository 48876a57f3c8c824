--------------------------- MODULE L2OutputOracle ---------------------------
(***************************************************************************)
(* The L2OutputOracle contract: the outputs that the proposer posts, which *)
(* the challenger may delete until they are final.                         *)
(*                                                                         *)
(* L1 makes a block in every unit of time, so that block.timestamp and     *)
(* block.number are the same.  A call that reverts changes nothing and is  *)
(* not a step.  The index of an output is one more than in the code.       *)
(***************************************************************************)
EXTENDS Integers, Sequences

CONSTANTS
    None,                 \* a zero value
    Roots,                \* output roots
    SubmissionInterval, L2BlockTime, FinalizationPeriodSeconds,
    StartingBlockNumber, StartingTimestamp,
    HashWindow            \* how many blocks back BLOCKHASH gives a hash

ASSUME OracleAssumption ==
    /\ SubmissionInterval \in Nat \ {0}
    /\ {L2BlockTime, FinalizationPeriodSeconds, StartingBlockNumber,
        StartingTimestamp, HashWindow} \subseteq Nat
    /\ None \notin Roots

VARIABLES
    l2Outputs,            \* sequence of [outputRoot, timestamp, l2BlockNumber]
    timestamp             \* block.timestamp

Proposal == [outputRoot : Roots, timestamp : Nat, l2BlockNumber : Nat]

InitOracle == l2Outputs = <<>> /\ timestamp = StartingTimestamp

LatestBlockNumber ==
    IF l2Outputs = <<>> THEN StartingBlockNumber ELSE l2Outputs[Len(l2Outputs)].l2BlockNumber

NextBlockNumber == LatestBlockNumber + SubmissionInterval

ComputeL2Timestamp(n) == StartingTimestamp + (n - StartingBlockNumber) * L2BlockTime

(* BLOCKHASH of L1 block l1 gives its hash.  L1 does not reorg here, so    *)
(* the proposal names the hash of that block, or the zero hash and no      *)
(* block, for which there is no check.                                     *)
HashKnown(l1) == l1 < timestamp /\ timestamp - l1 <= HashWindow

CanPropose(n, l1) ==
    /\ n = NextBlockNumber
    /\ ComputeL2Timestamp(n) < timestamp
    /\ l1 # None => HashKnown(l1)

(* Any block from the next expected one on is accepted *)
ProposeL2Output_Skips(root, n, l1) ==
    /\ n >= NextBlockNumber
    /\ ComputeL2Timestamp(n) < timestamp
    /\ l1 # None => HashKnown(l1)
    /\ l2Outputs' = Append(l2Outputs,
            [outputRoot |-> root, timestamp |-> timestamp, l2BlockNumber |-> n])

ProposeL2Output(root, n, l1) ==
    /\ CanPropose(n, l1)
    /\ l2Outputs' = Append(l2Outputs,
            [outputRoot |-> root, timestamp |-> timestamp, l2BlockNumber |-> n])

(* The period is checked at the last output, not at the first to be deleted *)
DeleteL2Outputs_ChecksLast(i) ==
    /\ i \in DOMAIN l2Outputs
    /\ timestamp - l2Outputs[Len(l2Outputs)].timestamp < FinalizationPeriodSeconds
    /\ l2Outputs' = SubSeq(l2Outputs, 1, i - 1)

(* Output i and all outputs after it are deleted *)
DeleteL2Outputs(i) ==
    /\ i \in DOMAIN l2Outputs
    /\ timestamp - l2Outputs[i].timestamp < FinalizationPeriodSeconds
    /\ l2Outputs' = SubSeq(l2Outputs, 1, i - 1)

(* _isFinalizationPeriodElapsed of the portal *)
Elapsed(t) == timestamp > t + FinalizationPeriodSeconds

-----------------------------------------------------------------------------
(* The binary search of getL2OutputIndexAfter, with indices from zero *)

IndexAfter_Strict(outputs, n) ==
    LET Search[lo \in 0 .. Len(outputs), hi \in 0 .. Len(outputs)] ==
            IF lo >= hi THEN lo
            ELSE LET mid == (lo + hi) \div 2 IN
                 IF outputs[mid + 1].l2BlockNumber <= n THEN Search[mid + 1, hi] ELSE Search[lo, mid]
    IN Search[0, Len(outputs)]

IndexAfter(outputs, n) ==
    LET Search[lo \in 0 .. Len(outputs), hi \in 0 .. Len(outputs)] ==
            IF lo >= hi THEN lo
            ELSE LET mid == (lo + hi) \div 2 IN
                 IF outputs[mid + 1].l2BlockNumber < n THEN Search[mid + 1, hi] ELSE Search[lo, mid]
    IN Search[0, Len(outputs)]

-----------------------------------------------------------------------------
(* Outputs are for every SubmissionInterval-th L2 block, in order, each    *)
(* posted after the time of its block and not before an earlier one,        *)
(* whatever was deleted and posted again (proposeL2Output).                *)
OutputsInOrder ==
    \A i \in DOMAIN l2Outputs :
        /\ l2Outputs[i].l2BlockNumber = StartingBlockNumber + i * SubmissionInterval
        /\ ComputeL2Timestamp(l2Outputs[i].l2BlockNumber) < l2Outputs[i].timestamp
        /\ l2Outputs[i].timestamp <= timestamp
        /\ \A j \in 1 .. i : l2Outputs[j].timestamp <= l2Outputs[i].timestamp

(* getL2OutputIndexAfter finds the first output that commits to an L2      *)
(* block, for every block up to the latest one: among the outputs there    *)
(* are, and when two more have been posted.                                *)
Continued(k) ==
    l2Outputs \o [i \in 1 .. k |-> [l2BlockNumber |-> LatestBlockNumber + i * SubmissionInterval]]
SearchFindsFirst ==
    \A k \in {0, 2} : LET outputs == Continued(k) IN outputs # <<>> =>
        \A n \in 0 .. outputs[Len(outputs)].l2BlockNumber :
            \E first \in {IndexAfter(outputs, n) + 1} :
                /\ first \in DOMAIN outputs
                /\ \A i \in DOMAIN outputs : outputs[i].l2BlockNumber >= n <=> i >= first
=============================================================================
