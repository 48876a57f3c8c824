--------------------------- MODULE OriginSelector ---------------------------
(***************************************************************************)
(* The blocks that a sequencer builds: the origin that L1OriginSelector    *)
(* chooses and the attributes that StartBuildingBlock prepares (op-node/   *)
(* rollup/driver: origin_selector.go, sequencer.go), against the rules by  *)
(* which verifiers derive the same blocks again.                           *)
(*                                                                         *)
(* found says whether the sequencer got the L1 block after the origin of   *)
(* its head.  It did not when the block is not there yet, when confDepth   *)
(* hides it (conf_depth.go), or when the request failed.                   *)
(***************************************************************************)
EXTENDS BatchQueue

PastSeqDrift(chain) == NextTime(chain) > L1Time[Last(chain).origin] + MaxSequencerDrift

(* Without the next L1 block, the current origin is kept in any case *)
FindL1Origin_AnyDrift(chain, found) ==
    LET current == Last(chain).origin
        advance == found /\ NextTime(chain) >= L1Time[current + 1]
    IN {IF advance THEN current + 1 ELSE current}

(* The origin of the block after chain, or none when it is an error: the   *)
(* next one as soon as its time has come                                   *)
FindL1Origin(chain, found) ==
    LET current == Last(chain).origin
        advance == found /\ NextTime(chain) >= L1Time[current + 1]
    IN IF ~found /\ PastSeqDrift(chain) THEN {}
       ELSE {IF advance THEN current + 1 ELSE current}

(* Transactions are taken for one second more *)
NoTxPool_OffByOne(chain, o) == NextTime(chain) > L1Time[o] + MaxSequencerDrift + 1

NoTxPool(chain, o) == NextTime(chain) > L1Time[o] + MaxSequencerDrift

(* The block that StartBuildingBlock begins with this origin, as the batch *)
(* that op-batcher makes of it                                             *)
Sequenced(chain, o, txs) ==
    [parent |-> chain, epoch |-> o, canonical |-> TRUE, time |-> NextTime(chain), txs |-> txs]

-----------------------------------------------------------------------------
(* Whatever part of L1 the sequencer sees, also at the limit of its drift: *)
(* the attributes of the block that it builds on the safe head pass the    *)
(* checks of PreparePayloadAttributes, and a verifier that has the next L1 *)
(* block accepts its batch, when it is posted within the sequence window.  *)
SequencedAccepted ==
    Last(safe).origin < MaxL1 =>
    \A found \in BOOLEAN : \A o \in FindL1Origin(safe, found) : \A txs \in {"none", "some"} :
        (txs = "some" => ~NoTxPool(safe, o)) =>
            /\ Consistent(Sequenced(safe, o, txs))
            /\ \A inclusion \in o + 1 .. o + SeqWindowSize :
                  CheckBatch(<<Last(safe).origin, Last(safe).origin + 1>>, safe,
                             Sequenced(safe, o, txs), inclusion) = "accept"
=============================================================================
