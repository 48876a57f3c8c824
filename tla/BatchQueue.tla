------------------------------ MODULE BatchQueue ------------------------------
(***************************************************************************)
(* From batches to the L2 chain: BatchQueue with CheckBatch, and           *)
(* AttributesQueue (op-node/rollup/derive: batch_queue.go, batches.go,     *)
(* attributes_queue.go, attributes.go), between the batches that           *)
(* ChannelInReader decodes and the engine queue that applies attributes.   *)
(*                                                                         *)
(* L1 is one chain, a block being its number.  An L2 block hash stands for *)
(* the whole chain up to the block, so it is the sequence of the blocks    *)
(* [origin, time, txs].  A batch is [parent, epoch, canonical, time, txs]: *)
(* canonical says whether its epoch hash is that of the L1 chain, and txs  *)
(* is one of                                                               *)
(*   "none"     no transactions                                            *)
(*   "some"     transactions                                               *)
(*   "bad"      an empty or a deposit transaction among them               *)
(*   "invalid"  transactions that the engine refuses to execute            *)
(***************************************************************************)
EXTENDS Integers, Sequences, SequencesExt

CONSTANTS
    None,
    Chains,              \* the L1 chains: per block, the batches read from it
    L1Time,              \* L1Time[n]: time of L1 block n
    BlockTime, SeqWindowSize, MaxSequencerDrift, ChannelTimeout,
    MaxL1,               \* bound: height of L1
    ResetOrigins,        \* origins of the safe heads that a reset may find
    MaxResets            \* bound: pipeline resets

ASSUME NoneAssumption == None \notin Nat

ASSUME ConfigAssumption ==
    /\ MaxL1 \in Nat
    /\ L1Time \in [0 .. MaxL1 -> Nat]
    /\ \A n \in 1 .. MaxL1 : L1Time[n - 1] < L1Time[n]
    /\ {BlockTime, SeqWindowSize} \subseteq Nat \ {0}
    /\ {MaxSequencerDrift, ChannelTimeout, MaxResets} \subseteq Nat

Txs == {"none", "some", "bad", "invalid"}
Blocks == [origin : Nat, time : Nat, txs : Txs]
Batches == [parent : Seq(Blocks), epoch : Nat, canonical : BOOLEAN, time : Nat, txs : Txs]

ASSUME ChainsAssumption == \A chain \in Chains : \A n \in 0 .. MaxL1 : chain[n] \in Seq(Batches)

VARIABLES
    l1,                  \* the L1 chain
    \* the stages before: their origin, whether L1Traversal gave it, and the
    \* batches still to be read from it
    origin, done, pending,
    \* BatchQueue
    bqOrigin, l1Blocks, batches,
    \* AttributesQueue
    batch,
    \* EngineQueue: the safe chain and the attributes to apply to it
    safe, safeAttributes,
    \* the error that ended the run, and the number of resets
    error, resets

upstream == <<origin, done, pending>>
vars == <<l1, origin, done, pending, bqOrigin, l1Blocks, batches, batch, safe, safeAttributes, error, resets>>

Genesis == [origin |-> 0, time |-> L1Time[0], txs |-> "none"]
NextTime(chain) == Last(chain).time + BlockTime

-----------------------------------------------------------------------------
(* CheckBatch *)

(* The rules on the time of a batch, once its epoch o is known to be       *)
(* canonical; epoch is the first of the L1 blocks, next the second or None *)
CheckTime_NoDrift(b, epoch, next, o) ==
    IF b.time < L1Time[o] \/ b.txs = "bad" THEN "drop" ELSE "accept"

CheckTime(b, epoch, next, o) ==
    IF b.time < L1Time[o] THEN "drop"
    ELSE IF b.time <= L1Time[o] + MaxSequencerDrift THEN IF b.txs = "bad" THEN "drop" ELSE "accept"
    ELSE IF b.txs # "none" THEN "drop"
    ELSE IF o # epoch THEN "accept"
    ELSE IF next = None THEN "undecided"
    ELSE IF b.time >= L1Time[next] THEN "drop" ELSE "accept"

(* The epoch of a batch may be the first of blocks, or the one after it    *)
CheckEpoch(b, blocks) ==
    LET epoch == Head(blocks)
        next  == IF Len(blocks) < 2 THEN None ELSE blocks[2]
    IN IF b.epoch \notin {epoch, epoch + 1} THEN "drop"
       ELSE IF b.epoch = epoch + 1 /\ next = None THEN "undecided"
       ELSE IF ~b.canonical THEN "drop"
       ELSE CheckTime(b, epoch, next, b.epoch)

CheckBatch(blocks, chain, b, inclusion) ==
    IF blocks = <<>> THEN "undecided"
    ELSE IF b.time > NextTime(chain) THEN "future"
    ELSE IF b.time < NextTime(chain) \/ b.parent # chain THEN "drop"
    ELSE IF b.epoch + SeqWindowSize < inclusion THEN "drop"
    ELSE CheckEpoch(b, blocks)

-----------------------------------------------------------------------------
(* deriveNextBatch: what it returns, and what it leaves of the L1 blocks   *)
(* and of the buffered batches                                             *)

EmptyBatch(epoch) ==
    [parent |-> safe, epoch |-> epoch, canonical |-> TRUE, time |-> NextTime(safe), txs |-> "none"]

EOF(blocks, buffered) == [err |-> "eof", batch |-> None, blocks |-> blocks, buffered |-> buffered]
Found(b, blocks, buffered) == [err |-> "none", batch |-> b, blocks |-> blocks, buffered |-> buffered]
Fails(err, blocks, buffered) == [err |-> err, batch |-> None, blocks |-> blocks, buffered |-> buffered]

(* The sequence window of the epoch is not waited for *)
ForceEmpty_Eager(outOfData, blocks, buffered) ==
    LET epoch == Head(blocks) IN
    IF epoch + SeqWindowSize > origin \/ Len(blocks) < 2 THEN EOF(blocks, buffered)
    ELSE IF NextTime(safe) < L1Time[blocks[2]] \/ epoch = Last(safe).origin + 1
         THEN Found(EmptyBatch(epoch), blocks, buffered)
    ELSE EOF(Tail(blocks), buffered)

(* Empty batches only when the window is well over *)
ForceEmpty_After(outOfData, blocks, buffered) ==
    LET epoch == Head(blocks) IN
    IF epoch + SeqWindowSize >= origin \/ Len(blocks) < 2 THEN EOF(blocks, buffered)
    ELSE IF NextTime(safe) < L1Time[blocks[2]] \/ epoch = Last(safe).origin + 1
         THEN Found(EmptyBatch(epoch), blocks, buffered)
    ELSE EOF(Tail(blocks), buffered)

(* No batch was accepted: once the sequence window of the epoch has passed *)
(* the epoch is filled up with empty batches, at least one, and left.  The *)
(* queue has taken over the origin of the stages before it by now.         *)
ForceEmpty(outOfData, blocks, buffered) ==
    LET epoch  == Head(blocks)
        expiry == epoch + SeqWindowSize
    IN IF ~((expiry = origin /\ outOfData) \/ expiry < origin) \/ Len(blocks) < 2
       THEN EOF(blocks, buffered)
       ELSE IF NextTime(safe) < L1Time[blocks[2]] \/ epoch = Last(safe).origin + 1
       THEN Found(EmptyBatch(epoch), blocks, buffered)
       ELSE EOF(Tail(blocks), buffered)

(* The buffered batches by timestamp *)
AtTime(buffered, t) == IF t \in DOMAIN buffered THEN buffered[t] ELSE <<>>
With(buffered, t, cs) == [u \in DOMAIN buffered \cup {t} |-> IF u = t THEN cs ELSE buffered[u]]
Without(buffered, t) == [u \in DOMAIN buffered \ {t} |-> buffered[u]]

(* The first batch for the next timestamp that is not dropped decides.  A  *)
(* batch that is undecided stays, and those behind it go.  No L1 block at  *)
(* all is a critical error, or a panic in AddBatch.                        *)
DeriveNextBatch(outOfData, blocks, buffered) ==
    LET t          == NextTime(safe)
        candidates == AtTime(buffered, t)
        verdict(i) == CheckBatch(blocks, safe, candidates[i].batch, candidates[i].inclusion)
        kept       == {i \in DOMAIN candidates : verdict(i) # "drop"}
        first      == CHOOSE i \in kept : \A j \in kept : i <= j
        chosen     == candidates[first].batch
        rest       == SubSeq(candidates, first + 1, Len(candidates))
    IN IF blocks = <<>> THEN Fails("critical", blocks, buffered)
       ELSE IF Head(blocks) - Last(safe).origin \notin {0, 1} THEN Fails("reset", blocks, buffered)
       ELSE IF kept = {} THEN ForceEmpty(outOfData, blocks, Without(buffered, t))
       ELSE IF verdict(first) = "accept"
       THEN Found(chosen,
                  IF chosen.epoch = Head(blocks) + 1 THEN Tail(blocks) ELSE blocks,
                  IF rest = <<>> THEN Without(buffered, t) ELSE With(buffered, t, rest))
       ELSE IF verdict(first) = "undecided"
       THEN EOF(blocks, With(buffered, t, <<candidates[first]>>))
       ELSE Fails("critical", blocks, buffered)

-----------------------------------------------------------------------------
(* The steps of the pipeline *)

OriginBehind == origin < Last(safe).origin

(* The L1 blocks are kept when the origin is behind the safe head *)
NewL1Blocks_Keeps ==
    IF bqOrigin = origin THEN l1Blocks ELSE Append(l1Blocks, origin)

(* The L1 blocks after the batch queue took notice of its origin *)
NewL1Blocks ==
    IF bqOrigin = origin THEN l1Blocks
    ELSE IF OriginBehind THEN <<>>
    ELSE Append(l1Blocks, origin)

(* Every stage returned EOF.  L1Traversal advances if it finds the next    *)
(* block; if not, the block of a reset is read once more.                  *)
TryAdvance ==
    \/ /\ origin < MaxL1
       /\ origin' = origin + 1 /\ done' = TRUE /\ pending' = l1[origin + 1]
    \/ /\ done' = TRUE
       /\ pending' = IF done THEN <<>> ELSE l1[origin]
       /\ UNCHANGED origin

Pulls == error = "none" /\ safeAttributes = None /\ batch = None

(* The previous stage needs another pull, or has a temporary error *)
NoBatchYet ==
    /\ Pulls
    /\ bqOrigin' = origin /\ l1Blocks' = NewL1Blocks
    /\ UNCHANGED <<l1, upstream, batches, batch, safe, safeAttributes, error, resets>>

(* Data from before the origin of the safe head is read and ignored. *)
SkipBatch ==
    /\ Pulls
    /\ OriginBehind
    /\ bqOrigin' = origin /\ l1Blocks' = NewL1Blocks
    /\ IF pending = <<>> THEN TryAdvance
       ELSE pending' = Tail(pending) /\ UNCHANGED <<origin, done>>
    /\ UNCHANGED <<l1, batches, batch, safe, safeAttributes, error, resets>>

(* AddBatch, for the batch that is loaded if there is one *)
AddBatch(blocks) ==
    IF pending = <<>> \/ CheckBatch(blocks, safe, Head(pending), origin) = "drop" THEN batches
    ELSE LET t == Head(pending).time IN
         With(batches, t, Append(AtTime(batches, t), [batch |-> Head(pending), inclusion |-> origin]))

(* The checks of createNextAttributes and PreparePayloadAttributes *)
Consistent(b) ==
    /\ b.parent = safe /\ b.time = NextTime(safe)
    /\ b.epoch - Last(safe).origin \in {0, 1}
    /\ b.time >= L1Time[b.epoch]

(* The attributes of b are built, or fail: for now, or for good *)
CreateNextAttributes(b) ==
    \/ Consistent(b) /\ safeAttributes' = b /\ batch' = None /\ UNCHANGED error
    \/ Consistent(b) /\ batch' = b /\ UNCHANGED <<safeAttributes, error>>
    \/ ~Consistent(b) /\ error' = "reset" /\ batch' = b /\ UNCHANGED safeAttributes

NextBatch ==
    /\ Pulls
    /\ ~OriginBehind
    /\ bqOrigin' = origin
    /\ \E blocks \in {NewL1Blocks} : \E outOfData \in {pending = <<>>} :
       \E derived \in {DeriveNextBatch(outOfData, blocks, AddBatch(blocks))} :
          /\ l1Blocks' = derived.blocks
          /\ batches' = derived.buffered
          /\ IF derived.err = "none" THEN CreateNextAttributes(derived.batch)
             ELSE /\ error' = IF derived.err = "eof" THEN error ELSE derived.err
                  /\ UNCHANGED <<batch, safeAttributes>>
          /\ IF outOfData /\ derived.err = "eof" THEN TryAdvance
             ELSE /\ pending' = IF outOfData THEN <<>> ELSE Tail(pending)
                  /\ UNCHANGED <<origin, done>>
    /\ UNCHANGED <<l1, safe, resets>>

RetryAttributes ==
    /\ error = "none" /\ safeAttributes = None /\ batch # None
    /\ CreateNextAttributes(batch)
    /\ UNCHANGED <<l1, upstream, bqOrigin, l1Blocks, batches, safe, resets>>

(* The engine queue applies the attributes, or drops them if they do not   *)
(* execute.                                                                *)
BlockOf(b) == [origin |-> b.epoch, time |-> b.time, txs |-> b.txs]

ApplyAttributes ==
    /\ error = "none" /\ safeAttributes # None
    /\ safe' = IF safeAttributes.txs = "invalid" THEN safe ELSE Append(safe, BlockOf(safeAttributes))
    /\ safeAttributes' = None
    /\ UNCHANGED <<l1, upstream, bqOrigin, l1Blocks, batches, batch, error, resets>>

(* The L1 block to read from again for a safe head with origin o: every L1 *)
(* block is the origin of some L2 block                                    *)
PipelineStart(o) == IF o > ChannelTimeout THEN o - ChannelTimeout ELSE 0

Reset ==
    /\ error = "none" /\ resets < MaxResets
    /\ \E n \in DOMAIN safe :
        /\ safe[n].origin \in ResetOrigins
        /\ safe' = SubSeq(safe, 1, n)
        /\ LET base == PipelineStart(safe[n].origin) IN
            /\ origin' = base /\ done' = FALSE /\ pending' = l1[base]
            /\ bqOrigin' = base /\ l1Blocks' = <<base>>
    /\ batches' = <<>> /\ batch' = None /\ safeAttributes' = None
    /\ resets' = resets + 1
    /\ UNCHANGED <<l1, error>>

Init ==
    /\ l1 \in Chains
    /\ origin = 0 /\ done = FALSE /\ pending = l1[0]
    /\ bqOrigin = 0 /\ l1Blocks = <<0>> /\ batches = <<>>
    /\ batch = None
    /\ safe = <<Genesis>> /\ safeAttributes = None
    /\ error = "none" /\ resets = 0

(* What a step of the driver may find to do: each excludes the others *)
Step == SkipBatch \/ NextBatch \/ RetryAttributes \/ ApplyAttributes

Next == NoBatchYet \/ Step \/ Reset

Spec == Init /\ [][Next]_vars

(* The driver keeps stepping; a failed attempt that is repeated for ever   *)
(* is a stuttering step, so that weak fairness excludes it.                *)
FairSpec == Spec /\ WF_vars(Step)

-----------------------------------------------------------------------------
(* The two states in which the stages ask for a reset of the pipeline,     *)
(* although L1 does not reorg.  Reset does not leave either: it finds the  *)
(* same safe head and the same batches again.                              *)
(*                                                                         *)
(* The queue moved on to the epoch after that of the safe head, as the     *)
(* sequence window was over and no empty batch was due, or with a batch    *)
(* that did not execute; it then accepts a batch of the epoch after that   *)
(* one, which has no block in between.                                     *)
FailsAhead(b) == b.txs = "invalid" /\ b.epoch # Last(b.parent).origin
Posted == UNION {ToSet(l1[n]) : n \in 0 .. MaxL1}

SkipsAnEpoch ==
    /\ batch # None /\ batch.parent = safe
    /\ batch.epoch = Last(safe).origin + 2
    /\ \/ Last(safe).origin + SeqWindowSize < origin
       \/ \E b \in Posted : FailsAhead(b) /\ b.parent = safe

(* The reset began one L1 block before the origin of the safe head.  The   *)
(* next L1 block is then not behind, so that the base is not thrown out.   *)
KeepsTheBase ==
    /\ batch = None /\ l1Blocks # <<>>
    /\ Last(safe).origin = Head(l1Blocks) + 1
    /\ Head(l1Blocks) = PipelineStart(Last(safe).origin)

(* As long as L1 does not reorg, the stages never meet a state that they   *)
(* take for inconsistent, but for those two: no panic in AddBatch, no      *)
(* critical error, no other reset from deriveNextBatch, and every other    *)
(* batch, generated ones included, passes the checks that building its     *)
(* attributes makes.                                                       *)
ResetsExplained ==
    /\ error \in {"none", "reset"}
    /\ error = "reset" => SkipsAnEpoch \/ KeepsTheBase

(* The rules of the chain itself: L2 time is not behind the L1 origin, the *)
(* origin moves by at most one L1 block, so that every L1 block gets its   *)
(* deposits included, and a block too far ahead of its origin has no       *)
(* transactions of the sequencer.                                          *)
ChainRules ==
    \A n \in 2 .. Len(safe) :
        /\ safe[n].time = safe[n - 1].time + BlockTime
        /\ safe[n].time >= L1Time[safe[n].origin]
        /\ safe[n].origin - safe[n - 1].origin \in {0, 1}
        /\ safe[n].txs # "none" => safe[n].time <= L1Time[safe[n].origin] + MaxSequencerDrift

(* What the L1 chain as a whole gives on top of chain: the first of all    *)
(* batches that is valid when every L1 block is known, by the rule that    *)
(* epoch is the origin of the safe head, or else an empty block.           *)
NonEager(chain) ==
    LET o       == Last(chain).origin
        valid   == UNION {{<<n, k>> : k \in {j \in DOMAIN l1[n] :
                       /\ CheckBatch(<<o, o + 1>>, chain, l1[n][j], n) = "accept"
                       /\ l1[n][j].txs # "invalid"}} : n \in 0 .. MaxL1}
        first   == CHOOSE p \in valid : \A q \in valid : p[1] < q[1] \/ (p[1] = q[1] /\ p[2] <= q[2])
    IN IF valid # {} THEN BlockOf(l1[first[1]][first[2]])
       ELSE [origin |-> IF NextTime(chain) < L1Time[o + 1] THEN o ELSE o + 1,
             time |-> NextTime(chain), txs |-> "none"]

(* The queue decides as soon as it can, on the L1 blocks and the batches   *)
(* it has; what it decides is what a derivation that waits for all of L1   *)
(* would give, through resets and temporary errors too.  A batch that      *)
(* takes the queue to the next epoch and does not execute is the one       *)
(* exception: a valid batch of the epoch before it is then dropped.        *)
EagerIsNonEager ==
    (\A b \in Posted : ~FailsAhead(b)) =>
        \A n \in 2 .. Len(safe) :
            safe[n - 1].origin < MaxL1 => safe[n] = NonEager(SubSeq(safe, 1, n - 1))

(* Every L1 block whose sequence window has passed gets its L2 blocks,     *)
(* whatever is posted and whatever fails on the way, unless the stages ask *)
(* for a reset, in one of the two states above.                            *)
FillsWindow == <>[](error = "reset" \/ Last(safe).origin >= MaxL1 - SeqWindowSize)
=============================================================================
