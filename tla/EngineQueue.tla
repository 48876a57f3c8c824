----------------------------- MODULE EngineQueue -----------------------------
(***************************************************************************)
(* The last stage of the derivation pipeline of op-node                    *)
(* (op-node/rollup/derive/engine_queue.go) with what drives it: the        *)
(* pipeline that resets and steps it (pipeline.go, l1_traversal.go), the   *)
(* sequencer that builds on it (driver/sequencer.go), the unsafe payloads  *)
(* that arrive from peers, the signals of L1 finality, and restarts.       *)
(*                                                                         *)
(* The stages before it are reduced to what they promise: DerivedAt tells  *)
(* at which L1 block the attributes of an L2 block are available.  L1 and  *)
(* the execution engine are external.                                      *)
(***************************************************************************)
EXTENDS EngineAPI, FindL2Heads, Sequences

CONSTANTS
    DerivedAt,          \* DerivedAt[b]: the L1 blocks that complete the data
                        \* of b for a safe head at its parent, one per L1 fork
    DepositOnly,        \* the L2 blocks that hold only deposits
    Sequenced,          \* the L2 blocks the local sequencer may build
    Signalled,          \* the L1 blocks the node is told are finalized
    Gossip,             \* the L2 blocks peers may send
    ChannelTimeout,     \* cfg.ChannelTimeout
    FinalityLookback,   \* finalityLookback
    FinalityDelay,      \* finalityDelay
    MaxReorgs,          \* bounds: L1 reorgs, restarts of node and engine
    MaxNodeRestarts,
    MaxEngineRestarts

(* Derivation from one L1 chain is deterministic and reads a batch within  *)
(* the sequence window of its epoch.  It continues whatever safe head it   *)
(* is given, and a batch may be posted again on another fork of L1.        *)
ASSUME DerivationAssumption ==
    /\ DerivedAt \in [L2Blocks -> SUBSET L1Blocks]
    /\ DerivedAt[L2Genesis] = {L1Genesis}
    /\ \A b \in L2Blocks \ {L2Genesis} : \A d \in DerivedAt[b] :
        /\ L1Chain[d] \cap DerivedAt[b] = {d}
        /\ L2Origin[b] \in L1Chain[d]
        /\ L1Number[d] <= OriginNumber(b) + SeqWindow
        /\ L2Parent[b] \notin Invalid
        /\ \A c \in L2Blocks \ {b, L2Genesis} :
            (L2Parent[c] = L2Parent[b] /\ {b, c} \cap Invalid = {})
            => L1Chain[d] \cap DerivedAt[c] = {}
ASSUME EngineQueueAssumption ==
    /\ DepositOnly \subseteq L2Blocks
    /\ Sequenced \subseteq L2Blocks \ (Invalid \cup {L2Genesis})
    /\ Signalled \subseteq L1Blocks
    /\ Gossip \subseteq L2Blocks \ {L2Genesis}
    /\ {ChannelTimeout, FinalityLookback, FinalityDelay} \subseteq Nat
    /\ FinalityLookback > 0
    /\ {MaxReorgs, MaxNodeRestarts, MaxEngineRestarts} \subseteq Nat

VARIABLES
    \* external
    l1Head, l1Finalized,     \* the canonical L1 chain
    eng,                     \* the execution engine
    \* pipeline
    resetting,               \* stages reset: 0 none, 1 the engine queue, 2 all
    l1Origin,                \* L1Traversal.block
    handed,                  \* attributes handed out since the last reset
    halted,                  \* a critical error stopped the driver
    \* engine queue
    finalized, safeHead, unsafeHead,
    building,                \* the block building job, NoJob when none
    jobLost,                 \* the engine restarted since the job began
    needForkchoiceUpdate,
    finalizedL1, triedFinalizeAt,
    safeAttributes,          \* [block, parent], NoAttributes when none
    unsafePayloads,
    finalityData,
    origin,
    stray,                   \* history: the last reset began from an engine
                             \* whose finalized block was off its own chain
    \* bounds
    reorgs, nodeRestarts, engineRestarts

l1Vars       == <<l1Head, l1Finalized, reorgs>>
pipelineVars == <<resetting, l1Origin, handed, halted>>
headVars     == <<finalized, safeHead, unsafeHead>>
buildVars    == <<building, jobLost>>
finalityVars == <<finalizedL1, triedFinalizeAt, finalityData, origin>>
restartVars  == <<nodeRestarts, engineRestarts, stray>>
vars == <<l1Vars, eng, pipelineVars, headVars, buildVars, needForkchoiceUpdate,
          finalityVars, safeAttributes, unsafePayloads, restartVars>>

NoJob        == [block |-> NoBlock, onto |-> NoBlock, safe |-> FALSE]
NoAttributes == [block |-> NoBlock, parent |-> NoBlock]

-----------------------------------------------------------------------------
(* Init: a node and an engine that both start from genesis *)
Init ==
    /\ l1Head = L1Genesis /\ l1Finalized = L1Genesis
    /\ eng = [head |-> L2Genesis, safe |-> NoBlock, finalized |-> NoBlock, known |-> {L2Genesis}]
    /\ resetting = 0 /\ l1Origin = NoBlock /\ handed = {} /\ halted = FALSE
    /\ finalized = NoBlock /\ safeHead = NoBlock /\ unsafeHead = NoBlock
    /\ building = NoJob /\ jobLost = FALSE
    /\ needForkchoiceUpdate = FALSE
    /\ finalizedL1 = NoBlock /\ triedFinalizeAt = NoBlock
    /\ safeAttributes = NoAttributes
    /\ unsafePayloads = {}
    /\ finalityData = <<>>
    /\ origin = NoBlock
    /\ stray = FALSE
    /\ reorgs = 0 /\ nodeRestarts = 0 /\ engineRestarts = 0

-----------------------------------------------------------------------------
(* Finality *)

(* Remember the last safe block of each L1 block, at most FinalityLookback *)
PostProcessSafeL2(data, l1, safe) ==
    LET kept == IF Len(data) >= FinalityLookback THEN SubSeq(data, 2, FinalityLookback) ELSE data
    IN IF kept = <<>> \/ L1Number[kept[Len(kept)].l1] < L1Number[l1]
       THEN Append(kept, [l2 |-> safe, l1 |-> l1])
       ELSE [kept EXCEPT ![Len(kept)] = [l2 |-> safe, l1 |-> @.l1]]

(* Finality that is one L1 block too early *)
NewlyFinalized_OneEarly(data, signal, current) ==
    LET blocks == {data[i].l2 : i \in {j \in DOMAIN data :
                        /\ L2Number[data[j].l2] > L2Number[current]
                        /\ L1Number[data[j].l1] <= L1Number[signal] + 1}}
    IN IF blocks = {} THEN current ELSE Highest(blocks)

(* The last L2 block that the finality data ties to a finalized L1 block,  *)
(* or the one that is finalized already                                    *)
NewlyFinalized(data, signal, current) ==
    LET blocks == {data[i].l2 : i \in {j \in DOMAIN data :
                        /\ L2Number[data[j].l2] > L2Number[current]
                        /\ L1Number[data[j].l1] <= L1Number[signal]}}
    IN IF blocks = {} THEN current ELSE Highest(blocks)

TryFinalizeL2(data, signal, l1) ==
    /\ triedFinalizeAt' = l1
    /\ finalized' = NewlyFinalized(data, signal, finalized)
    /\ needForkchoiceUpdate' = (needForkchoiceUpdate \/ finalized' # finalized)

(* A signal that the L1 block b is finalized; it may be an old one. *)
Finalize(b) ==
    /\ ~halted
    /\ b \in L1Chain[l1Finalized]
    /\ finalizedL1 # NoBlock => L1Number[b] >= L1Number[finalizedL1]
    /\ finalizedL1' = b
    /\ IF \E i \in DOMAIN finalityData : finalityData[i].l1 = b
       THEN TryFinalizeL2(finalityData, b, origin)
       ELSE UNCHANGED <<triedFinalizeAt, finalized, needForkchoiceUpdate>>
    /\ UNCHANGED <<l1Vars, eng, pipelineVars, safeHead, unsafeHead, buildVars,
                   finalityData, origin, safeAttributes, unsafePayloads, restartVars>>

-----------------------------------------------------------------------------
(* Reset *)

RequestReset == resetting' = 0

(* The L2 block whose origin is old enough to start buffering channels *)
PipelineStart(safe) ==
    Highest({b \in L2Chain[safe] :
        \/ L2Number[b] = 0
        \/ OriginNumber(b) = 0
        \/ OriginNumber(b) + ChannelTimeout <= OriginNumber(safe)})

(* The engine's finalized block is on the chain of its head.  A forkchoice *)
(* that it finds inconsistent may have moved its head off that chain.      *)
FinalizedCanonical == eng.finalized # NoBlock => eng.finalized \in L2Chain[eng.head]

(* The finality data of the chain before the reset is kept. *)
ResetEngineQueue_KeepsFinality ==
    LET h == CurrentHeads(eng.head, eng.safe, eng.finalized)
        r == Heads(l1Head, h)
    IN /\ resetting = 0 /\ ~halted
       /\ ~WalkFails(l1Head, h)
       /\ finalized' = r.finalized /\ safeHead' = r.safe /\ unsafeHead' = r.unsafe
       /\ safeAttributes' = NoAttributes
       /\ building' = NoJob /\ jobLost' = FALSE
       /\ needForkchoiceUpdate' = TRUE
       /\ origin' = L2Origin[PipelineStart(r.safe)]
       /\ resetting' = 1
       /\ stray' = ~FinalizedCanonical
       /\ UNCHANGED <<l1Vars, eng, l1Origin, handed, halted, finalizedL1, finalityData,
                      triedFinalizeAt, unsafePayloads, nodeRestarts, engineRestarts>>

(* Start over from the heads the engine knows.  No reset happens while     *)
(* FindL2Heads fails; without a plausible unsafe head it gives the zero    *)
(* reference, and so the unsafe head may be NoBlock after a reset.         *)
ResetEngineQueue ==
    /\ resetting = 0 /\ ~halted
    /\ \E h \in {CurrentHeads(eng.head, eng.safe, eng.finalized)} :
       \E r \in {Heads(l1Head, h)} :
        /\ ~WalkFails(l1Head, h)
        /\ finalized' = r.finalized /\ safeHead' = r.safe /\ unsafeHead' = r.unsafe
        /\ origin' = L2Origin[PipelineStart(r.safe)]
    /\ safeAttributes' = NoAttributes
    /\ building' = NoJob /\ jobLost' = FALSE
    /\ needForkchoiceUpdate' = TRUE
    /\ finalityData' = <<>>
    /\ resetting' = 1
    /\ stray' = ~FinalizedCanonical
    /\ UNCHANGED <<l1Vars, eng, l1Origin, handed, halted, finalizedL1,
                   triedFinalizeAt, unsafePayloads, nodeRestarts, engineRestarts>>

(* Every other stage starts over from the origin of the engine queue. *)
ResetStages ==
    /\ resetting = 1 /\ ~halted
    /\ resetting' = 2
    /\ l1Origin' = origin
    /\ handed' = {}
    /\ UNCHANGED <<l1Vars, eng, halted, headVars, buildVars, needForkchoiceUpdate,
                   finalityVars, safeAttributes, unsafePayloads, restartVars>>

-----------------------------------------------------------------------------
(* Step: one call of the pipeline's Step once every stage is reset *)

Stepping == resetting = 2 /\ ~halted

(* The number of a reference: 0 for the zero reference *)
NumberOf(b) == IF b = NoBlock THEN 0 ELSE L2Number[b]

(* An inconsistent forkchoice counts as told. *)
TryUpdateEngine_IgnoresInconsistent ==
    /\ Stepping /\ needForkchoiceUpdate
    /\ \E o \in ForkchoiceUpdate(eng, ForkchoiceState(unsafeHead, safeHead, finalized)) :
        /\ eng' = o.eng
        /\ needForkchoiceUpdate' = (o.res \notin {"valid", "syncing", "inconsistent"})
    /\ UNCHANGED <<l1Vars, pipelineVars, headVars, buildVars,
                   finalityVars, safeAttributes, unsafePayloads, restartVars>>

(* Tell the engine of heads that changed without it.  A syncing engine     *)
(* counts as told.                                                         *)
TryUpdateEngine ==
    /\ Stepping /\ needForkchoiceUpdate
    /\ \E o \in ForkchoiceUpdate(eng, ForkchoiceState(unsafeHead, safeHead, finalized)) :
        /\ eng' = o.eng
        /\ needForkchoiceUpdate' = (o.res \notin {"valid", "syncing"})
        /\ IF o.res = "inconsistent" THEN RequestReset ELSE UNCHANGED resetting
    /\ UNCHANGED <<l1Vars, l1Origin, handed, halted, headVars, buildVars,
                   finalityVars, safeAttributes, unsafePayloads, restartVars>>

(* Build the block of the queued attributes on the safe head, whatever the *)
(* unsafe chain is.                                                        *)
ForceNextSafeAttributes ==
    LET b  == safeAttributes.block
        fc == ForkchoiceState(safeHead, safeHead, finalized)
        job == [block |-> b, onto |-> safeHead, safe |-> TRUE]
        Keep == UNCHANGED <<resetting, halted, headVars, finalityData, safeAttributes>>
    IN \E s \in StartPayload(eng, fc, b) :
       \E c \in IF s.res = InsertOK THEN ConfirmPayload(s.eng, fc, b, FALSE, TRUE) ELSE {s} :
        /\ eng' = c.eng
        /\ \/ /\ c.res = InsertOK
              /\ safeHead' = b /\ unsafeHead' = b
              /\ finalityData' = PostProcessSafeL2(finalityData, origin, b)
              /\ building' = NoJob /\ jobLost' = FALSE
              /\ safeAttributes' = NoAttributes
              /\ UNCHANGED <<resetting, halted, finalized>>
           \/ /\ c.res = InsertTemporaryErr    \* try the same attributes again
              /\ IF s.res = InsertOK THEN building' = job /\ jobLost' = FALSE
                                     ELSE UNCHANGED buildVars
              /\ Keep
           \/ /\ c.res = InsertPrestateErr
              /\ building' = NoJob /\ jobLost' = FALSE
              /\ RequestReset
              /\ UNCHANGED <<halted, headVars, finalityData, safeAttributes>>
           \/ /\ c.res = InsertPayloadErr      \* drop them, unless only deposits failed
              /\ building' = NoJob /\ jobLost' = FALSE
              /\ halted' = (b \in DepositOnly)
              /\ safeAttributes' = IF b \in DepositOnly THEN safeAttributes ELSE NoAttributes
              /\ UNCHANGED <<resetting, headVars, finalityData>>

(* Take the block of the unsafe chain for safe when it is the one derived. *)
ConsolidateNextSafeAttributes ==
    LET p == L2At(eng.head, L2Number[safeHead] + 1)
    IN IF p = NoBlock
       THEN /\ RequestReset
            /\ UNCHANGED <<eng, halted, headVars, buildVars, needForkchoiceUpdate,
                           finalityData, safeAttributes>>
       ELSE IF p = safeAttributes.block
       THEN /\ safeHead' = p
            /\ needForkchoiceUpdate' = TRUE
            /\ finalityData' = PostProcessSafeL2(finalityData, origin, p)
            /\ safeAttributes' = NoAttributes
            /\ UNCHANGED <<eng, resetting, halted, finalized, unsafeHead, buildVars>>
       ELSE ForceNextSafeAttributes /\ UNCHANGED needForkchoiceUpdate

TryNextSafeAttributes ==
    /\ Stepping /\ ~needForkchoiceUpdate /\ safeAttributes # NoAttributes
    /\ IF safeHead # safeAttributes.parent
       THEN /\ IF L2Parent[safeHead] = safeAttributes.parent
               THEN safeAttributes' = NoAttributes /\ UNCHANGED resetting
               ELSE RequestReset /\ UNCHANGED safeAttributes
            /\ UNCHANGED <<eng, halted, headVars, buildVars, needForkchoiceUpdate, finalityData>>
       ELSE IF L2Number[safeHead] < NumberOf(unsafeHead)
       THEN ConsolidateNextSafeAttributes
       ELSE IF L2Number[safeHead] = NumberOf(unsafeHead)
       THEN ForceNextSafeAttributes /\ UNCHANGED needForkchoiceUpdate
       ELSE /\ unsafeHead' = safeHead
            /\ UNCHANGED <<eng, resetting, halted, finalized, safeHead, buildVars,
                           needForkchoiceUpdate, finalityData, safeAttributes>>
    /\ UNCHANGED <<l1Vars, l1Origin, handed, finalizedL1, triedFinalizeAt, origin,
                   unsafePayloads, restartVars>>

(* The next L1 block is followed whatever its parent is. *)
AdvanceL1Block_NoParentCheck ==
    LET next == L1At(l1Head, L1Number[l1Origin] + 1)
    IN IF next = NoBlock
       THEN UNCHANGED <<l1Origin, resetting>>
       ELSE l1Origin' = next /\ UNCHANGED resetting

(* A next L1 block with another parent is waited out. *)
AdvanceL1Block_NoReset ==
    LET next == L1At(l1Head, L1Number[l1Origin] + 1)
    IN IF next = NoBlock \/ L1Parent[next] # l1Origin
       THEN UNCHANGED <<l1Origin, resetting>>
       ELSE l1Origin' = next /\ UNCHANGED resetting

(* The next L1 block exists: follow it, or reset when it does not extend   *)
(* the current one.                                                        *)
AdvanceL1Block ==
    LET next == L1At(l1Head, L1Number[l1Origin] + 1)
    IN IF next = NoBlock
       THEN UNCHANGED <<l1Origin, resetting>>
       ELSE IF L1Parent[next] # l1Origin
       THEN RequestReset /\ UNCHANGED l1Origin
       ELSE l1Origin' = next /\ UNCHANGED resetting

(* Is the L1 origin of the unsafe head consistent with a new L1 origin?    *)
(* "retry" when the L1 block to compare with is not available.  The zero   *)
(* reference has number 0 and an origin that is no L1 block.               *)
VerifyNewL1Origin(new) ==
    LET unsafeOrigin == IF unsafeHead = NoBlock THEN NoBlock ELSE L2Origin[unsafeHead]
        number       == IF unsafeHead = NoBlock THEN 0 ELSE OriginNumber(unsafeHead)
        distance     == L1Number[new] - number
        canonical    == L1At(l1Head, number)
    IN CASE new = origin  -> "ok"
         [] new # origin /\ distance < 0 -> "ok"
         [] new # origin /\ distance = 0 -> IF new = unsafeOrigin THEN "ok" ELSE "reset"
         [] new # origin /\ distance = 1 -> IF L1Parent[new] = unsafeOrigin THEN "ok" ELSE "reset"
         [] new # origin /\ distance > 1 -> IF canonical = NoBlock THEN "retry"
                                            ELSE IF canonical = unsafeOrigin THEN "ok" ELSE "reset"

(* Finality is ahead of the traversal, and was not tried recently. *)
FinalizesPast ==
    /\ finalizedL1 # NoBlock
    /\ L1Number[finalizedL1] >= L1Number[l1Origin]
    /\ triedFinalizeAt # NoBlock => L1Number[l1Origin] > L1Number[triedFinalizeAt] + FinalityDelay

(* What the earlier stages have for the safe head; nothing while the       *)
(* traversal is behind its origin                                          *)
Behind == L1Number[l1Origin] < OriginNumber(safeHead)
Available ==
    {b \in L2Blocks \ ({L2Genesis} \cup handed) :
        /\ L2Parent[b] = safeHead
        /\ DerivedAt[b] \cap L1Chain[l1Origin] # {}}
NextAttributes ==
    {b \in Available : \A c \in Available :
        \A d \in DerivedAt[b] \cap L1Chain[l1Origin], f \in DerivedAt[c] \cap L1Chain[l1Origin] :
            L1Number[d] <= L1Number[f]}

(* A payload that cannot be processed holds up the next stage. *)
TryNextUnsafePayload_Blocks(first) ==
    LET Popped == unsafePayloads' = unsafePayloads \ {first}
    IN IF L2Number[first] <= L2Number[safeHead]
       THEN Popped /\ UNCHANGED <<eng, unsafeHead, l1Origin, resetting>>
       ELSE IF L2Parent[first] # unsafeHead
       THEN /\ UNCHANGED <<l1Origin, resetting>>
            /\ IF L2Number[first] = NumberOf(unsafeHead) + 1 THEN Popped ELSE UNCHANGED unsafePayloads
            /\ UNCHANGED <<eng, unsafeHead>>
       ELSE \E n \in NewPayload(eng, first) :
            \E o \in IF n.res = "valid"
                     THEN ForkchoiceUpdate(n.eng, ForkchoiceState(first, safeHead, finalized'))
                     ELSE {n} :
            /\ eng' = o.eng
            /\ unsafeHead' = IF n.res = "valid" /\ o.res = "valid" THEN first ELSE unsafeHead
            /\ IF o.res \in {"valid", "invalid", "syncing"} THEN Popped ELSE UNCHANGED unsafePayloads
            /\ IF o.res = "inconsistent" THEN RequestReset ELSE UNCHANGED resetting
            /\ UNCHANGED l1Origin

(* The payload at the top of the queue is dropped, inserted, or waits. *)
TryNextUnsafePayload(first) ==
    LET Popped == unsafePayloads' = unsafePayloads \ {first}
    IN IF L2Number[first] <= L2Number[safeHead]
       THEN Popped /\ UNCHANGED <<eng, unsafeHead, l1Origin, resetting>>
       ELSE IF L2Parent[first] # unsafeHead
       THEN /\ AdvanceL1Block
            /\ IF L2Number[first] = NumberOf(unsafeHead) + 1 THEN Popped ELSE UNCHANGED unsafePayloads
            /\ UNCHANGED <<eng, unsafeHead>>
       ELSE \E n \in NewPayload(eng, first) :
            \E o \in IF n.res = "valid"
                     THEN ForkchoiceUpdate(n.eng, ForkchoiceState(first, safeHead, finalized'))
                     ELSE {n} :
            /\ eng' = o.eng
            /\ unsafeHead' = IF n.res = "valid" /\ o.res = "valid" THEN first ELSE unsafeHead
            /\ IF o.res \in {"valid", "invalid", "syncing"} THEN Popped ELSE UNCHANGED unsafePayloads
            /\ IF o.res = "inconsistent" THEN RequestReset ELSE UNCHANGED resetting
            /\ UNCHANGED l1Origin

LowestPayloads == {p \in unsafePayloads : \A q \in unsafePayloads : L2Number[p] <= L2Number[q]}

(* Nothing is pending: look at the L1 origin, finalize what it allows, and *)
(* get the next attributes; without any, try an unsafe payload or the next *)
(* L1 block.  An L1 request that fails, or an earlier stage that needs     *)
(* another call, ends the step early.                                      *)
DeriveStep ==
    LET OffChain == ~Behind /\ L2Origin[safeHead] \notin L1Chain[l1Origin]
        Early == UNCHANGED <<eng, l1Origin, handed, resetting, unsafeHead, safeAttributes, unsafePayloads>>
    IN
    /\ Stepping /\ ~needForkchoiceUpdate /\ safeAttributes = NoAttributes
    /\ VerifyNewL1Origin(l1Origin) = "ok"
    /\ origin' = l1Origin
    /\ finalityData' = PostProcessSafeL2(finalityData, l1Origin, safeHead)
    /\ \/ /\ FinalizesPast
          /\ \/ Early
             \/ /\ L1At(l1Head, L1Number[l1Origin]) # l1Origin
                /\ RequestReset
                /\ UNCHANGED <<eng, l1Origin, handed, unsafeHead, safeAttributes, unsafePayloads>>
          /\ UNCHANGED <<triedFinalizeAt, finalized, needForkchoiceUpdate>>
       \/ /\ IF FinalizesPast
             THEN /\ L1At(l1Head, L1Number[l1Origin]) = l1Origin
                  /\ TryFinalizeL2(finalityData', finalizedL1, l1Origin)
             ELSE UNCHANGED <<triedFinalizeAt, finalized, needForkchoiceUpdate>>
          /\ \/ Early
             \/ /\ OffChain
                /\ RequestReset
                /\ UNCHANGED <<eng, l1Origin, handed, unsafeHead, safeAttributes, unsafePayloads>>
             \/ /\ ~OffChain /\ ~Behind
                /\ \E b \in NextAttributes :
                    /\ safeAttributes' = [block |-> b, parent |-> safeHead]
                    /\ handed' = handed \cup {b}
                /\ UNCHANGED <<eng, l1Origin, resetting, unsafeHead, unsafePayloads>>
             \/ /\ Behind \/ (~OffChain /\ NextAttributes = {})
                /\ IF unsafePayloads = {}
                   THEN AdvanceL1Block /\ UNCHANGED <<eng, unsafeHead, unsafePayloads>>
                   ELSE \E first \in LowestPayloads : TryNextUnsafePayload(first)
                /\ UNCHANGED <<handed, safeAttributes>>
    /\ UNCHANGED <<l1Vars, halted, safeHead, buildVars, finalizedL1, restartVars>>

(* The unsafe head's origin left the L1 chain that is traversed. *)
OriginConflict ==
    /\ Stepping /\ ~needForkchoiceUpdate /\ safeAttributes = NoAttributes
    /\ VerifyNewL1Origin(l1Origin) = "reset"
    /\ RequestReset
    /\ UNCHANGED <<l1Vars, eng, l1Origin, handed, halted, headVars, buildVars, needForkchoiceUpdate,
                   finalityVars, safeAttributes, unsafePayloads, restartVars>>

-----------------------------------------------------------------------------
(* The callers of the engine queue besides the pipeline *)

(* A payload from a peer.  The buffer may refuse it, or drop payloads of   *)
(* the lowest numbers to make room: see module PayloadsQueue.              *)
AddUnsafePayload(b) ==
    /\ ~halted
    /\ b \in Gossip \ unsafePayloads
    /\ \E dropped \in SUBSET (unsafePayloads \cup {b}) :
        /\ \A d \in dropped, k \in (unsafePayloads \cup {b}) \ dropped : L2Number[d] <= L2Number[k]
        /\ unsafePayloads' = (unsafePayloads \cup {b}) \ dropped
        /\ unsafePayloads' # {}
    /\ UNCHANGED <<l1Vars, eng, pipelineVars, headVars, buildVars, needForkchoiceUpdate,
                   finalityVars, safeAttributes, restartVars>>

EngineReady == resetting > 0 /\ ~halted

(* The sequencer begins the block b on the unsafe head; a failure is only  *)
(* logged.                                                                 *)
StartBuildingBlock(b) ==
    /\ EngineReady /\ building = NoJob
    /\ b \in Sequenced /\ L2Parent[b] = unsafeHead
    /\ \/ L2Origin[b] = L2Origin[unsafeHead]
       \/ L2Origin[b] = L1At(l1Head, OriginNumber(unsafeHead) + 1)
    /\ \E s \in StartPayload(eng, ForkchoiceState(unsafeHead, safeHead, finalized), b) :
        /\ eng' = s.eng
        /\ IF s.res = InsertOK
           THEN building' = [block |-> b, onto |-> unsafeHead, safe |-> FALSE] /\ jobLost' = FALSE
           ELSE UNCHANGED buildVars
    /\ UNCHANGED <<l1Vars, pipelineVars, headVars, needForkchoiceUpdate, finalityVars,
                   safeAttributes, unsafePayloads, restartVars>>

(* The next L1 block does not extend the origin of the unsafe head, which  *)
(* can be looked up.                                                       *)
SequencerReset ==
    LET next == L1At(l1Head, OriginNumber(unsafeHead) + 1)
    IN /\ EngineReady /\ building = NoJob
       /\ unsafeHead # NoBlock
       /\ next # NoBlock /\ L1Parent[next] # L2Origin[unsafeHead]
       /\ RequestReset
       /\ UNCHANGED <<l1Vars, eng, l1Origin, handed, halted, headVars, buildVars,
                      needForkchoiceUpdate, finalityVars, safeAttributes, unsafePayloads, restartVars>>

(* The sequencer seals its block, on the parent it was begun on.  Every    *)
(* failure ends the job.  A job of the derivation is left alone.           *)
CompleteBuildingBlock ==
    /\ EngineReady /\ building # NoJob /\ ~building.safe
    /\ \E c \in ConfirmPayload(eng, ForkchoiceState(NoBlock, safeHead, finalized),
                               building.block, jobLost, FALSE) :
        /\ eng' = c.eng
        /\ unsafeHead' = IF c.res = InsertOK THEN building.block ELSE unsafeHead
    /\ building' = NoJob /\ jobLost' = FALSE
    /\ UNCHANGED <<l1Vars, pipelineVars, finalized, safeHead, needForkchoiceUpdate,
                   finalityVars, safeAttributes, unsafePayloads, restartVars>>

-----------------------------------------------------------------------------
(* L1 and the processes *)

nodeVars == <<pipelineVars, headVars, buildVars, needForkchoiceUpdate, finalityVars,
              safeAttributes, unsafePayloads>>

L1Extends ==
    /\ \E b \in L1Blocks : L1Parent[b] = l1Head /\ l1Head' = b
    /\ UNCHANGED <<l1Finalized, reorgs, eng, nodeVars, restartVars>>

(* The L1 chain changes to another one that holds what is finalized. *)
L1Reorgs ==
    /\ reorgs < MaxReorgs
    /\ reorgs' = reorgs + 1
    /\ \E b \in L1Blocks :
        /\ l1Finalized \in L1Chain[b]
        /\ b \notin L1Chain[l1Head]
        /\ l1Head \notin L1Chain[b]
        /\ l1Head' = b
    /\ UNCHANGED <<l1Finalized, eng, nodeVars, restartVars>>

L1Finalizes ==
    /\ \E b \in L1Chain[l1Head] : L1Parent[b] = l1Finalized /\ l1Finalized' = b
    /\ UNCHANGED <<l1Head, reorgs, eng, nodeVars, restartVars>>

(* The process of the node starts again with nothing in memory. *)
NodeRestarts ==
    /\ nodeRestarts < MaxNodeRestarts
    /\ nodeRestarts' = nodeRestarts + 1
    /\ resetting' = 0 /\ l1Origin' = NoBlock /\ handed' = {} /\ halted' = FALSE
    /\ finalized' = NoBlock /\ safeHead' = NoBlock /\ unsafeHead' = NoBlock
    /\ building' = NoJob /\ jobLost' = FALSE
    /\ needForkchoiceUpdate' = FALSE
    /\ finalizedL1' = NoBlock /\ triedFinalizeAt' = NoBlock
    /\ safeAttributes' = NoAttributes
    /\ unsafePayloads' = {}
    /\ finalityData' = <<>>
    /\ origin' = NoBlock
    /\ UNCHANGED <<l1Vars, eng, engineRestarts, stray>>

(* The engine comes back with a chain it had stored, without its labels,   *)
(* and without the block it was building.                                  *)
EngineRestarts ==
    /\ engineRestarts < MaxEngineRestarts
    /\ engineRestarts' = engineRestarts + 1
    /\ \E b \in L2Chain[eng.head] :
        eng' = [head |-> b, safe |-> NoBlock, finalized |-> NoBlock, known |-> L2Chain[b]]
    /\ jobLost' = (building # NoJob)
    /\ UNCHANGED <<l1Vars, pipelineVars, headVars, building, needForkchoiceUpdate,
                   finalityVars, safeAttributes, unsafePayloads, nodeRestarts, stray>>

Next ==
    \/ ResetEngineQueue \/ ResetStages
    \/ TryUpdateEngine \/ TryNextSafeAttributes \/ DeriveStep \/ OriginConflict
    \/ \E b \in Signalled : Finalize(b)
    \/ \E b \in Gossip : AddUnsafePayload(b)
    \/ \E b \in Sequenced : StartBuildingBlock(b)
    \/ CompleteBuildingBlock \/ SequencerReset
    \/ L1Extends \/ L1Reorgs \/ L1Finalizes
    \/ NodeRestarts \/ EngineRestarts

Spec == Init /\ [][Next]_vars

-----------------------------------------------------------------------------
(* Every variable has its type, and once the engine queue is reset its     *)
(* safe and finalized heads are blocks.                                    *)
TypeOK ==
    /\ l1Head \in L1Blocks /\ l1Finalized \in L1Chain[l1Head]
    /\ eng \in [head : L2Blocks, safe : L2Blocks \cup {NoBlock},
                finalized : L2Blocks \cup {NoBlock}, known : SUBSET L2Blocks]
    /\ resetting \in 0..2
    /\ l1Origin \in L1Blocks \cup {NoBlock} /\ (resetting = 2 => l1Origin # NoBlock)
    /\ handed \subseteq L2Blocks
    /\ halted \in BOOLEAN /\ jobLost \in BOOLEAN /\ needForkchoiceUpdate \in BOOLEAN
    /\ stray \in BOOLEAN
    /\ {finalized, safeHead, unsafeHead} \subseteq L2Blocks \cup {NoBlock}
    /\ resetting > 0 => NoBlock \notin {finalized, safeHead, origin}
    /\ building \in [block : L2Blocks \ {L2Genesis}, onto : L2Blocks, safe : BOOLEAN] \cup {NoJob}
    /\ {finalizedL1, triedFinalizeAt, origin} \subseteq L1Blocks \cup {NoBlock}
    /\ safeAttributes \in [block : L2Blocks, parent : L2Blocks] \cup {NoAttributes}
    /\ unsafePayloads \subseteq L2Blocks
    /\ finalityData \in Seq([l2 : L2Blocks, l1 : L1Blocks])
    /\ Len(finalityData) <= FinalityLookback
    /\ reorgs \in 0..MaxReorgs
    /\ nodeRestarts \in 0..MaxNodeRestarts /\ engineRestarts \in 0..MaxEngineRestarts

(* What is finalized is safe: finalization and resets keep the finalized   *)
(* block below the safe head (engine_queue.go: tryFinalizeL2, Reset),      *)
(* unless the reset began from an engine that had left its own finalized   *)
(* block: the walk may end before it comes to that block's number.         *)
FinalizedWithinSafe == resetting > 0 /\ ~stray => finalized \in L2Chain[safeHead]

(* The three heads of a reset engine queue are on one chain, whatever the  *)
(* sequencer, peers and reorgs did since (engine_queue.go: every           *)
(* assignment of finalized, safeHead and unsafeHead), except between a     *)
(* change of the heads and its delivery to the engine.                     *)
HeadsOnOneChain ==
    /\ FinalizedWithinSafe
    /\ resetting > 0 /\ ~needForkchoiceUpdate /\ unsafeHead # NoBlock
        => safeHead \in L2Chain[unsafeHead]

(* Attributes in the queue are for the current safe head.                  *)
AttributesCurrent ==
    safeAttributes # NoAttributes => safeAttributes.parent = safeHead

(* The engine never leaves a chain it was told is finalized, unless it     *)
(* restarts, or had its head moved off that chain before the last reset.   *)
EngineFinalityStable ==
    [][eng.finalized # NoBlock /\ ~stray /\ engineRestarts' = engineRestarts
        => eng'.finalized # NoBlock /\ eng.finalized \in L2Chain[eng'.finalized]]_vars

(* b is what a full derivation of the L1 chain up to l1 produces. *)
Derivable(b, l1) == \A a \in L2Chain[b] : DerivedAt[a] \cap L1Chain[l1] # {}

(* The safe head a reset starts from can be derived from the canonical L1  *)
(* chain of that moment: "the highest L2 block whose epoch's sequencing    *)
(* window is complete within the canonical L1 chain" (sync/start.go:97).   *)
ResetSafeDerivable ==
    [][resetting = 0 /\ resetting' = 1 => Derivable(safeHead', l1Head)]_vars

(* Once the traversal has passed the sequence window of the safe head, and *)
(* the heads agree with it, the safe head is what a full derivation gives: *)
(* a reset recovers "a state that produces the same outputs as a full L2   *)
(* derivation process" (specs/derivation.md:799).                          *)
SafeDerivable ==
    (/\ resetting = 2
     /\ unsafeHead # NoBlock
     /\ L2Origin[unsafeHead] \in L1Chain[l1Origin]
     /\ L1Number[l1Origin] >= OriginNumber(safeHead) + SeqWindow)
    => Derivable(safeHead, l1Origin)

(* What is finalized can be derived from L1 blocks that are finalized:     *)
(* "When this L1 block is finalized, the L2 chain up to this block can be  *)
(* fully reproduced from finalized L1 data" (engine_queue.go:91-92).       *)
FinalizedReproducible == resetting > 0 => Derivable(finalized, l1Finalized)
=============================================================================
