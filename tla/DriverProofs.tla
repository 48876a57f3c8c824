---------------------------- MODULE DriverProofs ----------------------------
(***************************************************************************)
(* The sequencer keeps its timer for every tree of L1 and L2 blocks, every *)
(* limit on the lag of the safe head, any number of resets and failures,   *)
(* and any failure of the engine.                                          *)
(***************************************************************************)
EXTENDS Driver, EngineQueueProofs

MayAct == SequencerEnabled /\ ~stopped /\ heard # "nothing" /\ EngineReady
Lagging == SequencerMaxSafeLag > 0 /\ L2Number[safeHead] + SequencerMaxSafeLag <= NumberOf(unsafeHead)

(* The sequencer, not the derivation, has a block in progress. *)
OwnJob == building # NoJob /\ ~building.safe

(* A scheduled action may be taken.  A block of the sequencer was begun on *)
(* a head at or below the unsafe head; when it is still the head, the safe *)
(* head did not fall behind since, and only a stop, a reset or a critical  *)
(* error can have taken the timer away.                                    *)
TimerInv ==
    /\ armed \in BOOLEAN /\ stopped \in BOOLEAN
    /\ armed => MayAct /\ ~Lagging
    /\ OwnJob => /\ heard # "nothing"
                 /\ safeHead \in L2Blocks /\ unsafeHead \in L2Blocks
                 /\ L2Number[building.onto] <= L2Number[unsafeHead]
    /\ OwnJob /\ building.onto = unsafeHead =>
        ~Lagging /\ (armed \/ stopped \/ ~EngineReady \/ ~SequencerEnabled)
    /\ SequencerArmed

DriverInv == IInv /\ TimerInv

-----------------------------------------------------------------------------
(* What the steps of the engine queue do to the block in progress *)

HeadsRise ==
    \/ UNCHANGED <<safeHead, unsafeHead>>
    \/ /\ {safeHead, safeHead'} \subseteq L2Blocks
       /\ {unsafeHead, unsafeHead'} \subseteq L2Blocks \cup {NoBlock}
       /\ L2Number[safeHead] <= L2Number[safeHead']
       /\ unsafeHead' = unsafeHead \/ NumberOf(unsafeHead) < NumberOf(unsafeHead')

(* The job is over, is one of the derivation, or stays with heads that do  *)
(* not fall.                                                               *)
JobStep ==
    \/ building' = NoJob
    \/ building' # NoJob /\ building'.safe
    \/ building' = building /\ HeadsRise /\ (EngineReady' => EngineReady)

-----------------------------------------------------------------------------
(* The beginning of a turn restores the timer, whatever a case of the      *)
(* select did to the block in progress and to the heads.                   *)
LEMMA TurnKeeps ==
    ASSUME DriverInv, IInv', JobStep, NEW planned \in BOOLEAN, NextTurn(planned),
           heard # "nothing" => heard' # "nothing",
           stopped' \in BOOLEAN, stopped /\ ~stopped' => planned
    PROVE  TimerInv'
  <1>1. armed' = IF ~MayAct' \/ Lagging' THEN FALSE
                 ELSE building'.onto # unsafeHead' \/ planned \/ armed
    BY DEF NextTurn, MayAct, Lagging
  <1>2. armed' \in BOOLEAN /\ (armed' => MayAct' /\ ~Lagging')
    <2>1. armed \in BOOLEAN
      BY DEF DriverInv, TimerInv
    <2> QED
      BY <1>1, <2>1
  <1>3. EngineReady' => unsafeHead' \in L2Blocks \cup {NoBlock} /\ safeHead' \in L2Blocks
    BY DEF EngineReady, IInv, PipelineInv, HeadsInv
  <1>4. CASE building' = NoJob
    <2>1. ~OwnJob'
      BY <1>4 DEF OwnJob
    <2>2. MayAct' /\ ~Lagging' /\ unsafeHead' # NoBlock => armed'
      <3>1. building'.onto = NoBlock
        BY <1>4 DEF NoJob
      <3> QED
        BY <1>1, <1>3, <3>1, ChainFacts DEF MayAct
    <2>3. SequencerArmed'
      BY <2>2, DriverAssumption, <1>3, ChainFacts
      DEF SequencerArmed, MayAct, Lagging, DriverAssumption, NumberOf
    <2> QED
      BY <1>2, <2>1, <2>3 DEF TimerInv
  <1>5. CASE building' # NoJob /\ building'.safe
    BY <1>2, <1>5 DEF TimerInv, OwnJob, SequencerArmed
  <1>6. CASE building' = building /\ HeadsRise /\ (EngineReady' => EngineReady)
    <2>1. CASE ~OwnJob
      <3>1. building = NoJob \/ (building # NoJob /\ building.safe)
        BY <2>1 DEF OwnJob
      <3> QED
        BY <3>1, <1>4, <1>5, <1>6
    <2>2. CASE OwnJob
      <3>1. OwnJob' /\ ~building'.safe
        BY <1>6, <2>2 DEF OwnJob, NoJob
      <3>2. /\ heard' # "nothing" /\ building'.onto \in L2Blocks
            /\ {safeHead, unsafeHead, safeHead', unsafeHead'} \subseteq L2Blocks
            /\ L2Number[building'.onto] <= L2Number[unsafeHead]
            /\ L2Number[safeHead] <= L2Number[safeHead']
            /\ unsafeHead' = unsafeHead \/ L2Number[unsafeHead] < L2Number[unsafeHead']
        <4>1. /\ heard # "nothing" /\ safeHead \in L2Blocks /\ unsafeHead \in L2Blocks
              /\ L2Number[building.onto] <= L2Number[unsafeHead]
          BY <2>2 DEF DriverInv, TimerInv
        <4>2. building.onto \in L2Blocks
          BY <2>2 DEF DriverInv, IInv, JobInv, OwnJob
        <4>3. L2Number[safeHead] \in Nat /\ L2Number[unsafeHead] \in Nat /\ unsafeHead # NoBlock
          BY <4>1, ChainFacts
        <4>4. CASE UNCHANGED <<safeHead, unsafeHead>>
          BY <1>6, <4>1, <4>2, <4>3, <4>4
        <4>5. CASE ~UNCHANGED <<safeHead, unsafeHead>>
          BY <1>6, <4>1, <4>2, <4>3, <4>5 DEF HeadsRise, NumberOf
        <4> QED
          BY <4>4, <4>5
      <3>3. /\ L2Number[safeHead] \in Nat /\ L2Number[safeHead'] \in Nat /\ L2Number[unsafeHead] \in Nat
            /\ L2Number[unsafeHead'] \in Nat /\ L2Number[building'.onto] \in Nat
            /\ SequencerMaxSafeLag \in Nat /\ NumberOf(unsafeHead) = L2Number[unsafeHead]
            /\ NumberOf(unsafeHead') = L2Number[unsafeHead']
        BY <3>2, ChainFacts, DriverAssumption DEF DriverAssumption, NumberOf
      <3>4. L2Number[building'.onto] <= L2Number[unsafeHead']
        BY <3>2, <3>3
      <3>5. building'.onto = unsafeHead'
            => ~Lagging' /\ (armed' \/ stopped' \/ ~EngineReady' \/ ~SequencerEnabled)
        <4> SUFFICES ASSUME building'.onto = unsafeHead'
                     PROVE  ~Lagging' /\ (armed' \/ stopped' \/ ~EngineReady' \/ ~SequencerEnabled)
          OBVIOUS
        <4>1. unsafeHead' = unsafeHead
          BY <3>2, <3>3
        <4>2. ~Lagging /\ (armed \/ stopped \/ ~EngineReady \/ ~SequencerEnabled)
          BY <1>6, <2>2, <4>1 DEF DriverInv, TimerInv
        <4>3. ~Lagging'
          BY <3>2, <3>3, <4>1, <4>2 DEF Lagging
        <4>4. MayAct' => armed \/ planned
          BY <1>6, <4>2 DEF MayAct
        <4> QED
          BY <1>1, <3>2, <4>3, <4>4 DEF MayAct
      <3>6. MayAct' /\ ~Lagging' => armed'
        BY <1>1, <3>5 DEF MayAct
      <3>7. SequencerArmed'
        BY <3>3, <3>6 DEF SequencerArmed, MayAct, Lagging
      <3> QED
        BY <1>2, <3>2, <3>4, <3>5, <3>7 DEF TimerInv
    <2> QED
      BY <2>1, <2>2
  <1> QED
    BY <1>4, <1>5, <1>6 DEF JobStep

-----------------------------------------------------------------------------
(* The steps of the pipeline *)

LEMMA BlocksOnceReset ==
    ASSUME IInv, resetting # 0
    PROVE  /\ safeHead \in L2Blocks /\ unsafeHead \in L2Blocks \cup {NoBlock}
           /\ L2Number[safeHead] \in Nat /\ NumberOf(unsafeHead) \in Nat
  BY HeadsAfterReset, ChainFacts DEF NumberOf

(* Forcing the attributes ends the job or replaces it by the derivation's, *)
(* unless the request that begins it is lost.                              *)
LEMMA ForceJob == ASSUME ForceNextSafeAttributes, Stepping PROVE JobStep
  <1> DEFINE b  == safeAttributes.block
             fc == ForkchoiceState(safeHead, safeHead, finalized)
             job == [block |-> b, onto |-> safeHead, safe |-> TRUE]
  <1>1. \/ building' = NoJob
        \/ building' = job
        \/ UNCHANGED <<building, headVars, resetting, halted>>
    BY DEF ForceNextSafeAttributes, buildVars
  <1>2. job # NoJob /\ job.safe
    BY DEF NoJob
  <1> HIDE DEF job
  <1> QED
    BY <1>1, <1>2 DEF JobStep, HeadsRise, headVars, EngineReady

LEMMA SafeAttributesJob == ASSUME IInv, TryNextSafeAttributes PROVE JobStep
  <1>1. Stepping /\ EngineReady /\ resetting # 0 /\ safeAttributes # NoAttributes
    BY DEF TryNextSafeAttributes, Stepping, EngineReady
  <1>2. /\ safeHead \in L2Blocks /\ unsafeHead \in L2Blocks \cup {NoBlock}
        /\ L2Number[safeHead] \in Nat /\ NumberOf(unsafeHead) \in Nat
    BY <1>1, BlocksOnceReset
  <1>3. CASE ForceNextSafeAttributes
    BY <1>1, <1>3, ForceJob
  <1>4. CASE UNCHANGED <<headVars, buildVars>>
    BY <1>1, <1>4 DEF JobStep, HeadsRise, headVars, buildVars
  <1>5. CASE safeHead' = safeAttributes.block /\ UNCHANGED <<unsafeHead, buildVars>>
    <2>1. safeAttributes.block \in L2Blocks /\ L2Number[safeAttributes.block] = L2Number[safeHead] + 1
      BY <1>1, ChainFacts DEF IInv, AttributesInv
    <2>2. HeadsRise
      BY <1>2, <1>5, <2>1 DEF HeadsRise
    <2> QED
      BY <1>1, <1>5, <2>2 DEF JobStep, buildVars
  <1>6. CASE /\ L2Number[safeHead] > NumberOf(unsafeHead) /\ unsafeHead' = safeHead
             /\ UNCHANGED <<safeHead, buildVars>>
    <2>1. NumberOf(unsafeHead') = L2Number[safeHead]
      BY <1>2, <1>6, ChainFacts DEF NumberOf
    <2> QED
      BY <1>1, <1>2, <1>6, <2>1 DEF JobStep, HeadsRise, buildVars
  <1> QED
    BY <1>2, <1>3, <1>4, <1>5, <1>6 DEF TryNextSafeAttributes, ConsolidateNextSafeAttributes

(* A payload from a peer moves the unsafe head to a child of it. *)
LEMMA DeriveJob == ASSUME IInv, DeriveStep PROVE JobStep
  <1>1. EngineReady /\ resetting # 0 /\ UNCHANGED <<safeHead, buildVars>>
    BY DEF DeriveStep, Stepping, EngineReady
  <1>2. /\ safeHead \in L2Blocks /\ unsafeHead \in L2Blocks \cup {NoBlock}
        /\ L2Number[safeHead] \in Nat /\ NumberOf(unsafeHead) \in Nat
    BY <1>1, BlocksOnceReset
  <1>3. \/ unsafeHead' = unsafeHead
        \/ \E first \in LowestPayloads : TryNextUnsafePayload(first)
    BY DEF DeriveStep
  <1>4. ASSUME NEW first \in LowestPayloads, TryNextUnsafePayload(first)
        PROVE  \/ unsafeHead' = unsafeHead
               \/ /\ unsafeHead' = first /\ L2Parent[first] = unsafeHead
                  /\ ~(L2Number[first] <= L2Number[safeHead])
    BY <1>4 DEF TryNextUnsafePayload
  <1>5. ASSUME NEW first \in LowestPayloads, L2Parent[first] = unsafeHead,
               ~(L2Number[first] <= L2Number[safeHead])
        PROVE  first \in L2Blocks /\ NumberOf(unsafeHead) < NumberOf(first)
    <2>1. first \in L2Blocks
      BY DEF LowestPayloads, IInv, PipelineInv
    <2>2. first # L2Genesis
      BY <1>2, <1>5, L2Tree DEF L2Tree, IsTree
    <2> QED
      BY <1>5, <2>1, <2>2, ChainFacts DEF NumberOf
  <1>6. HeadsRise
    BY <1>1, <1>2, <1>3, <1>4, <1>5 DEF HeadsRise
  <1> QED
    BY <1>1, <1>6 DEF JobStep, buildVars

LEMMA StepJob == ASSUME IInv, Step PROVE IInv' /\ JobStep
  <1>1. CASE ResetEngineQueue
    BY <1>1, ResetEngineQueueStep DEF JobStep, ResetEngineQueue
  <1>2. CASE ResetStages
    BY <1>2, ResetStagesStep DEF JobStep, HeadsRise, EngineReady, ResetStages, headVars, buildVars
  <1>3. CASE TryUpdateEngine
    BY <1>3, TryUpdateEngineStep
    DEF JobStep, HeadsRise, EngineReady, Stepping, TryUpdateEngine, headVars, buildVars
  <1>4. CASE TryNextSafeAttributes
    BY <1>4, TryNextSafeAttributesStep, SafeAttributesJob
  <1>5. CASE DeriveStep
    BY <1>5, DeriveStepStep, DeriveJob
  <1>6. CASE OriginConflict
    BY <1>6, ResetRequestSteps
    DEF JobStep, HeadsRise, EngineReady, Stepping, OriginConflict, headVars, buildVars
  <1> QED
    BY <1>1, <1>2, <1>3, <1>4, <1>5, <1>6, SMTT(30) DEF Step

-----------------------------------------------------------------------------
(* The cases of the select *)

LEMMA SameJob ==
    ASSUME IInv, UNCHANGED vars PROVE IInv' /\ JobStep
  BY StutterKeeps DEF vars, headVars, buildVars, pipelineVars, JobStep, HeadsRise, EngineReady

LEMMA DerivationStepKeeps == ASSUME DriverInv, DerivationStep PROVE DriverInv'
  <1>1. IInv /\ stopped \in BOOLEAN
    BY DEF DriverInv, TimerInv
  <1>2. (Step \/ UNCHANGED vars) /\ UNCHANGED <<stopped, heard>> /\ NextTurn(FALSE)
    BY DEF DerivationStep
  <1>3. IInv' /\ JobStep
    BY <1>1, <1>2, StepJob, SameJob
  <1> QED
    BY <1>1, <1>2, <1>3, TurnKeeps DEF DriverInv

(* The cases that leave the engine queue alone *)
LEMMA SignalsKeep ==
    ASSUME DriverInv, DelayedStep \/ L1HeadSignal \/ StartSequencer \/ StopSequencer
    PROVE  DriverInv'
  <1>1. IInv /\ stopped \in BOOLEAN
    BY DEF DriverInv, TimerInv
  <1>2. UNCHANGED vars
    BY DEF DelayedStep, L1HeadSignal, StartSequencer, StopSequencer
  <1>3. IInv' /\ JobStep
    BY <1>1, <1>2, SameJob
  <1>4. \/ NextTurn(FALSE) /\ stopped' = stopped
        \/ NextTurn(FALSE) /\ stopped' = TRUE
        \/ NextTurn(TRUE) /\ stopped' = FALSE
    BY DEF DelayedStep, L1HeadSignal, StartSequencer, StopSequencer
  <1>5. heard # "nothing" => heard' # "nothing"
    BY DEF DelayedStep, L1HeadSignal, StartSequencer, StopSequencer
  <1> QED
    BY <1>1, <1>3, <1>4, <1>5, TurnKeeps DEF DriverInv

LEMMA PayloadArrivesKeeps == ASSUME DriverInv, PayloadArrives PROVE DriverInv'
  <1>1. IInv /\ stopped \in BOOLEAN
    BY DEF DriverInv, TimerInv
  <1>2. PICK b \in Gossip : AddUnsafePayload(b)
    BY DEF PayloadArrives
  <1>3. IInv'
    BY <1>1, <1>2, AddUnsafePayloadStep
  <1>4. JobStep
    BY <1>2 DEF AddUnsafePayload, JobStep, HeadsRise, EngineReady, headVars, buildVars, pipelineVars
  <1> QED
    BY <1>1, <1>3, <1>4, TurnKeeps DEF DriverInv, PayloadArrives

LEMMA ForceResetKeeps == ASSUME DriverInv, ForceReset PROVE DriverInv'
  <1>1. IInv /\ stopped \in BOOLEAN
    BY DEF DriverInv, TimerInv
  <1>2. /\ resetting' = 0
        /\ UNCHANGED <<l1Vars, eng, l1Origin, handed, halted, headVars, buildVars, needForkchoiceUpdate,
                       finalityVars, safeAttributes, unsafePayloads, restartVars>>
        /\ UNCHANGED <<stopped, heard>> /\ NextTurn(FALSE)
    BY DEF ForceReset, RequestReset
  <1>3. L1Inv' /\ PipelineInv' /\ FlagsInv'
    BY <1>1, <1>2, L1Unchanged DEF IInv, PipelineInv, FlagsInv, finalityVars, buildVars, restartVars
  <1>4. EngineInv'
    BY <1>1, <1>2 DEF IInv, EngineInv, EngineState, headVars, restartVars
  <1>5. HeadsInv' /\ AttributesInv' /\ JobInv'
    BY <1>1, <1>2, HeadsUnchanged, JobUnchanged DEF finalityVars, buildVars, restartVars
  <1>6. IInv'
    BY <1>3, <1>4, <1>5 DEF IInv
  <1>7. JobStep
    BY <1>2 DEF JobStep, HeadsRise, EngineReady, headVars, buildVars
  <1> QED
    BY <1>1, <1>2, <1>6, <1>7, TurnKeeps DEF DriverInv

(* The sequencer begins a block on the unsafe head and keeps its timer. *)
LEMMA StartKeeps ==
    ASSUME DriverInv, NEW b \in Sequenced, StartBuildingBlock(b), armed,
           UNCHANGED <<stopped, heard>>, NextTurn(TRUE)
    PROVE  DriverInv'
  <1>1. IInv /\ stopped \in BOOLEAN /\ EngineReady
    BY DEF DriverInv, TimerInv, StartBuildingBlock
  <1>2. IInv'
    BY <1>1, StartBuildingBlockStep, SMTT(30)
  <1>3. /\ UNCHANGED <<headVars, pipelineVars>>
        /\ UNCHANGED building \/ building' = [block |-> b, onto |-> unsafeHead, safe |-> FALSE]
    BY DEF StartBuildingBlock, buildVars
  <1>4. CASE UNCHANGED building
    <2>1. JobStep
      BY <1>3, <1>4 DEF JobStep, HeadsRise, EngineReady, headVars, pipelineVars
    <2> QED
      BY <1>1, <1>2, <2>1, TurnKeeps DEF DriverInv
  <1>5. CASE building' = [block |-> b, onto |-> unsafeHead, safe |-> FALSE]
    <2>1. MayAct /\ ~Lagging
      BY DEF DriverInv, TimerInv
    <2>2. MayAct' /\ ~Lagging'
      BY <1>3, <2>1 DEF MayAct, Lagging, EngineReady, headVars, pipelineVars
    <2>3. armed' = TRUE
      BY <2>2 DEF NextTurn, MayAct, Lagging
    <2>4. building'.onto = unsafeHead' /\ safeHead' \in L2Blocks /\ unsafeHead' \in L2Blocks
          /\ L2Number[unsafeHead'] \in Nat
      <3>1. L2Parent[b] = unsafeHead /\ b \in L2Blocks \ {L2Genesis}
        BY EngineQueueAssumption DEF StartBuildingBlock, EngineQueueAssumption
      <3> QED
        BY <1>1, <1>3, <1>5, <3>1, BlocksOnceReset, ChainFacts DEF EngineReady, headVars
    <2>5. SequencerArmed'
      BY <2>3 DEF SequencerArmed
    <2> QED
      BY <1>1, <1>2, <2>2, <2>3, <2>4, <2>5 DEF DriverInv, TimerInv, MayAct
  <1> QED
    BY <1>3, <1>4, <1>5, SMTT(30)

LEMMA SequencerActionKeeps == ASSUME DriverInv, SequencerAction PROVE DriverInv'
  <1>1. IInv /\ stopped \in BOOLEAN
    BY DEF DriverInv, TimerInv
  <1>2. armed /\ UNCHANGED <<stopped, heard>> /\ NextTurn(TRUE)
    BY DEF SequencerAction
  <1>3. CASE \E b \in Sequenced : StartBuildingBlock(b)
    BY <1>2, <1>3, StartKeeps
  <1>4. CASE CompleteBuildingBlock
    <2>1. IInv' /\ JobStep
      BY <1>1, <1>4, CompleteBuildingBlockStep DEF CompleteBuildingBlock, JobStep
    <2> QED
      BY <1>1, <1>2, <2>1, TurnKeeps DEF DriverInv
  <1>5. CASE SequencerReset
    <2>1. IInv' /\ JobStep
      BY <1>1, <1>5, ResetRequestSteps
      DEF SequencerReset, JobStep, HeadsRise, EngineReady, headVars, buildVars
    <2> QED
      BY <1>1, <1>2, <2>1, TurnKeeps DEF DriverInv
  <1>6. CASE UNCHANGED vars
    BY <1>1, <1>2, <1>6, SameJob, TurnKeeps DEF DriverInv
  <1> QED
    BY <1>3, <1>4, <1>5, <1>6 DEF SequencerAction

LEMMA L1ChangesKeeps == ASSUME DriverInv, L1Changes PROVE DriverInv'
  <1>1. IInv'
    BY L1Steps DEF DriverInv, L1Changes
  <1>2. UNCHANGED <<headVars, pipelineVars, buildVars, armed, stopped>>
    BY DEF L1Changes, L1Extends, L1Reorgs, nodeVars
  <1>3. heard' = heard \/ (heard # "nothing" /\ heard' # "nothing")
    BY DEF L1Changes
  <1>4. TimerInv'
    BY <1>2, <1>3
    DEF DriverInv, TimerInv, MayAct, Lagging, OwnJob, SequencerArmed, EngineReady, NoJob,
        headVars, pipelineVars, buildVars
  <1> QED
    BY <1>1, <1>4 DEF DriverInv

-----------------------------------------------------------------------------
LEMMA DriverInitInv == DriverInit => DriverInv
  <1> SUFFICES ASSUME DriverInit PROVE DriverInv
    OBVIOUS
  <1>1. IInv
    BY InitIInv DEF DriverInit
  <1>2. armed = FALSE /\ stopped \in BOOLEAN /\ heard = "nothing" /\ building = NoJob
    BY DEF DriverInit, Init
  <1>3. TimerInv
    BY <1>2 DEF TimerInv, OwnJob, SequencerArmed
  <1> QED
    BY <1>1, <1>3 DEF DriverInv

LEMMA DriverNextKeeps == ASSUME DriverInv, [DriverNext]_dvars PROVE DriverInv'
  <1>1. CASE UNCHANGED dvars
    <2>1. IInv' /\ UNCHANGED <<vars, armed, stopped, heard>>
      BY <1>1, StutterKeeps DEF DriverInv, dvars
    <2>2. TimerInv'
      BY <2>1 DEF DriverInv, TimerInv, MayAct, Lagging, OwnJob, SequencerArmed, EngineReady, NoJob,
                  vars, headVars, pipelineVars, buildVars
    <2> QED
      BY <2>1, <2>2 DEF DriverInv
  <1> QED
    BY <1>1, DerivationStepKeeps, SignalsKeep, PayloadArrivesKeeps, SequencerActionKeeps,
       ForceResetKeeps, L1ChangesKeeps
    DEF DriverNext

(* However stops, starts, resets, lost requests, L1 reorgs, payloads and   *)
(* derivation steps follow each other in the event loop (state.go), a      *)
(* sequencer that may act has a timer, for any lag that is tolerated.      *)
THEOREM AlwaysSequencerArmed == DriverSpec => []SequencerArmed
  <1>1. DriverInv => SequencerArmed
    BY DEF DriverInv, TimerInv
  <1> QED
    BY <1>1, DriverInitInv, DriverNextKeeps, PTL DEF DriverSpec
=============================================================================
