------------------------------- MODULE Driver -------------------------------
(***************************************************************************)
(* The event loop of op-node (op-node/rollup/driver/state.go) around the   *)
(* derivation pipeline and the sequencer of module EngineQueue: what makes *)
(* it take the next derivation step, and when the sequencer may act.       *)
(*                                                                         *)
(* An action is one turn of the loop: a case of the select, and then the   *)
(* beginning of the next turn, which arms or disarms the sequencer.  Time  *)
(* is left out: a delay that was started may be over at any moment.        *)
(***************************************************************************)
EXTENDS EngineQueue

CONSTANTS
    SequencerEnabled,      \* driverConfig.SequencerEnabled
    SequencerMaxSafeLag,   \* driverConfig.SequencerMaxSafeLag, 0 for no limit
    MaxFailures,           \* bounds: derivation steps that fail, and resets
    MaxResets              \* that are asked for

ASSUME DriverAssumption ==
    /\ SequencerEnabled \in BOOLEAN
    /\ {SequencerMaxSafeLag, MaxFailures, MaxResets} \subseteq Nat

VARIABLES
    stepReq,               \* stepReqCh holds a request
    delayedStepReq,        \* "nil", a "timer", or one that was "drained"
    attempts,              \* stepAttempts > 0
    armed,                 \* sequencerCh # nil
    stopped,               \* driverConfig.SequencerStopped
    heard,                 \* l1State.L1Head(): "nothing", an "old" or the "last" one
    failures, resets

loopVars == <<stepReq, delayedStepReq, attempts>>
dvars == <<vars, loopVars, armed, stopped, heard, failures, resets>>

(* reqStep, when the channel of resets holds pending *)
ReqStep(again, pending) ==
    IF again THEN /\ delayedStepReq' = IF delayedStepReq = "nil" THEN "timer" ELSE delayedStepReq
                  /\ stepReq' = pending
             ELSE stepReq' = TRUE /\ UNCHANGED delayedStepReq

NoReqStep == stepReq' = FALSE /\ UNCHANGED delayedStepReq

(* The beginning of a turn of the loop, after a case that called           *)
(* planSequencerAction or not                                              *)
NextTurn(planned) ==
    LET sequencing == SequencerEnabled /\ ~stopped' /\ heard' # "nothing" /\ EngineReady'
        lagging    == SequencerMaxSafeLag > 0
                      /\ L2Number[safeHead'] + SequencerMaxSafeLag <= NumberOf(unsafeHead')
    IN armed' = IF ~sequencing \/ lagging THEN FALSE
                ELSE building'.onto # unsafeHead' \/ planned \/ armed

-----------------------------------------------------------------------------
(* The derivation step, and the error that it returns *)

AtTip == L1At(l1Head, L1Number[l1Origin] + 1) = NoBlock
OutOfData == Behind \/ NextAttributes = {}
PayloadWaits(p) == L2Number[p] > L2Number[safeHead] /\ L2Parent[p] # unsafeHead

(* What DeriveStep returned: NotEnoughData with new attributes, EOF at the *)
(* tip of L1 when the first payload has to wait or was not on the unsafe   *)
(* chain, and an error when the engine did not take it, or did and its     *)
(* answer was lost                                                         *)
DeriveResults ==
    IF safeAttributes' # safeAttributes THEN {"notEnoughData"}
    ELSE IF l1Origin' # l1Origin \/ unsafeHead' # unsafeHead THEN {"nil"}
    ELSE IF unsafePayloads' # unsafePayloads
    THEN {IF L2Number[p] <= L2Number[safeHead] THEN "nil" ELSE IF PayloadWaits(p) THEN "eof" ELSE "temporary" :
             p \in unsafePayloads \ unsafePayloads'}
    ELSE IF eng' # eng THEN {"temporary"}
    ELSE {"temporary", "notEnoughData"} \cup
         (IF OutOfData /\ AtTip /\ \A p \in LowestPayloads : PayloadWaits(p) THEN {"eof"} ELSE {})

(* What Step returned.  A reset of a stage that is done counts as progress. *)
StepResults ==
    IF halted' THEN {"critical"}
    ELSE IF resetting' = 0 THEN {"reset"}
    ELSE IF resetting < 2 THEN {"nil"}
    ELSE IF needForkchoiceUpdate THEN {IF needForkchoiceUpdate' THEN "temporary" ELSE "nil"}
    ELSE IF safeAttributes # NoAttributes
    THEN {IF UNCHANGED <<safeAttributes, unsafeHead>> THEN "temporary" ELSE "nil"}
    ELSE DeriveResults

Step == ResetEngineQueue \/ ResetStages \/ TryUpdateEngine \/ TryNextSafeAttributes
        \/ DeriveStep \/ OriginConflict

(* Nothing is asked for when there is more to read. *)
AfterStep_Waits(err) ==
    \/ err = "nil" /\ attempts' = FALSE /\ ReqStep(FALSE, FALSE)
    \/ err \in {"eof", "notEnoughData"} /\ attempts' = FALSE /\ NoReqStep
    \/ err = "temporary" /\ attempts' = TRUE /\ ReqStep(TRUE, FALSE)
    \/ err \in {"reset", "critical"} /\ attempts' = TRUE /\ NoReqStep

(* How the loop goes on after a step.  A reset, and a step that found L1   *)
(* at its end, wait for the next event.                                    *)
AfterStep(err) ==
    \/ err \in {"nil", "notEnoughData"} /\ attempts' = FALSE /\ ReqStep(FALSE, FALSE)
    \/ err = "eof" /\ attempts' = FALSE /\ NoReqStep
    \/ err = "temporary" /\ attempts' = TRUE /\ ReqStep(TRUE, FALSE)
    \/ err \in {"reset", "critical"} /\ attempts' = TRUE /\ NoReqStep

DerivationStep ==
    /\ ~halted /\ stepReq
    /\ \/ /\ Step
          /\ \E err \in StepResults :
              /\ err = "temporary" => failures < MaxFailures
              /\ failures' = IF err = "temporary" THEN failures + 1 ELSE failures
              /\ AfterStep(err)
       \/ /\ failures < MaxFailures      \* a request to L1 or to the engine failed at once
          /\ failures' = failures + 1
          /\ AfterStep("temporary")
          /\ UNCHANGED vars
    /\ UNCHANGED <<stopped, heard, resets>>
    /\ NextTurn(FALSE)

(* The timer has sent its only value, and stays in place. *)
DelayedStep_KeepsTimer ==
    /\ ~halted /\ delayedStepReq = "timer"
    /\ delayedStepReq' = "drained"
    /\ stepReq' = TRUE
    /\ UNCHANGED <<vars, attempts, stopped, heard, failures, resets>>
    /\ NextTurn(FALSE)

DelayedStep ==
    /\ ~halted /\ delayedStepReq = "timer"
    /\ delayedStepReq' = "nil"
    /\ stepReq' = TRUE
    /\ UNCHANGED <<vars, attempts, stopped, heard, failures, resets>>
    /\ NextTurn(FALSE)

-----------------------------------------------------------------------------
(* The other cases of the select.  Finality signals are in EngineQueue;    *)
(* signals of safe L1 blocks, requests for the state and the alternative   *)
(* sync change nothing here.                                               *)

(* A new head of L1; the same one again stands for a head above the L1     *)
(* blocks that are considered.                                             *)
L1HeadSignal ==
    /\ ~halted
    /\ heard' = "last"
    /\ ReqStep(attempts, stepReq)
    /\ UNCHANGED <<vars, attempts, stopped, failures, resets>>
    /\ NextTurn(FALSE)

PayloadArrives ==
    /\ \E b \in Gossip : AddUnsafePayload(b)
    /\ ReqStep(attempts, stepReq)
    /\ UNCHANGED <<attempts, stopped, heard, failures, resets>>
    /\ NextTurn(FALSE)

(* RunNextSequencerAction: seal the block in progress or begin the next,   *)
(* which may fail, unless the derivation is building                       *)
SequencerAction ==
    /\ armed
    /\ \/ CompleteBuildingBlock \/ SequencerReset
       \/ \E b \in Sequenced : StartBuildingBlock(b)
       \/ (building = NoJob \/ building.safe) /\ UNCHANGED vars
    /\ UNCHANGED <<loopVars, stopped, heard, failures, resets>>
    /\ NextTurn(TRUE)

ForceReset ==
    /\ ~halted /\ resets < MaxResets
    /\ resets' = resets + 1
    /\ RequestReset
    /\ UNCHANGED <<l1Vars, eng, l1Origin, handed, halted, headVars, buildVars, needForkchoiceUpdate,
                   finalityVars, safeAttributes, unsafePayloads, restartVars>>
    /\ UNCHANGED <<loopVars, stopped, heard, failures>>
    /\ NextTurn(FALSE)

(* The sequencer is started without a plan for its next action. *)
StartSequencer_NoPlan ==
    /\ ~halted /\ stopped /\ stopped' = FALSE
    /\ UNCHANGED <<vars, loopVars, heard, failures, resets>>
    /\ NextTurn(FALSE)

(* With the hash of the unsafe head, or it is refused *)
StartSequencer ==
    /\ ~halted /\ stopped /\ stopped' = FALSE
    /\ UNCHANGED <<vars, loopVars, heard, failures, resets>>
    /\ NextTurn(TRUE)

StopSequencer ==
    /\ ~halted /\ ~stopped /\ stopped' = TRUE
    /\ UNCHANGED <<vars, loopVars, heard, failures, resets>>
    /\ NextTurn(FALSE)

L1Changes ==
    /\ L1Extends \/ L1Reorgs
    /\ heard' = IF heard = "last" THEN "old" ELSE heard
    /\ UNCHANGED <<loopVars, armed, stopped, failures, resets>>

DriverInit ==
    /\ Init
    /\ stepReq = TRUE /\ delayedStepReq = "nil" /\ attempts = FALSE
    /\ armed = FALSE /\ stopped \in BOOLEAN
    /\ heard = "nothing"
    /\ failures = 0 /\ resets = 0

DriverNext ==
    \/ DerivationStep \/ DelayedStep \/ L1HeadSignal \/ PayloadArrives
    \/ SequencerAction \/ ForceReset \/ StartSequencer \/ StopSequencer
    \/ L1Changes

(* select takes a case that stays ready sooner or later, timers expire,    *)
(* and L1 keeps announcing heads.                                          *)
DriverSpec ==
    /\ DriverInit /\ [][DriverNext]_dvars
    /\ WF_dvars(DerivationStep) /\ WF_dvars(DelayedStep) /\ WF_dvars(L1HeadSignal)

-----------------------------------------------------------------------------
(* A sequencer that may act has its next action scheduled: a stop and a    *)
(* start, a reset, a safe head that lagged for a while, or a request that  *)
(* failed, never leave it without a timer (state.go: the head of the loop  *)
(* plans an action only when the block in progress is not on the unsafe    *)
(* head).  While the derivation retries a block of its own there may be    *)
(* none; the turn after it ends plans again.  Nor need there be one when a *)
(* reset has left no unsafe head: the zero reference is what a sequencer   *)
(* without a block builds on, so that the head of the loop does not plan.  *)
SequencerArmed ==
    (/\ SequencerEnabled /\ ~stopped /\ heard # "nothing" /\ EngineReady /\ ~building.safe
     /\ unsafeHead # NoBlock
     /\ SequencerMaxSafeLag > 0 => L2Number[safeHead] + SequencerMaxSafeLag > NumberOf(unsafeHead))
    => armed

(* No wakeup is lost: when no step is asked for and no timer runs, then    *)
(* the loop waits for a head of L1, or a reset waits for the next event,   *)
(* or the pipeline has nothing left to do (reqStep and the errors of Step, *)
(* state.go).                                                              *)
IdleIsDone ==
    stepReq \/ delayedStepReq = "timer" \/ halted \/ heard # "last" \/ resetting = 0
    \/ (resetting = 2 /\ ~needForkchoiceUpdate /\ safeAttributes = NoAttributes /\ OutOfData /\ AtTip)

OnAbandonedFork ==
    resetting = 2 /\ l1Origin \notin L1Chain[l1Head] /\ L1Number[l1Origin] >= L1Number[l1Head]
GossipCeases == <>[][unsafePayloads' \subseteq unsafePayloads]_dvars

(* Once L1 stops changing and peers stop sending payloads, every L2 block  *)
(* that L1 gives becomes safe, unless the node stopped at an invalid block *)
(* of deposits, or follows an abandoned L1 fork that the canonical one has *)
(* not outgrown yet.  Payloads that do not fit must not keep the traversal *)
(* from advancing (engine_queue.go:426-432).  That peers stop is assumed:  *)
(* a payload that came again after each step would take every step, but    *)
(* the gossip validation ignores a block it has seen (p2p/gossip.go:327).  *)
CatchesUp == GossipCeases =>
    <>[](halted \/ OnAbandonedFork \/ \A b \in L2Blocks \ Invalid :
            Derivable(b, l1Head) => resetting = 2 /\ b \in L2Chain[safeHead])
=============================================================================
