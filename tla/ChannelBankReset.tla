-------------------------- MODULE ChannelBankReset --------------------------
(***************************************************************************)
(* Two nodes read the same L1 chain with the stages of ChannelBank: one    *)
(* from the first block on, and one that is reset on the way, as           *)
(* EngineQueue.Reset does with a base ChannelTimeout blocks behind the     *)
(* origin of the safe head.  Given L1, the nodes are independent of each   *)
(* other; the second starts when the first is done.                        *)
(***************************************************************************)
EXTENDS ChannelBank

CONSTANT Chains          \* the L1 chains that are considered

VARIABLES
    fOrigin, fDone, fDatas, fFrames, fChannels, fChannelQueue, fNextBatchFn,
    fBase, fIngested, fSeen, fDeliveries, fResets

full == <<fOrigin, fDone, fDatas, fFrames, fChannels, fChannelQueue, fNextBatchFn,
          fBase, fIngested, fSeen, fDeliveries, fResets>>

Full == INSTANCE ChannelBank WITH
    origin <- fOrigin, done <- fDone, datas <- fDatas, frames <- fFrames,
    channels <- fChannels, channelQueue <- fChannelQueue, nextBatchFn <- fNextBatchFn,
    base <- fBase, ingested <- fIngested, seen <- fSeen, deliveries <- fDeliveries,
    resets <- fResets

FullDerivation == ~(Full!Drained /\ fOrigin = Len(l1))

InitBoth == l1 \in Chains /\ InitStages /\ Full!InitStages

NextBoth ==
    \/ FullDerivation /\ Full!Pull /\ UNCHANGED vars
    \/ ~FullDerivation /\ Pull /\ UNCHANGED full
    \/ ~FullDerivation /\ Reset /\ UNCHANGED full

SpecBoth == InitBoth /\ [][NextBoth]_<<vars, full>>

At(ds, n) == SelectSeq(ds, LAMBDA d : d.at = n)

SameSince(b) ==
    \A n \in b + ChannelTimeout + 1 .. origin :
        n < origin \/ Drained => At(deliveries, n) = At(fDeliveries, n)

IDsIn(a, b) == {f.id : f \in Range(FramesOf(a, b))}

(* Once it has caught up with the origin of the safe head, ChannelTimeout  *)
(* blocks after its base, a node that was reset reads the same channels in *)
(* the same L1 blocks as one that derives the chain from the start, when   *)
(* no channel has frames on both sides of the base: a channel that was     *)
(* given up, or is still open, before the base changes nothing any more.   *)
SameOutputsUnlessSplit ==
    ~FullDerivation /\ IDsIn(1, base - 1) \cap IDsIn(base, Len(l1)) = {} => SameSince(base)
=============================================================================
