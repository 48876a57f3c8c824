--------------------------- MODULE ChannelManager ---------------------------
(***************************************************************************)
(* The channel manager of the batcher and the channel that it builds       *)
(* (op-batcher/batcher: channel_manager.go, channel_builder.go, tx_data.go *)
(* and op-node/rollup/derive/channel_out.go).  The operations are          *)
(* operators from a manager s to a manager, or to the set of managers that *)
(* may come out: how many frames a channel gives depends on how well its   *)
(* blocks compress, and is not determined here.                            *)
(*                                                                         *)
(* An L2 block is [hash, parent, epoch, size], with the number of its L1   *)
(* origin and its RLP bytes.  A frame is [chan, n, last].  A transaction   *)
(* carries one frame, which identifies it.                                 *)
(***************************************************************************)
EXTENDS Integers, Sequences, SequencesExt, FiniteSets, FiniteSetsExt, Functions, TLC

CONSTANTS
    None,
    SeqWindowSize, ChannelTimeout, MaxChannelDuration, SubSafetyMargin,
    InputThreshold,      \* RLP bytes at which a channel is full
    MaxRLPBytesPerChannel,
    MaxFrames            \* bound: frames of a channel

ASSUME ChannelConfigAssumption ==
    /\ SeqWindowSize \in Nat /\ ChannelTimeout \in Nat /\ MaxChannelDuration \in Nat
    /\ SubSafetyMargin \in 0 .. ChannelTimeout
    /\ SubSafetyMargin <= SeqWindowSize
    /\ InputThreshold \in Nat \ {0} /\ MaxRLPBytesPerChannel \in Nat \ {0}
    /\ MaxFrames \in Nat \ {0}

-----------------------------------------------------------------------------
(* The channel builder.  A channel is [id, blocks, timeout, full, out,     *)
(* closed, frames]: out frames were created, frames of them are queued,    *)
(* and closed is that of ChannelOut.                                       *)

NewChannelBuilder(id) ==
    [id |-> id, blocks |-> <<>>, timeout |-> 0, full |-> FALSE, out |-> 0, closed |-> FALSE, frames |-> <<>>]

(* updateTimeout: 0 stands for no timeout yet *)
Earlier(timeout, n) == IF timeout = 0 \/ timeout > n THEN n ELSE timeout

InputBytes(ch) == FoldLeft(LAMBDA bytes, b : bytes + b.size, 0, ch.blocks)

(* AddBlock leaves a full channel alone; a block that is too much for the  *)
(* channel is not added, and the channel is full                           *)
AddBlock(ch, b) ==
    LET bytes == InputBytes(ch) + b.size IN
    IF ch.full THEN ch
    ELSE IF bytes > MaxRLPBytesPerChannel THEN [ch EXCEPT !.full = TRUE]
    ELSE [ch EXCEPT !.blocks  = Append(@, b),
                    !.timeout = Earlier(@, b.epoch + SeqWindowSize - SubSafetyMargin),
                    !.full    = bytes >= InputThreshold]

FramePublished(ch, n) ==
    [ch EXCEPT !.timeout = Earlier(@, n + ChannelTimeout - SubSafetyMargin)]

RegisterL1Block(ch, n) ==
    LET timeout == IF MaxChannelDuration = 0 THEN ch.timeout ELSE Earlier(ch.timeout, n + MaxChannelDuration)
    IN [ch EXCEPT !.timeout = timeout, !.full = @ \/ (timeout # 0 /\ n >= timeout)]

(* k more frames, the last of them closing the channel if closes *)
WithFrames(ch, k, closes) ==
    [ch EXCEPT !.out    = @ + k,
               !.closed = closes,
               !.frames = @ \o [i \in 1 .. k |-> [chan |-> ch.id, n |-> ch.out + i - 1, last |-> closes /\ i = k]]]

(* A channel that is full is closed and gives all its frames, one at       *)
(* least; closing it again is an error.  A channel that is not full gives  *)
(* the frames that are ready.                                              *)
OutputFrames(ch) ==
    IF ch.full /\ ch.closed THEN {ch}
    ELSE IF ch.full THEN {WithFrames(ch, k, TRUE) : k \in 1 .. MaxFrames - ch.out}
    ELSE {WithFrames(ch, k, FALSE) : k \in 0 .. MaxFrames - 1 - ch.out}

-----------------------------------------------------------------------------
(* The channel manager: [blocks, tip, chan, pending, confirmed, closed].   *)
(* pending is the set of transactions without a receipt, and confirmed     *)
(* gives the L1 block of the others.                                       *)

NewChannelManager ==
    [blocks |-> <<>>, tip |-> None, chan |-> None, pending |-> {}, confirmed |-> <<>>, closed |-> FALSE]

ClearPendingChannel(s) == [s EXCEPT !.chan = None, !.pending = {}, !.confirmed = <<>>]

Clear(s) == NewChannelManager

(* AddL2Block: a block that does not extend the last one is ErrReorg *)
IsReorg(s, b) == s.tip # None /\ s.tip # b.parent

AddL2Block(s, b) == [s EXCEPT !.blocks = Append(@, b), !.tip = b.hash]

(* pendingChannelIsTimedOut: the first and the last confirmed frame are    *)
(* too far apart                                                           *)
IsTimedOut(s) ==
    s.confirmed # <<>> /\ Max(Range(s.confirmed)) - Min(Range(s.confirmed)) >= ChannelTimeout

IsFullySubmitted(s) == s.chan.full /\ s.pending = {} /\ s.chan.frames = <<>>

(* The timeout is not looked at when the channel is complete *)
TxConfirmed_SubmittedFirst(s, id, n) ==
    IF id \notin s.pending THEN s
    ELSE LET seen == [s EXCEPT !.pending = @ \ {id},
                               !.confirmed = (id :> n) @@ @,
                               !.chan = FramePublished(@, n)]
         IN IF IsFullySubmitted(seen) THEN ClearPendingChannel(seen)
            ELSE IF IsTimedOut(seen)
            THEN ClearPendingChannel([seen EXCEPT !.blocks = seen.chan.blocks \o @])
            ELSE seen

TxConfirmed(s, id, n) ==
    IF id \notin s.pending THEN s
    ELSE LET seen == [s EXCEPT !.pending = @ \ {id},
                               !.confirmed = (id :> n) @@ @,
                               !.chan = FramePublished(@, n)]
         IN IF IsTimedOut(seen)
            THEN ClearPendingChannel([seen EXCEPT !.blocks = seen.chan.blocks \o @])
            ELSE IF IsFullySubmitted(seen) THEN ClearPendingChannel(seen)
            ELSE seen

(* The frame of a failed transaction is dropped *)
TxFailed_DropsFrame(s, id) ==
    LET known == [s EXCEPT !.pending = @ \ {id}] IN
    IF known.closed /\ known.confirmed = <<>> /\ known.pending = {} THEN ClearPendingChannel(known) ELSE known

(* The frame of a failed transaction is queued again.  A manager that is   *)
(* closed gives the channel up when nothing of it was submitted.           *)
TxFailed(s, id) ==
    LET known == IF id \notin s.pending THEN s
                 ELSE [s EXCEPT !.pending = @ \ {id}, !.chan.frames = Append(@, id)]
    IN IF known.closed /\ known.confirmed = <<>> /\ known.pending = {} THEN ClearPendingChannel(known) ELSE known

-----------------------------------------------------------------------------
(* TxData, step by step *)

HasFrame(s) == s.chan # None /\ s.chan.frames # <<>>

(* Whether TxData has to fill the channel before it looks for a frame, and *)
(* whether it has blocks and a channel to do so                            *)
NeedsData(s) == ~HasFrame(s) /\ ~s.closed
CanFill(s) == s.blocks # <<>> /\ (s.chan # None => ~s.chan.full)

EnsurePendingChannel(s, id) == IF s.chan # None THEN s ELSE [s EXCEPT !.chan = NewChannelBuilder(id)]

ProcessBlocks(s) ==
    LET filled == FoldLeft(AddBlock, s.chan, s.blocks)
        added  == Len(filled.blocks) - Len(s.chan.blocks)
    IN [s EXCEPT !.chan = filled, !.blocks = SubSeq(@, added + 1, Len(@))]

RegisterAt(s, l1Head) == [s EXCEPT !.chan = RegisterL1Block(@, l1Head)]

Outputs(s) == {[s EXCEPT !.chan = ch] : ch \in OutputFrames(s.chan)}

(* The next frame becomes a pending transaction; None stands for EOF *)
NextTxData(s) ==
    IF HasFrame(s)
    THEN [s  |-> [s EXCEPT !.chan.frames = Tail(@), !.pending = @ \cup {Head(s.chan.frames)}],
          tx |-> Head(s.chan.frames)]
    ELSE [s |-> s, tx |-> None]

(* TxData as a whole; id is that of a channel it may create *)
TxData(s, l1Head, id) ==
    IF ~NeedsData(s) THEN {NextTxData(s)}
    ELSE IF ~CanFill(s) THEN {[s |-> s, tx |-> None]}
    ELSE {NextTxData(filled) :
            filled \in Outputs(RegisterAt(ProcessBlocks(EnsurePendingChannel(s, id)), l1Head))}

(* The channel is not closed on the way out *)
Close_KeepsOpen(s) ==
    {IF s.confirmed = <<>> /\ s.pending = {}
     THEN ClearPendingChannel([s EXCEPT !.closed = TRUE])
     ELSE [s EXCEPT !.closed = TRUE]}

(* Close: nothing new is started; a channel of which something was         *)
(* submitted is completed                                                  *)
Close(s) ==
    IF s.closed THEN {s}
    ELSE IF s.confirmed = <<>> /\ s.pending = {} THEN {ClearPendingChannel([s EXCEPT !.closed = TRUE])}
    ELSE IF s.chan = None THEN {[s EXCEPT !.closed = TRUE]}
    ELSE Outputs([s EXCEPT !.closed = TRUE, !.chan.full = TRUE])
=============================================================================
