----------------------------- MODULE ChannelBank -----------------------------
(***************************************************************************)
(* The stages of the derivation pipeline that turn L1 blocks into batches  *)
(* (op-node/rollup/derive): L1Traversal, L1Retrieval with its DataSource,  *)
(* FrameQueue, ChannelBank and ChannelInReader.  A step is one pull by the *)
(* batch queue through all of them.                                        *)
(*                                                                         *)
(* An L1 block is a sequence of transactions [auth, frames]: whether the   *)
(* batcher sent it to the inbox, and what ParseFrames makes of its data,   *)
(* no frames standing for data that does not parse.  Each frame that can   *)
(* be decoded holds one batch.  L1 does not reorg here.                    *)
(***************************************************************************)
EXTENDS Channel, SequencesExt

CONSTANTS
    None,                \* no open data source, no open channel
    ChannelIDs,
    L1Data,              \* the contents a new L1 block may have
    Corrupt,             \* the data that cannot be decompressed or decoded
    ChannelTimeout, MaxChannelBankSize,
    MaxL1,               \* bound: length of the L1 chain
    MaxResets,           \* bound: pipeline resets
    FetchFails           \* whether fetching the transactions of a block may fail

ASSUME BankAssumption ==
    /\ Corrupt \subseteq Data
    /\ {ChannelTimeout, MaxChannelBankSize, MaxResets} \subseteq Nat
    /\ MaxL1 \in Nat \ {0}
    /\ FetchFails \in BOOLEAN

VARIABLES
    l1,                  \* the L1 chain
    \* L1Traversal
    origin, done,
    \* L1Retrieval: the open DataSource
    datas,
    \* FrameQueue
    frames,
    \* ChannelBank
    channels, channelQueue,
    \* ChannelInReader
    nextBatchFn,
    \* history: the block of the latest reset, the frames ingested since,
    \* the frames given to each buffered channel, the channels read
    base, ingested, seen, deliveries, resets

traversal == <<origin, done>>
bank == <<channels, channelQueue, seen>>
vars == <<l1, origin, done, datas, frames, channels, channelQueue, nextBatchFn,
          base, ingested, seen, deliveries, resets>>

-----------------------------------------------------------------------------
(* L1 data *)

(* DataFromEVMTransactions: the data sent by the batcher to the inbox *)
DataOf(block) == SelectSeq(block, LAMBDA tx : tx.auth)

Opened(n) == [open |-> TRUE, data |-> DataOf(l1[n])]
NotOpened == [open |-> FALSE, data |-> <<>>]
Sources(n) == {Opened(n)} \cup IF FetchFails THEN {NotOpened} ELSE {}

-----------------------------------------------------------------------------
(* The channel bank *)

TimedOut(ch) == ch.open + ChannelTimeout < origin

TotalSize(chs, ids) == MapThenSumSet(LAMBDA id : chs[id].size, ids)

(* The queue without the oldest channels that have to go *)
Prune(chs, queue) ==
    LET k == Min({i \in 0 .. Len(queue) :
                    TotalSize(chs, Range(SubSeq(queue, i + 1, Len(queue)))) <= MaxChannelBankSize})
    IN SubSeq(queue, k + 1, Len(queue))

(* The bank is pruned before the frame is added *)
IngestFrame_PrunesFirst(f) ==
    LET left   == Prune(channels, channelQueue)
        known  == f.id \in Range(left)
        ch     == IF known THEN channels[f.id] ELSE NewChannel(origin)
        heard  == IF known THEN seen[f.id] ELSE <<>>
        adds   == ~TimedOut(ch) /\ Accepts(ch, f)
        kept   == Restrict(channels, Range(left))
        given  == Restrict(seen, Range(left))
    IN /\ channelQueue' = IF known THEN left ELSE Append(left, f.id)
       /\ channels' = (f.id :> IF adds THEN AddFrame(ch, f) ELSE ch) @@ kept
       /\ seen' = (f.id :> IF TimedOut(ch) THEN heard ELSE Append(heard, f)) @@ given
       /\ ingested' = Append(ingested, f)

(* A frame of a channel that is new, or buffered and not timed out, is     *)
(* added when the channel accepts it, and then the bank is pruned.         *)
IngestFrame(f) ==
    LET known  == f.id \in DOMAIN channels
        ch     == IF known THEN channels[f.id] ELSE NewChannel(origin)
        queue  == IF known THEN channelQueue ELSE Append(channelQueue, f.id)
        heard  == IF known THEN seen[f.id] ELSE <<>>
        adds   == ~TimedOut(ch) /\ Accepts(ch, f)
        added  == (f.id :> IF adds THEN AddFrame(ch, f) ELSE ch) @@ channels
        left   == IF adds THEN Prune(added, queue) ELSE queue
        given  == (f.id :> IF TimedOut(ch) THEN heard ELSE Append(heard, f)) @@ seen
    IN /\ channelQueue' = left
       /\ channels' = Restrict(added, Range(left))
       /\ seen' = Restrict(given, Range(left))
       /\ ingested' = Append(ingested, f)

RemoveHead ==
    /\ channelQueue' = Tail(channelQueue)
    /\ channels' = Restrict(channels, DOMAIN channels \ {Head(channelQueue)})
    /\ seen' = Restrict(seen, DOMAIN seen \ {Head(channelQueue)})

First == channels[Head(channelQueue)]

(* Read has nothing to return *)
ReadEOF == IF channelQueue = <<>> THEN TRUE ELSE ~TimedOut(First) /\ ~IsReady(First)

-----------------------------------------------------------------------------
(* One pull through the stages.  Each alternative is one path of           *)
(* ChannelInReader.NextBatch.                                              *)

(* What is left to decode after the next item: the channel is given up     *)
(* when it is drained or cannot be decoded.                                *)
AfterDecoding(reader) ==
    IF reader.left = <<>> \/ Head(reader.left) \in Corrupt THEN None
    ELSE [reader EXCEPT !.left = Tail(@)]

NextBatch ==
    /\ nextBatchFn # None
    /\ nextBatchFn' = AfterDecoding(nextBatchFn)
    /\ UNCHANGED <<l1, traversal, datas, frames, bank, base, ingested, deliveries, resets>>

(* A timed-out channel has no data, which WriteChannel fails to decompress *)
DropTimedOut ==
    /\ nextBatchFn = None
    /\ channelQueue # <<>>
    /\ TimedOut(First)
    /\ RemoveHead
    /\ UNCHANGED <<l1, traversal, datas, frames, nextBatchFn, base, ingested, deliveries, resets>>

(* The first channel is ready.  Its first batch is decoded at once, unless *)
(* WriteChannel cannot decompress the data.                                *)
ReadChannel ==
    /\ nextBatchFn = None
    /\ channelQueue # <<>>
    /\ ~TimedOut(First) /\ IsReady(First)
    /\ RemoveHead
    /\ nextBatchFn' = AfterDecoding([inclusion |-> origin, left |-> Content(First)])
    /\ deliveries' = Append(deliveries, [at |-> origin, id |-> Head(channelQueue), content |-> Content(First)])
    /\ UNCHANGED <<l1, traversal, datas, frames, base, ingested, resets>>

NextFrame ==
    /\ nextBatchFn = None /\ ReadEOF
    /\ frames # <<>>
    /\ IngestFrame(Head(frames))
    /\ frames' = Tail(frames)
    /\ UNCHANGED <<l1, traversal, datas, nextBatchFn, base, deliveries, resets>>

(* AdvanceL1Block, when the pull returned EOF: the next block may not be   *)
(* there, or fail to be fetched; the engine queue may also have had an     *)
(* unsafe payload to process instead.                                      *)
AdvanceL1Block_KeepsDone ==
    /\ origin < Len(l1)
    /\ origin' = origin + 1
    /\ UNCHANGED done

AdvanceL1Block ==
    /\ origin < Len(l1)
    /\ origin' = origin + 1
    /\ done' = FALSE

(* Data that does not parse is not skipped *)
LoadData_Again ==
    /\ nextBatchFn = None /\ ReadEOF /\ frames = <<>>
    /\ datas # None \/ ~done
    /\ \E source \in IF datas = None THEN Sources(origin) ELSE {datas} :
       \E data \in IF source.open THEN {source} ELSE Sources(origin) :
        /\ done' = (done \/ datas = None)
        /\ data.open /\ data.data # <<>>
        /\ datas' = IF Head(data.data).frames = <<>> THEN data ELSE [data EXCEPT !.data = Tail(@)]
        /\ IF Head(data.data).frames = <<>>
           THEN UNCHANGED <<bank, frames, ingested>>
           ELSE /\ IngestFrame(Head(Head(data.data).frames))
                /\ frames' = Tail(Head(data.data).frames)
    /\ UNCHANGED <<l1, origin, nextBatchFn, base, deliveries, resets>>

(* The next transaction of the block is parsed and its first frame         *)
(* ingested.  A source that is not open fetches the transactions again.    *)
LoadData ==
    /\ nextBatchFn = None /\ ReadEOF /\ frames = <<>>
    /\ datas # None \/ ~done
    /\ \E source \in IF datas = None THEN Sources(origin) ELSE {datas} :
       \E data \in IF source.open THEN {source} ELSE Sources(origin) :
        /\ done' = (done \/ datas = None)
        /\ data.open /\ data.data # <<>>
        /\ datas' = [data EXCEPT !.data = Tail(@)]
        /\ IF Head(data.data).frames = <<>>
           THEN UNCHANGED <<bank, frames, ingested>>
           ELSE /\ IngestFrame(Head(Head(data.data).frames))
                /\ frames' = Tail(Head(data.data).frames)
    /\ UNCHANGED <<l1, origin, nextBatchFn, base, deliveries, resets>>

(* Fetching failed twice: a temporary error *)
FetchFailed ==
    /\ nextBatchFn = None /\ ReadEOF /\ frames = <<>>
    /\ datas # None \/ ~done
    /\ datas \in {None, NotOpened} /\ FetchFails
    /\ done' = TRUE
    /\ datas' = NotOpened
    /\ UNCHANGED <<l1, origin, frames, bank, nextBatchFn, base, ingested, deliveries, resets>>

(* The block has no further transaction, and L1Traversal may advance. *)
EndOfBlock ==
    /\ nextBatchFn = None /\ ReadEOF /\ frames = <<>>
    /\ datas # None \/ ~done
    /\ \E source \in IF datas = None THEN Sources(origin) ELSE {datas} :
       \E data \in IF source.open THEN {source} ELSE Sources(origin) :
            data.open /\ data.data = <<>>
    /\ datas' = None
    /\ AdvanceL1Block \/ (done' = (done \/ datas = None) /\ UNCHANGED origin)
    /\ UNCHANGED <<l1, frames, bank, nextBatchFn, base, ingested, deliveries, resets>>

(* Every stage is drained *)
Drained ==
    /\ nextBatchFn = None /\ ReadEOF /\ frames = <<>>
    /\ datas = None /\ done

NextL1Block ==
    /\ Drained
    /\ AdvanceL1Block
    /\ UNCHANGED <<l1, datas, frames, bank, nextBatchFn, base, ingested, deliveries, resets>>

(* The bank keeps its channels over a reset *)
ResetTo_KeepsBank(b) ==
    /\ origin' = b /\ done' = FALSE
    /\ datas' \in Sources(b)
    /\ frames' = <<>>
    /\ UNCHANGED bank
    /\ nextBatchFn' = None
    /\ base' = b /\ ingested' = <<>> /\ deliveries' = <<>>

(* The reader keeps its channel over a reset *)
ResetTo_KeepsReader(b) ==
    /\ origin' = b /\ done' = FALSE
    /\ datas' \in Sources(b)
    /\ frames' = <<>>
    /\ channels' = <<>> /\ channelQueue' = <<>>
    /\ UNCHANGED nextBatchFn
    /\ base' = b /\ ingested' = <<>> /\ seen' = <<>> /\ deliveries' = <<>>

(* Every stage is reset, to read L1 again from block b on.  The data of b  *)
(* is opened, and L1Traversal has still to give b to L1Retrieval.          *)
ResetTo(b) ==
    /\ origin' = b /\ done' = FALSE
    /\ datas' \in Sources(b)
    /\ frames' = <<>>
    /\ channels' = <<>> /\ channelQueue' = <<>>
    /\ nextBatchFn' = None
    /\ base' = b /\ ingested' = <<>> /\ seen' = <<>> /\ deliveries' = <<>>

Reset ==
    /\ resets < MaxResets
    /\ \E b \in 1 .. origin : ResetTo(b)
    /\ resets' = resets + 1
    /\ UNCHANGED l1

L1Extends ==
    /\ Len(l1) < MaxL1
    /\ \E block \in L1Data : l1' = Append(l1, block)
    /\ UNCHANGED <<traversal, datas, frames, bank, nextBatchFn, base, ingested, deliveries, resets>>

InitStages ==
    /\ origin = 1 /\ done = FALSE
    /\ datas = Opened(1)
    /\ frames = <<>>
    /\ channels = <<>> /\ channelQueue = <<>>
    /\ nextBatchFn = None
    /\ base = 1 /\ ingested = <<>> /\ seen = <<>> /\ deliveries = <<>>
    /\ resets = 0

Init == (\E block \in L1Data : l1 = <<block>>) /\ InitStages

Pull == NextBatch \/ DropTimedOut \/ ReadChannel \/ NextFrame \/ LoadData \/ FetchFailed \/ EndOfBlock \/ NextL1Block

Next == Pull \/ Reset \/ L1Extends

Spec == Init /\ [][Next]_vars

(* The driver keeps stepping the pipeline, and a block that is on L1 can   *)
(* be fetched at last.                                                     *)
Fairness ==
    /\ WF_vars(NextBatch) /\ WF_vars(DropTimedOut) /\ WF_vars(ReadChannel)
    /\ WF_vars(NextFrame) /\ WF_vars(NextL1Block)
    /\ SF_vars(LoadData) /\ SF_vars(EndOfBlock)

FairSpec == Spec /\ Fairness

-----------------------------------------------------------------------------
(* What a channel is to hold, by the frames it was given, whatever their   *)
(* order: the first closing frame whose number is not taken ends it, and   *)
(* below that number the first frame counts.                               *)
Ends(given) ==
    {k \in DOMAIN given : given[k].last /\ \A j \in 1 .. k - 1 : given[j].number # given[k].number}
FirstNumbered(given, n) ==
    {k \in DOMAIN given : given[k].number = n /\ (given[k].last => k <= Min(Ends(given)))}
Complete(given) ==
    Ends(given) # {} /\ \A n \in 0 .. given[Min(Ends(given))].number : FirstNumbered(given, n) # {}
Assembly(given) ==
    [n \in 1 .. given[Min(Ends(given))].number + 1 |-> given[Min(FirstNumbered(given, n - 1))].data]

(* The frames whose size AddFrame takes off although it keeps them: those  *)
(* that the channel held below its closing frame, when that frame came     *)
(* late and dropped others above it                                        *)
Uncounted(given) ==
    IF Ends(given) = {} THEN {}
    ELSE LET end    == Min(Ends(given))
             before == 1 .. end - 1
         IN {k \in before :
                /\ \E j \in before : given[j].number > given[end].number
                /\ given[k].number < given[end].number
                /\ \A j \in 1 .. k - 1 : given[j].number # given[k].number}
UncountedSize(given) == MapThenSumSet(LAMBDA k : FrameSize[given[k].data], Uncounted(given))

(* After every frame the bank buffers at most MaxChannelBankSize, and the  *)
(* frames above beyond that, which the sizes that prune adds up leave out; *)
(* they leave out nothing else and count nothing twice, in any order of    *)
(* arrival.  The queue holds each buffered channel once, so that prune and *)
(* Read find what they look up.                                            *)
BankAccounted ==
    /\ IsInjective(channelQueue) /\ DOMAIN channels = Range(channelQueue)
    /\ \A id \in DOMAIN channels : Buffered(channels[id]) = channels[id].size + UncountedSize(seen[id])
    /\ MapThenSumSet(LAMBDA id : Buffered(channels[id]) - UncountedSize(seen[id]), DOMAIN channels)
           <= MaxChannelBankSize

(* A channel is ready exactly when the frames it was given complete it,    *)
(* and Reader returns their data: AddFrame loses no frame that counts, and *)
(* keeps none that does not, in any order of arrival.                      *)
Assembled ==
    \A id \in DOMAIN channels :
        /\ IsReady(channels[id]) <=> Complete(seen[id])
        /\ IsReady(channels[id]) => Content(channels[id]) = Assembly(seen[id])

FramesOf(a, b) ==
    FlattenSeq([n \in 1 .. b + 1 - a |->
        FlattenSeq([k \in 1 .. Len(DataOf(l1[n + a - 1])) |-> DataOf(l1[n + a - 1])[k].frames])])

(* Frames reach the bank in the order of L1, and all of them have when the *)
(* pipeline is drained, through failed fetches and data that does not      *)
(* parse.  Only the block of a reset may be read twice: L1Retrieval.Reset  *)
(* opens it, and L1Traversal gives it once more when it could not advance. *)
IngestedInOrder ==
    \E expected \in {FramesOf(base, origin), FramesOf(base, base) \o FramesOf(base, origin)} :
        /\ IsPrefix(ingested, expected)
        /\ Drained => ingested = expected

(* The block that BatchReader tags batches with, when the channel is read, *)
(* is the block that the batch queue takes them to be included in, when    *)
(* they are decoded: L1 does not advance under an open channel.            *)
InclusionAgrees == nextBatchFn # None => nextBatchFn.inclusion = origin

(* The pipeline drains every L1 block, in spite of temporary errors. *)
DrainsL1 == []<>(Drained /\ origin = Len(l1))
=============================================================================
