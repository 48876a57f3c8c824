--------------------------- MODULE BatchSubmitter ---------------------------
(***************************************************************************)
(* The batch submitter (op-batcher/batcher/driver.go) with its transaction *)
(* queue (op-service/txmgr/queue.go), an L2 node whose blocks it submits   *)
(* and the L1 chain it submits them to.                                    *)
(*                                                                         *)
(* Three kinds of goroutines run.  The main one (main) loads blocks, reads *)
(* receipts and starts a publisher; the publisher (pub) takes frames from  *)
(* the channel manager and queues them; one sender for each queued         *)
(* transaction (sending, returned) waits for the transaction manager and   *)
(* then for the main goroutine to take its receipt, since the channel of   *)
(* receipts has no buffer.                                                 *)
(*                                                                         *)
(* Here a call of the channel manager is one step, as its comment requires *)
(* ("Functions on channelManager are not safe for concurrent access.").    *)
(* BatchSubmitterRace has TxData as the code runs it.                      *)
(***************************************************************************)
EXTENDS ChannelManager

CONSTANTS
    EpochOf(_), SizeOf(_),   \* L1 origin and RLP bytes of an L2 block number
    MaxPendingTransactions,  \* transactions sent at once, 0 if there is no limit
    LateInclusion,           \* may a transaction that Send gave up be included?
    MaxL1, MaxL2,            \* bounds: L1 and L2 block numbers
    MaxFailures,             \* bound: sends and queries of the L1 head that fail
    MaxReorgs,               \* bound: reorgs of the L2 chain
    MaxStarts                \* bound: times that the batcher is started

ASSUME SubmitterAssumption ==
    /\ \A n \in 1 .. MaxL2 : EpochOf(n) \in Nat /\ SizeOf(n) \in 1 .. MaxRLPBytesPerChannel
    /\ MaxPendingTransactions \in Nat
    /\ LateInclusion \in BOOLEAN

VARIABLES
    l1,               \* number of the L1 head
    included,         \* L1 block of the first inclusion of each frame that is on L1
    l2, safe,         \* blocks of the L2 chain, and the number of its safe head
    state,            \* channelManager
    lastStoredBlock,  \* number of the last block loaded, None if there is none
    main,             \* [at, end, mode, clean] of the main goroutine
    pub,              \* [at, tip, tx] of the publisher
    sending,          \* L1 block of each transaction in Send, 0 if not included
    returned,         \* receipts that wait for the main goroutine
    late,             \* frames of transactions given up that may yet be included
    groupErr,         \* did a transaction of the queue's group fail?
    shutdown,         \* shutdownCtx is done
    created,          \* [blocks, out, closed] of each channel, as seen last
    loaded,           \* blocks loaded since the state was last cleared
    starts, failures, reorgs

l1Vars  == <<l1, included, late>>
l2Vars  == <<l2, safe, reorgs>>
txVars  == <<sending, returned, groupErr, failures>>
vars    == <<l1Vars, l2Vars, txVars, state, lastStoredBlock, main, pub, shutdown, created, loaded, starts>>

(* The block on top of a chain: a hash is a number with a branch *)
BlockOn(chain, fork) ==
    LET n == Len(chain) + 1 IN
    [hash |-> <<n, fork>>, parent |-> IF chain = <<>> THEN <<0, 0>> ELSE Last(chain).hash,
     epoch |-> EpochOf(n), size |-> SizeOf(n)]

(* clean: no failure was met since publishing began *)
Selecting == [at |-> "select", end |-> 0, mode |-> "none", clean |-> TRUE]
Idle == [at |-> "none", tip |-> 0, tx |-> None]

Init ==
    /\ l1 = 1 /\ included = <<>> /\ late = {}
    /\ l2 = <<>> /\ safe = 0 /\ reorgs = 0
    /\ sending = <<>> /\ returned = {} /\ groupErr = FALSE /\ failures = 0
    /\ state = NewChannelManager
    /\ lastStoredBlock = None
    /\ main = Selecting
    /\ pub = Idle
    /\ shutdown = FALSE
    /\ created = <<>>
    /\ loaded = <<>>
    /\ starts = 1

-----------------------------------------------------------------------------
(* What L1 holds.  A channel can be read when all its frames are on L1, in *)
(* at most ChannelTimeout blocks after the first.                          *)

FramesOnL1(id) == {f \in DOMAIN included : f.chan = id}

CanBeRead(id) ==
    LET on == {included[f] : f \in FramesOnL1(id)} IN
    /\ created[id].closed
    /\ Cardinality(FramesOnL1(id)) = created[id].out
    /\ Max(on) - Min(on) <= ChannelTimeout

OnL1 == UNION {Range(created[id].blocks) : id \in {i \in DOMAIN created : CanBeRead(i)}}

-----------------------------------------------------------------------------
(* The channel manager as it is left by an operation, with the channel it  *)
(* works on remembered in created                                          *)
Left(s) ==
    /\ state' = s
    /\ created' = IF s.chan = None THEN created
                  ELSE LET seen == [blocks |-> s.chan.blocks, out |-> s.chan.out, closed |-> s.chan.closed]
                       IN IF s.chan.id \in DOMAIN created THEN [created EXCEPT ![s.chan.id] = seen]
                          ELSE Append(created, seen)

Publish(mode) ==
    /\ main' = [Selecting EXCEPT !.at = "publish", !.mode = mode]
    /\ pub' = [Idle EXCEPT !.at = "tip"]

(* The main goroutine *)

(* A tick: the range of blocks to load, from the sync status.  The call    *)
(* for the status may fail.                                                *)
Tick ==
    /\ main.at = "select"
    /\ \/ Publish("tick") /\ UNCHANGED lastStoredBlock
       \/ LET start == IF lastStoredBlock = None THEN safe ELSE Max({lastStoredBlock, safe}) IN
          /\ lastStoredBlock' = start
          /\ IF safe >= Len(l2) \/ start >= Len(l2)
             THEN Publish("tick")
             ELSE main' = [Selecting EXCEPT !.at = "load", !.end = Len(l2)] /\ UNCHANGED pub
    /\ UNCHANGED <<l1Vars, l2Vars, txVars, state, shutdown, created, loaded, starts>>

(* A tick that takes the blocks as they come, from the one after the last *)
LoadBlock_Unchecked ==
    LET n == lastStoredBlock + 1 IN
    /\ main.at = "load"
    /\ n <= Len(l2)
    /\ state' = AddL2Block(state, l2[n])
    /\ loaded' = Append(loaded, l2[n])
    /\ lastStoredBlock' = n
    /\ IF n = main.end THEN Publish("tick") ELSE UNCHANGED <<main, pub>>
    /\ UNCHANGED <<l1Vars, l2Vars, txVars, shutdown, created, starts>>

(* One block of the range is loaded *)
LoadBlock ==
    LET n == lastStoredBlock + 1 IN
    /\ main.at = "load"
    /\ n <= Len(l2)
    /\ ~IsReorg(state, l2[n])
    /\ state' = AddL2Block(state, l2[n])
    /\ loaded' = Append(loaded, l2[n])
    /\ lastStoredBlock' = n
    /\ IF n = main.end THEN Publish("tick") ELSE UNCHANGED <<main, pub>>
    /\ UNCHANGED <<l1Vars, l2Vars, txVars, shutdown, created, starts>>

(* The next block does not extend the last: the state is flushed to L1 *)
LoadReorg ==
    LET n == lastStoredBlock + 1 IN
    /\ main.at = "load"
    /\ n <= Len(l2)
    /\ IsReorg(state, l2[n])
    /\ \E s \in Close(state) : Left(s)
    /\ lastStoredBlock' = None
    /\ Publish("reorg")
    /\ UNCHANGED <<l1Vars, l2Vars, txVars, shutdown, loaded, starts>>

(* The next block cannot be fetched *)
LoadError ==
    /\ main.at = "load"
    /\ Publish("tick")
    /\ UNCHANGED <<l1Vars, l2Vars, txVars, state, lastStoredBlock, shutdown, created, loaded, starts>>

(* Receipts that are read by the loop only, not while it publishes *)
HandleReceipt_InLoopOnly ==
    /\ main.at = "select"
    /\ \E r \in returned :
        /\ Left(IF r.err THEN TxFailed(state, r.tx) ELSE TxConfirmed(state, r.tx, r.block))
        /\ returned' = returned \ {r}
        /\ groupErr' = (groupErr \/ r.err)
    /\ UNCHANGED <<l1Vars, l2Vars, lastStoredBlock, main, pub, sending, failures, shutdown, loaded, starts>>

(* handleReceipt *)
HandleReceipt ==
    /\ main.at \in {"select", "publish"}
    /\ \E r \in returned :
        /\ Left(IF r.err THEN TxFailed(state, r.tx) ELSE TxConfirmed(state, r.tx, r.block))
        /\ returned' = returned \ {r}
        /\ groupErr' = (groupErr \/ r.err)
        /\ main' = [main EXCEPT !.clean = @ /\ (main.at = "publish" => ~r.err)]
    /\ UNCHANGED <<l1Vars, l2Vars, lastStoredBlock, pub, sending, failures, shutdown, loaded, starts>>

(* shutdownCtx is done *)
Shutdown ==
    /\ main.at = "select"
    /\ shutdown
    /\ \E s \in Close(state) : Left(s)
    /\ Publish("shutdown")
    /\ UNCHANGED <<l1Vars, l2Vars, txVars, lastStoredBlock, shutdown, loaded, starts>>

(* txDone is closed: what follows publishStateToL1 *)
Published ==
    /\ main.at = "publish"
    /\ pub.at = "done"
    /\ pub' = Idle
    /\ main' = [Selecting EXCEPT !.at = IF main.mode = "shutdown" THEN "stopped" ELSE "select"]
    /\ state' = IF main.mode = "reorg" THEN Clear(state) ELSE state
    /\ loaded' = IF main.mode = "reorg" THEN <<>> ELSE loaded
    /\ UNCHANGED <<l1Vars, l2Vars, txVars, lastStoredBlock, shutdown, created, starts>>

(* The publisher *)

Drains == main.mode \in {"reorg", "shutdown"}

(* publishTxToL1 has no more to send, or an error *)
Finish == pub' = [pub EXCEPT !.at = IF Drains THEN "wait" ELSE "done", !.tx = None]

(* l1Tip *)
PublishTip ==
    /\ pub.at = "tip"
    /\ pub' = [pub EXCEPT !.at = "data", !.tip = l1]
    /\ UNCHANGED <<l1Vars, l2Vars, txVars, state, lastStoredBlock, main, shutdown, created, loaded, starts>>

PublishTipError ==
    /\ pub.at = "tip"
    /\ failures < MaxFailures
    /\ failures' = failures + 1
    /\ Finish
    /\ main' = [main EXCEPT !.clean = FALSE]
    /\ UNCHANGED <<l1Vars, l2Vars, sending, returned, groupErr, state, lastStoredBlock, shutdown, created, loaded,
                   starts>>

PublishTxData ==
    /\ pub.at = "data"
    /\ \E r \in TxData(state, pub.tip, Len(created) + 1) :
        /\ Left(r.s)
        /\ IF r.tx = None THEN Finish ELSE pub' = [pub EXCEPT !.at = "send", !.tx = r.tx]
    /\ UNCHANGED <<l1Vars, l2Vars, txVars, lastStoredBlock, main, shutdown, loaded, starts>>

Running == DOMAIN sending \cup {r.tx : r \in returned}

(* queue.Send: it waits for a slot, and after a failure for the whole      *)
(* group                                                                   *)
PublishSend ==
    /\ pub.at = "send"
    /\ IF groupErr THEN Running = {}
       ELSE MaxPendingTransactions = 0 \/ Cardinality(Running) < MaxPendingTransactions
    /\ groupErr' = FALSE
    /\ sending' = (pub.tx :> 0) @@ sending
    /\ pub' = [pub EXCEPT !.at = "tip", !.tx = None]
    /\ UNCHANGED <<l1Vars, l2Vars, returned, failures, state, lastStoredBlock, main, shutdown, created, loaded, starts>>

(* A drain that does not wait for the transactions *)
PublishWait_Skipped ==
    /\ pub.at = "wait"
    /\ pub' = [pub EXCEPT !.at = "done"]
    /\ UNCHANGED <<l1Vars, l2Vars, txVars, state, lastStoredBlock, main, shutdown, created, loaded, starts>>

(* queue.Wait *)
PublishWait ==
    /\ pub.at = "wait"
    /\ Running = {}
    /\ pub' = [pub EXCEPT !.at = "done"]
    /\ UNCHANGED <<l1Vars, l2Vars, txVars, state, lastStoredBlock, main, shutdown, created, loaded, starts>>

-----------------------------------------------------------------------------
(* The transaction manager (Send, one call per transaction) and L1 *)

Include(f) == included' = IF f \in DOMAIN included THEN included ELSE (f :> l1) @@ included

SendIncluded ==
    /\ \E f \in DOMAIN sending :
        /\ sending[f] = 0
        /\ sending' = [sending EXCEPT ![f] = l1]
        /\ Include(f)
    /\ UNCHANGED <<l1, late, l2Vars, returned, groupErr, failures, state, lastStoredBlock, main, pub, shutdown,
                   created, loaded, starts>>

Return(f, r) ==
    /\ sending' = Restrict(sending, DOMAIN sending \ {f})
    /\ returned' = returned \cup {r}

SendReturns ==
    /\ \E f \in DOMAIN sending :
        /\ sending[f] # 0
        /\ Return(f, [tx |-> f, err |-> FALSE, block |-> sending[f]])
    /\ UNCHANGED <<l1Vars, l2Vars, groupErr, failures, state, lastStoredBlock, main, pub, shutdown, created, loaded,
                   starts>>

(* Send gives the transaction up.  The first failure of a group cancels    *)
(* the context of the others, and with it any of the calls still running.  *)
SendFails ==
    /\ groupErr \/ failures < MaxFailures
    /\ \E f \in DOMAIN sending :
        /\ sending[f] # 0 => LateInclusion
        /\ Return(f, [tx |-> f, err |-> TRUE, block |-> 0])
        /\ late' = IF LateInclusion THEN late \cup {f} ELSE late
    /\ failures' = IF groupErr THEN failures ELSE failures + 1
    /\ UNCHANGED <<l1, included, l2Vars, groupErr, state, lastStoredBlock, main, pub, shutdown, created, loaded, starts>>

(* A transaction that was given up is included *)
LateTxIncluded ==
    /\ \E f \in late : late' = late \ {f} /\ Include(f)
    /\ UNCHANGED <<l1, l2Vars, txVars, state, lastStoredBlock, main, pub, shutdown, created, loaded, starts>>

L1Block ==
    /\ l1 < MaxL1
    /\ l1' = l1 + 1
    /\ UNCHANGED <<included, late, l2Vars, txVars, state, lastStoredBlock, main, pub, shutdown, created, loaded, starts>>

(* The L2 node *)

L2Block ==
    /\ Len(l2) < MaxL2
    /\ EpochOf(Len(l2) + 1) <= l1
    /\ l2' = Append(l2, BlockOn(l2, reorgs))
    /\ UNCHANGED <<l1Vars, txVars, safe, reorgs, state, lastStoredBlock, main, pub, shutdown, created, loaded, starts>>

(* A branch of the unsafe chain is replaced, at first by one block *)
L2Reorg ==
    /\ reorgs < MaxReorgs
    /\ reorgs' = reorgs + 1
    /\ \E n \in safe .. Len(l2) - 1 : l2' = Append(SubSeq(l2, 1, n), BlockOn(SubSeq(l2, 1, n), reorgs + 1))
    /\ UNCHANGED <<l1Vars, txVars, safe, state, lastStoredBlock, main, pub, shutdown, created, loaded, starts>>

(* The node derives the next block from what L1 holds *)
L2Safe ==
    /\ safe < Len(l2)
    /\ l2[safe + 1] \in OnL1
    /\ safe' = safe + 1
    /\ UNCHANGED <<l1Vars, txVars, l2, reorgs, state, lastStoredBlock, main, pub, shutdown, created, loaded, starts>>

(* The operator *)

Stop ==
    /\ main.at # "stopped"
    /\ ~shutdown
    /\ starts < MaxStarts
    /\ shutdown' = TRUE
    /\ UNCHANGED <<l1Vars, l2Vars, txVars, state, lastStoredBlock, main, pub, created, loaded, starts>>

(* Started again, the submitter goes on after the last block it stored *)
Start_KeepsLastStored ==
    /\ main.at = "stopped"
    /\ shutdown' = FALSE
    /\ starts' = starts + 1
    /\ main' = Selecting
    /\ state' = Clear(state)
    /\ loaded' = <<>>
    /\ UNCHANGED <<l1Vars, l2Vars, txVars, pub, created, lastStoredBlock>>

Start ==
    /\ main.at = "stopped"
    /\ shutdown' = FALSE
    /\ starts' = starts + 1
    /\ main' = Selecting
    /\ state' = Clear(state)
    /\ lastStoredBlock' = None
    /\ loaded' = <<>>
    /\ UNCHANGED <<l1Vars, l2Vars, txVars, pub, created>>

(* The process ends at any point, and is started again; the transactions   *)
(* it had sent may be included                                             *)
Crash ==
    /\ starts < MaxStarts
    /\ starts' = starts + 1
    /\ late' = late \cup {f \in DOMAIN sending : sending[f] = 0}
    /\ sending' = <<>> /\ returned' = {} /\ groupErr' = FALSE
    /\ main' = Selecting
    /\ pub' = Idle
    /\ state' = NewChannelManager
    /\ lastStoredBlock' = None
    /\ shutdown' = FALSE
    /\ loaded' = <<>>
    /\ UNCHANGED <<l1, included, l2Vars, failures, created>>

-----------------------------------------------------------------------------
Next ==
    \/ Tick \/ LoadBlock \/ LoadReorg \/ LoadError \/ HandleReceipt \/ Shutdown \/ Published
    \/ PublishTip \/ PublishTipError \/ PublishTxData \/ PublishSend \/ PublishWait
    \/ SendIncluded \/ SendReturns \/ SendFails \/ LateTxIncluded
    \/ L1Block \/ L2Block \/ L2Reorg \/ L2Safe
    \/ Stop \/ Start \/ Crash

Spec == Init /\ [][Next]_vars

(* Every goroutine that can take a step does, a call of the transaction    *)
(* manager returns, and the select statement of the loop, which chooses    *)
(* among the ready cases at random, does not pass over a case forever.     *)
Fairness ==
    /\ WF_vars(LoadBlock) /\ WF_vars(LoadReorg) /\ WF_vars(LoadError)
    /\ WF_vars(HandleReceipt) /\ WF_vars(Published)
    /\ WF_vars(PublishTip) /\ WF_vars(PublishTxData) /\ WF_vars(PublishSend) /\ WF_vars(PublishWait)
    /\ WF_vars(SendIncluded) /\ WF_vars(SendReturns)
    /\ SF_vars(Shutdown)

FairSpec == Spec /\ Fairness

-----------------------------------------------------------------------------
(* Every frame that the pending channel created is in exactly one place:   *)
(* queued in the channel, pending in a transaction or confirmed.  Without  *)
(* a pending channel no transaction is known.  A frame that is in none of  *)
(* them is never sent and the channel is cleared as fully submitted; one   *)
(* that is in two is a panic in PushFrame or NextFrame.                    *)
FramesAccounted ==
    LET ch == state.chan
        places == <<state.pending, DOMAIN state.confirmed, IF ch = None THEN {} ELSE ToSet(ch.frames)>>
    IN IF ch = None THEN state.pending = {} /\ state.confirmed = <<>>
       ELSE /\ {f.n : f \in UNION Range(places)} = 0 .. ch.out - 1
            /\ \A f \in UNION Range(places) : f.chan = ch.id
            /\ Cardinality(places[1]) + Cardinality(places[2]) + Len(ch.frames) = ch.out

(* Every L2 block that was loaded is still to be submitted, in the order   *)
(* it was loaded, or is in a channel that can be read from L1: a channel   *)
(* that took too long is not forgotten, and no block is skipped.           *)
Held == (IF state.chan = None THEN <<>> ELSE state.chan.blocks) \o state.blocks
NothingLost ==
    LET gone == Len(loaded) - Len(Held)
    IN ~state.closed =>
        /\ gone >= 0
        /\ Held = SubSeq(loaded, gone + 1, Len(loaded))
        /\ \A i \in 1 .. gone : loaded[i] \in OnL1

(* The submitter resumes where L1 ends: as long as L2 does not reorg, each *)
(* block up to the last one it stored is still to be submitted or can be   *)
(* read from L1, through stops, starts and crashes, and whatever becomes   *)
(* of the transactions that an earlier process had sent.                   *)
Resumes ==
    reorgs = 0 /\ ~state.closed /\ lastStoredBlock # None =>
        \A n \in 1 .. lastStoredBlock : l2[n] \in ToSet(Held) \cup OnL1

(* The blocks loaded since the state was cleared are one chain: blocks of  *)
(* two branches, or from both sides of a gap, never follow each other in   *)
(* the channels.                                                           *)
OneChain == \A i \in 1 .. Len(loaded) - 1 : loaded[i + 1].parent = loaded[i].hash

(* When the loop has drained its state, for a reorg or to stop, and met no *)
(* failure, all transactions have returned and the channel that was begun  *)
(* is complete: no half channel is left on L1.                             *)
DrainCompletes ==
    pub.at = "done" /\ Drains /\ main.clean => Running = {} /\ state.chan = None

(* Once asked to stop, the batcher stops: the main goroutine, the          *)
(* publisher and the senders do not wait for each other forever.           *)
Stops == shutdown ~> (main.at = "stopped" \/ ~shutdown)
=============================================================================
