# Verification of the Optimism rollup node, its services and the bridge

TLA+ modules, TLC configurations and TLAPS proofs for the Bedrock part of this
repository: the derivation pipeline of op-node with its engine queue, event loop
and sequencer; the batch submitter, the transaction manager and the proposer; and
the contracts on the way of a withdrawal. The modules are translated from the Go
and Solidity code in `src/`; `PROJECT.json` gives the source lines of every
definition.

Contents: [inventory](#inventory) · [modules](#modules-and-the-code) ·
[runs](#runs) · [bounds](#bounds) · [fairness](#fairness) · [proofs](#proofs) ·
[findings and observations](#findings-and-observations) ·
[not modelled](#not-modelled) · [plan](#plan)

## Inventory

A rollup node derives the L2 chain from L1 and drives an execution engine with
it; a batcher posts the L2 blocks to L1; a proposer posts output roots; contracts
on L1 accept deposits, outputs and withdrawals.

```
   L1 blocks                                          peers
      |                                                 | unsafe payloads
  L1Traversal -> L1Retrieval -> FrameQueue -> ChannelBank -> ChannelInReader
                                                              |  batches
   op-batcher <--- L2 blocks ---+              BatchQueue -> AttributesQueue
      | frames                  |                             |  attributes
      v                         +---- execution engine <-- EngineQueue <-- Sequencer
  transaction manager ---> L1 blocks      |                   ^ steps, actions
      ^ proposals                         | outputs         Driver
   op-proposer <--------------------------+

  op-proposer -> L2OutputOracle <- OptimismPortal -> L1CrossDomainMessenger -> targets
```

| Component | State | Operations | What is hard | What makes it correct |
|---|---|---|---|---|
| L1Traversal, L1Retrieval, FrameQueue | origin, `done`, an open data source, parsed frames | pull, advance, reset | fetches that fail half-way, resets | every frame of L1 is read once and in order |
| Channel | frames by number, closing number, size | AddFrame, IsReady, Reader | frames in any order, pruning | ready exactly when complete, returns the data |
| ChannelBank, ChannelInReader | channels, their queue, the open reader | IngestFrame, Read, NextBatch, reset | timeouts, the size limit, head of line, reset with an empty bank | limit kept, L1 drained, same channels after a reset |
| BatchQueue, AttributesQueue | `l1Blocks`, buffered batches, a batch that waits | NextBatch, AddBatch, deriveNextBatch, CheckBatch, reset | deciding before all of L1 is known, window and drift boundaries | same chain as a derivation that waits; rules on time, origin and drift |
| EngineQueue | the three heads, attributes, payloads, building job, finality data | Step, Finalize, Reset, StartPayload, ConfirmPayload | reorgs of L1, lost engine calls, sequencer and derivation on one job, restarts | heads on one chain; safe means derivable; finality is never undone |
| PayloadsQueue | heap of payloads, hashes, size | Push, Pop, Peek | eviction of what was just pushed | exact accounting, no duplicates |
| FindL2Heads | none | one walk back from the unsafe head | forks, depth limits | the start can be derived from L1 |
| Driver, Sequencer | step requests, timers, back-off, the sequencer's timer, the last L1 head | one turn of the event loop, start and stop, plan, start, complete | a wakeup that is lost, planning against a head that derivation moves, drift against an L1 that is seen late | no wakeup is lost, the sequencer is not left without its timer, all of L1 is derived, verifiers accept what the sequencer builds |
| channelManager, channelBuilder | blocks, pending channel, pending and confirmed transactions | AddL2Block, TxData, TxConfirmed, TxFailed, Close, Clear | late receipts, timeouts, frames in flight | no block or frame is lost |
| BatchSubmitter, Queue | goroutines, receipts channel, last stored block | loop, publish, handle receipt, Start, Stop | three kinds of goroutines, reorgs of L2, crash and restart | submits one chain, resumes, stops |
| SimpleTxManager, SendState | nonce, fees, mined transactions, counts of errors | Send, craftTx, publish, poll, increaseGasPrice, resetNonce | concurrent sends, lost answers, reorgs of receipts | a receipt is final, nothing is sent twice, fees rise enough, a send ends |
| L2OutputSubmitter, L2OutputOracle, OptimismPortal | outputs, proven and finalized withdrawals | propose, delete, prove, finalize, pause | deletion against proof and finalization, late proposals | final outputs stay, and what is finalized was sent on L2 |
| CrossDomainMessenger | successful and failed messages, its sender, ETH | relay, replay | targets that fail, re-enter and revert | a message succeeds at most once and is never lost |

`PROJECT.json` lists every component, the ones that are not modelled too, and
under "hazards" what is hard to test, each at its line.

## Modules and the code

**PayloadsQueue** (payloads_queue.go). `pq`, `currentSize` and `blockHashes` are
the fields of the type; `Push` includes the evictions that follow an insertion,
`Pop` the removal of the hash. The order among payloads of the same number, which
the heap leaves open, is a choice.

**Chains** has the two trees of blocks as constants: number, parent, and the set
of ancestors of each block. A hash is the block itself.

**FindL2Heads** (sync/start.go) gives the result of the walk in closed form:
`Stop` is the block where the loop returns, `SinceConflict` what is left of the
unsafe chain, `WalkFails` its errors. Nothing may be left: the unsafe head is then
the zero reference. L1 does not change during one walk.

**EngineAPI** (engine_update.go). `StartPayload` and `ConfirmPayload` give the
set of outcomes of a call: engine state and class of error. The engine itself
(`ForkchoiceUpdate`, `NewPayload`) is external and modelled as the node uses it:
valid, invalid, syncing, an inconsistent forkchoice, a request or a response that
is lost ("rpc") or another error ("refused").

**EngineQueue** (engine_queue.go, pipeline.go, l1_traversal.go, sequencer.go).
One action per operation. `DeriveStep` is one call of `EngineQueue.Step` with the
pull from the stages before it; `ResetEngineQueue` and `ResetStages` are the two
phases of a reset in `DerivationPipeline.Step` (`resetting` 0, 1, 2).
`TryUpdateEngine`, `TryNextSafeAttributes` (with its consolidating and forcing
branches) and `TryNextUnsafePayload` are the branches of Step, in the order of
the code. `StartBuildingBlock`, `CompleteBuildingBlock` and `SequencerReset` are
the sequencer's. `L1Extends`, `L1Reorgs`, `L1Finalizes`, `EngineRestarts` and
`NodeRestarts` are the environment. `stray` is a history variable that no guard
reads: the last reset began from an engine whose head was off its own finalized
block. The stages between L1Traversal and the engine
queue are reduced to the constant `DerivedAt`, whose assumption
`DerivationAssumption` says what they promise: derivation is deterministic and
reads a batch within its window. BatchQueue and ChannelBank model those stages.

**Driver** (driver/state.go) is EngineQueue inside the event loop. An action is
one turn: a case of the select with everything it does, then the head of the next
turn, which plans the sequencer's action or disarms it (`NextTurn`). `stepReq`,
`delayedStepReq` and `attempts` are the channel, the timer and the counter of
`reqStep`; a step of the pipeline is the action of EngineQueue together with the
error it returns (`StepResults`), on which `AfterStep` decides whether the loop
goes on. Delays are left out: a timer that runs may expire at any moment.
**OriginSelector** (origin_selector.go, conf_depth.go, the attributes of
sequencer.go) extends BatchQueue with the block that a sequencer would build on
each chain that is derived, whatever part of L1 it sees.

**Channel** (channel.go): operators on a channel record, with the size counted as
the code counts it. **ChannelBank** (l1_traversal.go, l1_retrieval.go,
calldata_source.go, frame_queue.go, channel_bank.go, channel_in_reader.go): a
pull of the pipeline takes one of the paths `NextBatch`, `DropTimedOut`,
`ReadChannel`, `NextFrame`, `AdvanceL1Block`, `LoadData`, `FetchFailed`,
`EndOfBlock`. Payload data is a model value with a size; a value in `Corrupt`
does not decode. **ChannelBankReset** composes two nodes with INSTANCE: one reads
L1 from the first block on, the other is reset on the way.

**BatchQueue** (batch_queue.go, batches.go, attributes_queue.go, attributes.go).
`CheckBatch`, `CheckEpoch` and `CheckTime` are the rules in the order of the code;
`DeriveNextBatch` with `ForceEmpty` returns the error, the batch and what is left
of `l1Blocks` and of the buffer. The hash of an L2 block is the whole chain up to
it, so that parents are compared exactly. `ApplyAttributes` stands for the engine
queue, which appends the block or drops it if it does not execute.

**ChannelManager** (channel_manager.go, channel_builder.go, channel_out.go,
tx_data.go): operators on the record of the manager, one per method. Compression
is reduced to the number of frames a channel gives, a choice between 1 and
`MaxFrames`. **BatchSubmitter** (driver.go, txmgr/queue.go) has the main
goroutine, the publisher and a sender per transaction as processes of their own;
the transaction manager is external there: a send is included and returns, or
fails. A failure cancels the context of the group, so that every other send of it
may fail too. Each call of the channel manager is one step. **BatchSubmitterRace** cuts
`TxData` into its parts, as the code runs it next to the receipts.

**TxManager** (txmgr.go, send_state.go): the calls of `Send` are the processes;
each has the goroutines that publish a transaction and those that wait for a
receipt, its `SendState`, and the steps of `craftTx`, which may fail before and
after the nonce is taken. `queryReceipt` makes two requests and is two steps,
`FetchReceipt` and `ReadTip`: in between the receipt is in `fetched`, and L1 may
grow or reorg. L1 is external: a pool with one transaction per nonce,
replaced by a better paying one, and a chain that may lose its last blocks. A
publication may be refused, fail, or succeed with the answer lost, and one that
is under way when its send ends may still arrive. **TxFees** has the arithmetic
of the fees with its integer division. **TxSender** is the abstract specification:
what the comments of the interface promise to callers, and the one receipt that
does not keep it. `TxManager!Sender`
instantiates it with the refinement mapping: the outcome of each call, the calls
whose transactions are on the chain, in order, and those that were taken back
while a query for them was between its two requests.

**L2OutputOracle**, **OptimismPortal**, **CrossDomainMessenger** (the contracts of
these names) and **L2OutputSubmitter** (op-proposer) are composed in **Bridge**.
A call that reverts changes nothing and is not a step, except inside another
call: `calls` is the stack of targets that are running, each with the storage
(`evm`) to which a revert returns, and a running target may finalize, prove and
replay. `TargetReturns` ends the innermost call with success or failure, together
with what the portal or the messenger do after it.

The MC modules give the constants that are too long for a .cfg. An operator
whose name has an underscore (`ForceEmpty_Eager`) is a mutant: the definition
after it with a plausible mistake, which the property named in `PROJECT.json` has
to detect.

## Runs

| Run | Question | Shows |
|---|---|---|
| `payloads_queue` | seven payloads of different numbers and sizes, pushed and popped in every order | `SizeAccounted`, `PushLeavesHead` |
| `engine_queue` | one L1 reorg at any moment, lost and refused engine calls, finality signals, a sequencer, an unrelated payload from a peer, a batch that does not execute | `HeadsOnOneChain`, `SafeDerivable`, `FinalizedReproducible` |
| `engine_queue_restarts` | one reorg, one restart of the node and one of the engine, which comes back at an older block | `HeadsOnOneChain`, `ResetSafeDerivable` |
| `driver` | the event loop with an L1 reorg, a step that fails, a reset by hand, a sequencer that is stopped, started and held back by the safe lag, calls to the engine that are lost with or without effect, and a payload that does not fit | `SequencerArmed`, `IdleIsDone`, `CatchesUp` |
| `channel_bank_faults` | two channels posted in parts over L1 blocks, with pruning, timeouts, strangers, corrupt data, failing fetches and a reset | `BankAccounted`, `IngestedInOrder`, `InclusionAgrees`, `DrainsL1` |
| `channel_bank_reset` | a node that is reset next to one that derives everything, with the frames of each channel in any order | `SameOutputsUnlessSplit`, `Assembled` |
| `batch_queue` | two of seventeen batches in any L1 blocks, also one that skips an epoch and one that advances the epoch and does not execute, on a chain that is first ahead of L1 time and then waits for a late L1 block, with a reset | `ResetsExplained`, `ChainRules`, `EagerIsNonEager`, `SequencedAccepted`, `FillsWindow` |
| `batcher` | two failing sends and those that they cancel, channels that time out, an L2 reorg at any point | `FramesAccounted`, `NothingLost`, `OneChain`, `DrainCompletes` |
| `batcher_restart` | stop, start and crash at any point, late inclusion of transactions of an earlier process | `Resumes`, `Stops` |
| `batcher_race` | violation: may `TxData` run next to the handling of receipts? | the finding below |
| `txmgr` | two sends at a time, one of them at two prices, with lost answers, late publications, failures, cancellation and an L1 reorg, also within a receipt query | `ImplementsSender`, `NonceNotTaken`, `BumpsReplace`, `SendEnds` |
| `bridge` | right and wrong outputs, with and without an L1 block hash, that are posted, deleted and posted again; two withdrawals with messages and one that was never sent; targets that call back and revert | `FinalOutputsStay`, `OutputsInOrder`, `SearchFindsFirst`, `FinalizedIsGrounded`, `FinalizedWereSent`, `RelayedOnce`, `SendersMatchCalls`, `NothingStuck`, `Solvent` |

The comment at each property says what it means and which code it is about. The
type invariants (`TypeOK` of EngineQueue, TxManager and Bridge) are proved and
not repeated in the runs.

`EagerIsNonEager` compares the queue with a reference: `NonEager` gives, from the
whole L1 chain at once, the first valid batch on top of a chain, or an empty
block. The queue decides on a prefix of L1 and must agree, through resets and
temporary errors. `SafeDerivable` compares the engine queue with a full
derivation in the same way. `NothingLost`, `OneChain` and `Resumes` use the
history variables `loaded` and `included`, which no guard reads.
`SequencedAccepted` puts the sequencer next to the verifiers: on every chain the
batch queue derives, the block that `OriginSelector` builds passes `CheckBatch`
and the checks of the attributes. `ImplementsSender` is the abstract
specification `TxSender!Spec` under the refinement mapping. `SearchFindsFirst`
compares the binary search of `getL2OutputIndexAfter` with the first output that
reaches the block, on the outputs there are and on those followed by two more.
`ResetsExplained` says that the stages before the engine queue never meet a state
they take for inconsistent but in two situations, which the observations below
describe; TLC reaches both. `FillsWindow` excepts these, `EagerIsNonEager` only the
batches that advance the epoch and do not execute.

CHECK_DEADLOCK is off in every run but `payloads_queue`, because the models end:
L1 is of bounded height, time is bounded, and the batcher is started a bounded
number of times. That the pipeline, the batcher and the sends do not stop before
is what the liveness properties say.

## Bounds

- Engine queue: the tree of blocks in `MCEngineQueue`, an L1 chain of five blocks
  with a fork of two, and nine L2 blocks: enough for a safe head, an unsafe head past it, a
  reorg below either, and a sequence window and a channel timeout of one block
  that both end inside the tree. The runs differ in what the environment does:
  call faults and a payload of a peer only in `engine_queue`, restarts only in
  `engine_queue_restarts`. One reorg and one restart of each kind: a second
  one starts again from a reset, which leaves nothing of the earlier state but
  the engine. `FinalityLookback` is 3 or 2, less than the L1 blocks traversed, so
  that entries are dropped.
- Driver: its own tree, an L1 fork right after the genesis of two against three
  blocks, so that the reorg needs a reset and a forced block of deposits. One
  failed step and one reset by hand, each at any moment, also
  while a request or a timer of the other is pending; calls of the sequencer may be
  lost without limit. A safe lag of 1 holds the sequencer
  back after its first block.
- Channel bank: frames of size 1 and 2 against a limit of 4 in
  `channel_bank_faults`, so that pruning happens; the other passing runs have
  limits that are not reached, since they ask about something else. Numbers 0 to
  2, so that a closing frame comes before and after a higher one, and the bank
  really buffers more than its limit. A timeout of 1
  of four L1 blocks, and of 2 of six for the reset.
- Batch queue: six L1 blocks, window 2, drift 2, block time 2. In L1 blocks 0 to 2
  L2 runs ahead of L1; block 3 is late, so that epoch 2 goes past the drift. The
  batches are on each of the chains that empty blocks and other batches give.
  A reset finds a safe head of epoch 0, 1 or 2; the base is the genesis, one block
  before the origin in the second case. A batch
  with the canonical hash of its epoch is posted after that L1 block, as its
  author has to know the hash; one with another hash may be posted anywhere.
- Batcher: two L2 blocks, up to two frames per channel, two transactions at once,
  channel timeout 2 with a margin of 1, two failed sends besides the cancelled ones
  in `batcher` and one in `batcher_restart`. `batcher` has four L1
  blocks and one L2 reorg, so that a channel can time out with a frame in flight
  and be replaced; `batcher_restart` has two L1 blocks, two starts and no reorg.
- Transaction manager: two sends, enough for a nonce that is taken by the other
  one; two prices for one of them, so that a transaction is replaced while the
  first is under way or mined; two confirmations and one reorg of depth 1, the
  deepest that `TxManagerAssumption` allows; an abort at the first nonce error. `BumpsReplace` goes over the fees `SmallFees`.
- Bridge: submission interval 2, four L2 blocks, finalization period 1 and seven
  units of time, so that two outputs are posted, deleted, posted again and become
  final; a withdrawal is sent in the first and one in the last block of an
  interval. `SearchFindsFirst` adds outputs as later proposals would (`Continued`). One wrong proposal. The block hash of a proposal is known for two
  blocks, and the proposer lags by up to one or gives none. A message of each of two values; one
  of them may be refused. Calls nest as deep as the guards of the contracts let
  them.

No symmetry is used. Where it would be sound (the two sends), liveness is checked
too.

## Fairness

- Driver: weak fairness of the step case, of the timer of a delayed step and of
  the announcement of L1 heads. The loop comes back to its select after every
  case, and L1 keeps making blocks. Nothing is assumed of the sequencer, of peers
  or of operators. After a reset the loop waits for the next event
  (state.go:298-303), which the L1 heads give it.
- Batch queue: weak fairness of a step, which the driver's loop gives it. A failed
  attempt changes nothing there, so weak fairness excludes failing for ever.
- `CatchesUp` further assumes that peers stop sending (`GossipCeases`). Without it
  TLC finds a behaviour in which one payload arrives again after each step and
  takes every step. The gossip validation ignores a block it has seen
  (p2p/gossip.go:327), so that one payload does not come back for ever.
- Channel bank: weak fairness of each path of a pull, and strong fairness of the
  two fetches, which may fail any finite number of times in a row.
- Batcher: weak fairness of every goroutine and of the transaction manager, whose
  Send returns; strong fairness of the shutdown case, since a Go select chooses
  at random among the cases that are ready.
- Transaction manager: weak fairness: L1 goes on; of each send, some request under
  way comes to an end, the ticker ticks, and a receipt in the channel is taken.
  Strong fairness: requests that are made again and again, to publish or for the
  L1 head, do not all fail (`PublishIsAnswered`, `ReadsTip`). An answer may be a
  refusal; no fairness of a particular goroutine is assumed.

## Proofs

TLAPS proves, for every value of the constants that meets the named assumptions:

| Theorem | Statement |
|---|---|
| `PayloadsQueueProofs!NoDuplicatesInvariant` | `Spec => []NoDuplicates` |
| `EngineQueueProofs!TypeInvariant` | `Spec => []TypeOK` |
| `EngineQueueProofs!AttributesInvariant` | `Spec => []AttributesCurrent` |
| `EngineQueueProofs!FinalizedInvariant` | `Spec => []FinalizedWithinSafe` |
| `EngineQueueProofs!EngineFinality` | `Spec => EngineFinalityStable` |
| `DriverProofs!AlwaysSequencerArmed` | `DriverSpec => []SequencerArmed` |
| `BatchQueueProofs!ChainRulesInvariant` | `Spec => []ChainRules` |
| `BatchQueueProofs!SequencedAlwaysAccepted` | `Spec => []SequencedAccepted` |
| `TxManagerProofs!AlwaysImplementsSender` | `Spec => ImplementsSender` |
| `TxManagerProofs!ReceiptsAlwaysStand` | `Spec => []ReceiptStands` |
| `TxManagerProofs!AlwaysSentOnce` | `Spec => []SentOnce` |
| `TxManagerProofs!NonceNeverTaken` | `Spec => []NonceNotTaken` |
| `TxManagerProofs!BumpAlwaysReplaces` | `BumpReplaces(Nat, Nat)` |
| `BridgeProofs!TypeCorrect` | `Spec => []TypeOK` |
| `BridgeProofs!OutputsAlwaysInOrder` | `Spec => []OutputsInOrder` |
| `BridgeProofs!FinalOutputsAlwaysStay` | `Spec => FinalOutputsStay` |
| `BridgeProofs!FinalizedAlwaysGrounded` | `Spec => []FinalizedIsGrounded` |
| `BridgeProofs!FinalizedAlwaysSent` | `Spec => []FinalizedWereSent` |
| `BridgeProofs!AlwaysRelayedOnce` | `Spec => []RelayedOnce` |
| `BridgeProofs!SendersAlwaysMatch` | `Spec => []SendersMatchCalls` |
| `BridgeProofs!AssertsAlwaysHold` | `Spec => []AssertsHold` |
| `BridgeProofs!NothingEverStuck` | `Spec => []NothingStuck` |

Engine queue: any trees of blocks (`L1Tree`, `L2Tree`, `L2Origins`), any
`DerivedAt` with `DerivationAssumption`, any set of faults and any number of
reorgs and restarts. The inductive invariant `IInv` strengthens the properties in
three places. Everything in `finalityData` is on the safe chain and ordered along
it, since finalization picks from it (`HeadsInv`). Queued attributes are for a
child of the safe head, since applying them moves the safe head to their block
(`AttributesInv`). The finalized block of the engine is on the chain of the
node's, since a call may have been lost after it took effect and a restarted node
reads the engine's label back (`EngineInv`). One lemma per action shows that it
keeps `IInv`; the actions that call the engine also satisfy `EngineFollows`, from
which `EngineFinality` follows. The lemmas before them say what each call may
leave (`ForkchoiceOutcomes`, `StartPayloadOutcomes`, `ConfirmPayloadOutcomes`)
and what the walk of a reset returns (`HeadsAboveFinalized`). `FinalizedWithinSafe`
and `EngineFinalityStable` are stated for `~stray`, as the observation on start.go
below requires.

Driver: any trees, lag limit, faults and number of resets and failed steps.
`SequencerArmed` is not inductive: the head of the loop plans only when the block
in progress is not on the unsafe head, and keeps the timer otherwise. `TimerInv`
adds that a block of the sequencer was begun at or below the unsafe head, so that
once the head has moved it is never again the one built on; and that while it is,
the safe head does not lag, and only a stop, a reset or a critical error can have
taken the timer away. A start plans, a reset drops the block, a critical error
ends the loop. `JobStep` says what an action of the engine queue may do to the
block and the heads, `TurnKeeps` that the head of the loop then restores
`TimerInv`. `IInv` of the engine queue is part of the invariant.

Batch queue: any L1 chain with increasing times, anything posted to it, any block
time, window and drift. `ChainRules` is not inductive: a block comes from
attributes that were checked earlier. `Waiting` says that what waits was checked
against the present safe head and keeps the drift, `Stages` that `l1Blocks` are
consecutive and end at the origin of the queue. `DeriveKeeps` shows that
`DeriveNextBatch` returns only batches that keep the drift, from
`AcceptedWithinDrift` (the rules of CheckBatch) and `EmptyWithinDrift`. The same
invariant gives `SequencedAlwaysAccepted`: `HeadAfterOrigin` says that no head is
behind the time of its origin, and `OriginAccepted` that the origin chosen on
such a head meets the rules, past the drift too.

Transaction manager: any number of sends, prices, confirmations and errors, and
any number of reorgs less deep than `NumConfirmations`. The properties speak of
what is on the chain, but what gets there was in the pool, under way or held by a
send before; so `IInv` speaks of all transactions, wherever they are
(`Everywhere`): those of one send have one nonce (`OneNonce`) and its name
(`OwnTxs`). With the chain in the order of the nonces (`ChainInOrder`) this gives
`SentOnce`. `ReceiptsFinal` says that a receipt has all its confirmations from the
moment it is in the channel, before `Send` returns it, unless it is stale; `DistinctNonces`, which
only holds until the first failure, that the last nonce given out is the greatest.
For the refinement, a block is an `Include` or a stutter, a reorg an `Undo`, and a
step of a send `Return`, `ReturnStale`, `Fail`, the end of a doubt or a stutter. Fees: for all fees of 7 wei and more.

Bridge: any withdrawals, messages, values, roots and periods, any depth of calls.
The properties of the storage are not inductive, since a revert brings an earlier
storage back; `BridgeInv` says that every storage a call in progress may return
to is good (`GoodStorage`), with the senders of the calls below it. `RelayedOnce`
follows as the count of relays is that of `successfulMessages`. `FinalizedWereSent`
rests on `FinalizedIsGrounded`, and that on `FinalOutputsStay`: a final output is
not deleted as outputs are in the order of their times (`OutputsInOrder`), although
`deleteL2Outputs` looks at the first one only.

Only model-checked: the liveness properties (`CatchesUp`, `DrainsL1`,
`FillsWindow`, `Stops`, `SendEnds`), which are out of the prover's reach;
`EagerIsNonEager`, `Assembled`, `SearchFindsFirst`, `Solvent` and `SizeAccounted`,
which need induction over data; `SafeDerivable`, `SameOutputsUnlessSplit`,
`IdleIsDone`, `ResetsExplained`, `BankAccounted` and the invariants of the batcher.

## Findings and observations

One disagreement is kept as a run that finds a violation, `batcher_race`: `TxData`
runs next to `TxConfirmed` without a lock (driver.go:336), although
channel_manager.go:25 says that it must not. The receipt of the last pending
transaction, between `processBlocks` and `outputFrames`, clears a full channel as
fully submitted before its closing frames exist.

Met while modelling and most of them found by TLC with other constants or with
a stronger property; they bound what the passing runs claim:

- payloads_queue.go:130: the hash of a payload that its own Push evicted stays in
  the index, and the payload is refused as a duplicate from then on.
- start.go:202-213: a sequencer job that is sealed on a parent which its siblings
  have left behind, after one of them became safe and final, moves the engine's
  head off its finalized chain. A reset from there may end at a ready block before
  it comes to the number of the finalized one, so that no error is returned and
  the safe head does not extend the finalized block. The runs do not reach this;
  the theorems except it (`stray`).
- start.go:182-200: when the block at which the walk ends has a conflicting origin,
  the unsafe head that is returned is the zero reference, with no error; the next
  safe block then replaces it. Until then the head of the event loop does not plan
  a sequencer without a block in progress, as both references are zero
  (state.go:226, excepted by `SequencerArmed`).
- engine_queue.go:545: after a forced block whose confirmation was lost the next
  attempt consolidates it, and until the next forkchoice update the safe head is
  outside the unsafe chain. `HeadsOnOneChain` allows this window.
- engine_queue.go:270: a reorg while L1 is read again after a reset is assumed
  away; `SafeDerivable` fails with a node restart and a reorg after it.
- engine_queue.go:362: after a reset the safe head is recorded with the L1 block
  at which the traversal restarts and may be finalized with it;
  `FinalizedReproducible` fails with a node restart.
- engine_update.go:113: an engine that lost its blocks answers SYNCING, which is
  retried without a reset; `CatchesUp` fails with an engine restart.
- channel.go:79: when a closing frame prunes, `AddFrame` subtracts the size of
  every buffered frame and not only of those it deletes. The bank then buffers more
  than `MaxChannelBankSize`, where specs/derivation.md:495-499 takes the sum of all
  buffered frames. `BankAccounted` says exactly by which frames; the size does not
  wrap.
- channel_bank.go:25: the comment says "we prune before we ingest data";
  `IngestFrame` prunes after it.
- channel_bank.go:87: a channel with frames on both sides of the base of a reset
  is opened later than in a full derivation and holds up others for longer, hence
  the condition in `SameOutputsUnlessSplit`.
- batch_queue.go:214: a batch that advances the epoch and does not execute leaves
  the queue an epoch ahead of the safe head; a valid batch of the old epoch is
  then dropped (the condition of `EagerIsNonEager`).
- batch_queue.go:214, 260: once the queue is an epoch ahead of the safe head, by such
  a batch or as the window is over and no empty batch is due, it accepts a batch of
  the epoch after that, which skips one. The attributes cannot be built from it
  (attributes.go:64) and the pipeline is reset, which finds the same batches again.
  specs/derivation.md starts from the epoch of the safe head. `SkipsAnEpoch`.
- batch_queue.go:126: with a base one block before the origin of the safe head
  the base stays first in `l1Blocks`, against the comment there; `deriveNextBatch`
  asks for a reset, which comes back to the same base. `KeepsTheBase`.
- batch_queue.go:196: an undecided batch discards the candidates behind it. On the
  chains of `batch_queue` this makes no difference (`EagerIsNonEager` holds).
- channel_manager.go:154: a transaction that Send gave up may be included, and
  the span that the receipts show is then too short; `NothingLost` fails with
  `LateInclusion` set to TRUE.
- channel_manager.go:198: without new L2 blocks TxData returns before it
  registers the L1 head, so a channel stays open past its timeouts.
- state.go:298-303: after an error that resets the pipeline no step is requested;
  the reset waits for the next event. `IdleIsDone` excepts it.
- engine_queue.go:426-432: a payload that cannot be applied is dropped with EOF, so
  one behind it that can be may stay in the queue until the next event.
- state.go:226: a block of the derivation whose confirmation was lost counts as the
  block in progress too. When it is on the unsafe head and the first L1 head
  arrives, or a lag ends, the sequencer gets no timer until the derivation is done
  with it; `SequencerArmed` excepts this.
- state.go:196-199: while the block in progress is not on the unsafe head, every
  turn of the loop plans again and sets the sequencer's timer anew.
- sequencer.go:141: the back-off of `nextAction` applies only while the block in
  progress is on the head, narrower than the comment at sequencer.go:184-187.
- sequencer.go:200 with engine_queue.go:629: a job on a head that moved since is
  sealed; the engine queue logs a warning.
- txmgr.go:135-145: `Send` may return an error for a transaction that is mined
  (its answer was lost, so nobody polls for it, and the next publication finds the
  nonce used). A failure forgets the nonce; two sends may then have the same one,
  and a failed `craftTx` may leave a gap until the next failure. `NonceNotTaken`
  is about the time before the first failure; what holds after one is in `SendEnds`
  and `ImplementsSender`.
- txmgr.go:394: the tip is compared with the height in a receipt that was read
  before. If L1 takes the transaction back between the two requests, and the query
  still sees enough blocks, `Send` returns a receipt of a block that is gone, for a
  transaction that may never be included. `ReceiptStands` and `TxSender` except
  this and nothing else.
- txmgr.go:486-491: below 7 wei the threshold rounds down to the old value, less
  than the "at least" of the comment of `increaseGasPrice`.

## Not modelled

- Encodings (frames, batches, deposits, RLP, compression): pure functions of
  bytes; here data is a model value.
- The legacy system (l2geth, batch-submitter, bss-core, gas-oracle, the data
  transport layer and other TypeScript services): superseded by Bedrock.
- Generated bindings, deployment, migration tools, monitors, documentation and
  end-to-end tests: no protocol state.
- The fault proof program re-executes the same derivation; RPC clients and caches
  appear as calls that may fail.
- L1 does not reorg in the channel bank, batch queue, batcher and bridge models. A
  reorg reaches the first two as a reset, which they have.
- Transaction manager: signing, gas estimation and the lookup of fees are steps
  that may fail. A request is atomic on L1.
- Bridge: withdrawals carry different messages (their nonces differ), the portal
  has the ETH that it pays out, and the gas that `baseGas` reserves is enough; too
  little gas appears as a target that fails. Reverts for the estimation address
  happen in simulations only. Of the proposals whose sends were given up one at
  most is included, as they share a nonce. That proposals keep coming is not
  checked. The L2 side of the messenger, deposits with their resource metering,
  the standard bridges, and the proxies and vaults are not modelled.
- Driver: confirmation depths and the lengths of delays. A sequencer's view of L1
  is any prefix in `SequencedAccepted`.
- The gossip and range sync of p2p and the proxyd gateway: peers appear as
  payloads that arrive.

## Plan

In this order; each module is written with constants and named assumptions, one
action per operation and no RECURSIVE operator, so that it can be proved about.

1. `ResourceMetering` as operators with their rounding, and deposits through the
   portal to the derivation.
2. That `TxSender` with `LateInclusion` is the sender that BatchSubmitter and
   L2OutputSubmitter assume, by composing them with it.
3. Proofs for ChannelManager (`FramesAccounted`, `NothingLost`), ChannelBank
   (`IngestedInOrder`), Driver (`IdleIsDone`) and `ResetsExplained` of BatchQueue;
   that BatchQueue implements `DerivationAssumption` outside of its two states.
4. The range sync of p2p/sync.go, and the consensus poller of proxyd.
