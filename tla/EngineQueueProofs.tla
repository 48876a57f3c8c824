-------------------------- MODULE EngineQueueProofs --------------------------
(***************************************************************************)
(* What holds of the engine queue for every tree of L1 and L2 blocks, any  *)
(* number of reorgs and restarts, and any failure of the engine.           *)
(***************************************************************************)
EXTENDS EngineQueue, SequenceTheorems, TLAPS

-----------------------------------------------------------------------------
(* Trees *)

(* A block is on its own chain, and chains nest. *)
LEMMA ChainFacts ==
    /\ NoBlock \notin L2Blocks
    /\ L2Genesis \in L2Blocks
    /\ \A b \in L2Blocks :
        /\ b \in L2Chain[b] /\ L2Chain[b] \subseteq L2Blocks /\ L2Number[b] \in Nat
        /\ \A a \in L2Chain[b] : L2Chain[a] \subseteq L2Chain[b]
        /\ \A a \in L2Chain[b], c \in L2Chain[b] : L2Number[a] <= L2Number[c] => a \in L2Chain[c]
        /\ b # L2Genesis => /\ L2Parent[b] \in L2Blocks
                            /\ L2Chain[b] = L2Chain[L2Parent[b]] \cup {b}
                            /\ L2Number[b] = L2Number[L2Parent[b]] + 1
        /\ b = L2Genesis => L2Chain[b] = {b}
  <1>1. \A b \in L2Blocks : b \in L2Chain[b]
    BY L2Tree DEF L2Tree, IsTree
  <1> QED
    BY <1>1, L2Tree DEF L2Tree, IsTree

(* Highest finds a block of the set, when the set is part of a chain. *)
LEMMA HighestIn ==
    ASSUME NEW b \in L2Blocks, NEW S \in SUBSET L2Chain[b], S # {}
    PROVE  /\ Highest(S) \in S
           /\ \A o \in S : L2Number[o] <= L2Number[Highest(S)]
  <1>1. \A c \in L2Blocks : \A T \in SUBSET L2Chain[c] :
            T # {} => \E m \in T : \A o \in T : L2Number[o] <= L2Number[m]
    BY L2Tree DEF L2Tree, IsTree
  <1> QED
    BY <1>1 DEF Highest

(* The blocks of a chain have every number up to its head's. *)
LEMMA AtInChain ==
    /\ \A head \in L1Blocks, n \in Nat : L1At(head, n) \in L1Chain[head] \cup {NoBlock}
    /\ \A head \in L2Blocks, n \in Nat : L2At(head, n) \in L2Chain[head] \cup {NoBlock}
  <1>1. ASSUME NEW head \in L1Blocks, NEW n \in Nat, n <= L1Number[head]
        PROVE  \E b \in L1Chain[head] : L1Number[b] = n
    BY <1>1, L1Tree DEF L1Tree, IsTree
  <1>2. ASSUME NEW head \in L2Blocks, NEW n \in Nat, n <= L2Number[head]
        PROVE  \E b \in L2Chain[head] : L2Number[b] = n
    BY <1>2, L2Tree DEF L2Tree, IsTree
  <1>3. \A head \in L1Blocks : L1Number[head] \in Nat
    BY L1Tree DEF L1Tree, IsTree
  <1>4. \A head \in L2Blocks : L2Number[head] \in Nat
    BY L2Tree DEF L2Tree, IsTree
  <1> QED
    BY <1>1, <1>2, <1>3, <1>4 DEF L1At, L2At

-----------------------------------------------------------------------------
(* The engine *)

EngineState == [head : L2Blocks, safe : L2Blocks \cup {NoBlock},
                finalized : L2Blocks \cup {NoBlock}, known : SUBSET L2Blocks]

(* What the node may ask for: its unsafe head may be the zero reference. *)
Forkchoices == [head : L2Blocks \cup {NoBlock}, safe : L2Blocks, finalized : L2Blocks]

(* A forkchoice update leaves the finalized label or sets it as told. *)
LEMMA ForkchoiceOutcomes ==
    ASSUME NEW e \in EngineState, NEW fc \in Forkchoices, NEW o \in ForkchoiceUpdate(e, fc)
    PROVE  o.eng \in EngineState /\ o.eng.finalized \in {e.finalized, fc.finalized}
  <1> DEFINE adopted == [e EXCEPT !.head = fc.head, !.safe = fc.safe, !.finalized = fc.finalized]
             moved   == [e EXCEPT !.head = fc.head]
  <1>1. o.eng = e \/ (fc.head \in e.known /\ o.eng \in {adopted, moved})
    BY DEF ForkchoiceUpdate, Possible, RpcFailure, Outcome
  <1>2. fc.head \in e.known => adopted \in EngineState /\ adopted.finalized = fc.finalized
    BY DEF EngineState, Forkchoices
  <1>3. fc.head \in e.known => moved \in EngineState /\ moved.finalized = e.finalized
    BY DEF EngineState, Forkchoices
  <1> QED
    BY <1>1, <1>2, <1>3

(* Executing a payload moves no label. *)
LEMMA NewPayloadOutcomes ==
    ASSUME NEW e \in EngineState, NEW b \in L2Blocks, NEW o \in NewPayload(e, b)
    PROVE  o.eng \in EngineState /\ o.eng.finalized = e.finalized
  BY DEF NewPayload, Possible, RpcFailure, Outcome, EngineState

LEMMA StartPayloadOutcomes ==
    ASSUME NEW e \in EngineState, NEW fc \in Forkchoices, NEW b \in L2Blocks,
           NEW s \in StartPayload(e, fc, b)
    PROVE  s.eng \in EngineState /\ s.eng.finalized \in {e.finalized, fc.finalized}
  <1>1. PICK o \in ForkchoiceUpdate(e, fc) : s.eng = o.eng
    BY DEF StartPayload, Outcome, ForkchoiceUpdate, Possible, RpcFailure
  <1> QED
    BY <1>1, ForkchoiceOutcomes

LEMMA ConfirmPayloadOutcomes ==
    ASSUME NEW e \in EngineState, NEW fc, fc.safe \in L2Blocks, fc.finalized \in L2Blocks,
           NEW b \in L2Blocks, NEW lost \in BOOLEAN, NEW updateSafe \in BOOLEAN,
           NEW c \in ConfirmPayload(e, fc, b, lost, updateSafe)
    PROVE  c.eng \in EngineState /\ c.eng.finalized \in {e.finalized, fc.finalized}
  <1> DEFINE new == ForkchoiceState(b, IF updateSafe THEN b ELSE fc.safe, fc.finalized)
  <1>1. new \in Forkchoices /\ new.finalized = fc.finalized
    BY DEF ForkchoiceState, Forkchoices
  <1>2. c = Outcome(e, InsertTemporaryErr) \/ \E n \in NewPayload(e, b) : c \in MakeCanonical(n, new)
    BY DEF ConfirmPayload
  <1>3. ASSUME NEW n \in NewPayload(e, b), c \in MakeCanonical(n, new)
        PROVE  c.eng = n.eng \/ \E o \in ForkchoiceUpdate(n.eng, new) : c.eng = o.eng
    BY <1>3 DEF MakeCanonical, PostForkchoice, Outcome
  <1>4. Outcome(e, InsertTemporaryErr).eng = e
    BY DEF Outcome
  <1> QED
    BY <1>1, <1>2, <1>3, <1>4, NewPayloadOutcomes, ForkchoiceOutcomes

-----------------------------------------------------------------------------
(* Finality data and the walk of a reset *)

FinalityEntries == [l2 : L2Blocks, l1 : L1Blocks]

(* Finality data as it is kept for the safe head s *)
FinalityDataOf(data, s) ==
    /\ data \in Seq(FinalityEntries)
    /\ Len(data) <= FinalityLookback
    /\ \A i \in 1..Len(data) : data[i].l2 \in L2Chain[s]

(* postProcessSafeL2 keeps the data within its limit and on the safe chain. *)
LEMMA PostProcessKeeps ==
    ASSUME NEW s \in L2Blocks, NEW l1 \in L1Blocks, NEW data, FinalityDataOf(data, s)
    PROVE  FinalityDataOf(PostProcessSafeL2(data, l1, s), s)
  <1> DEFINE kept == IF Len(data) >= FinalityLookback THEN SubSeq(data, 2, FinalityLookback) ELSE data
             entry == [l2 |-> s, l1 |-> l1]
  <1>1. FinalityLookback \in Nat /\ FinalityLookback > 0
    BY EngineQueueAssumption DEF EngineQueueAssumption
  <1>2. kept \in Seq(FinalityEntries) /\ Len(kept) < FinalityLookback
    BY <1>1 DEF FinalityDataOf
  <1>3. \A i \in 1..Len(kept) : kept[i].l2 \in L2Chain[s]
    BY <1>1 DEF FinalityDataOf
  <1>4. entry \in FinalityEntries /\ entry.l2 \in L2Chain[s]
    BY ChainFacts DEF FinalityEntries
  <1> HIDE DEF kept
  <1>5. FinalityDataOf(Append(kept, entry), s)
    BY <1>1, <1>2, <1>3, <1>4 DEF FinalityDataOf
  <1>6. ASSUME kept # <<>>
        PROVE  FinalityDataOf([kept EXCEPT ![Len(kept)] = [l2 |-> s, l1 |-> kept[Len(kept)].l1]], s)
    <2> DEFINE last == [l2 |-> s, l1 |-> kept[Len(kept)].l1]
    <2>1. Len(kept) \in 1..Len(kept) /\ kept[Len(kept)] \in FinalityEntries
      BY <1>2, <1>6
    <2>2. last \in FinalityEntries /\ last.l2 \in L2Chain[s]
      BY <2>1, <1>4 DEF FinalityEntries
    <2> HIDE DEF last
    <2>3. FinalityDataOf([kept EXCEPT ![Len(kept)] = last], s)
      BY <2>1, <2>2, <1>1, <1>2, <1>3, ExceptSeq DEF FinalityDataOf
    <2> QED
      BY <2>3 DEF last
  <1> QED
    BY <1>5, <1>6 DEF PostProcessSafeL2, kept

(* What becomes finalized is on the safe chain and extends what was. *)
LEMMA NewlyFinalizedExtends ==
    ASSUME NEW s \in L2Blocks, NEW data, FinalityDataOf(data, s),
           NEW signal \in L1Blocks, NEW current \in L2Chain[s]
    PROVE  /\ NewlyFinalized(data, signal, current) \in L2Chain[s]
           /\ current \in L2Chain[NewlyFinalized(data, signal, current)]
  <1> DEFINE blocks == {data[i].l2 : i \in {j \in DOMAIN data :
                            /\ L2Number[data[j].l2] > L2Number[current]
                            /\ L1Number[data[j].l1] <= L1Number[signal]}}
  <1>1. DOMAIN data = 1..Len(data)
    BY DEF FinalityDataOf
  <1>2. blocks \in SUBSET L2Chain[s] /\ \A b \in blocks : L2Number[b] > L2Number[current]
    BY <1>1 DEF FinalityDataOf
  <1>3. NewlyFinalized(data, signal, current) = IF blocks = {} THEN current ELSE Highest(blocks)
    BY DEF NewlyFinalized
  <1> HIDE DEF blocks
  <1>4. current \in L2Blocks /\ current \in L2Chain[current]
    BY ChainFacts
  <1>5. CASE blocks = {}
    BY <1>3, <1>4, <1>5
  <1>6. CASE blocks # {}
    <2>1. Highest(blocks) \in blocks
      BY <1>2, <1>6, HighestIn
    <2>2. Highest(blocks) \in L2Chain[s] /\ L2Number[Highest(blocks)] > L2Number[current]
      BY <2>1, <1>2
    <2>3. Highest(blocks) \in L2Blocks
      BY <2>2, ChainFacts
    <2>4. L2Number[current] <= L2Number[Highest(blocks)]
      BY <2>2, <2>3, <1>4, ChainFacts
    <2>5. current \in L2Chain[Highest(blocks)]
      BY <2>2, <2>4, ChainFacts
    <2> QED
      BY <1>3, <1>6, <2>2, <2>5
  <1> QED
    BY <1>5, <1>6

(* Whatever is finalized is a block. *)
LEMMA NewlyFinalizedBlock ==
    ASSUME NEW s \in L2Blocks, NEW data, FinalityDataOf(data, s), NEW signal, NEW current \in L2Blocks
    PROVE  NewlyFinalized(data, signal, current) \in L2Blocks
  <1> DEFINE blocks == {data[i].l2 : i \in {j \in DOMAIN data :
                            /\ L2Number[data[j].l2] > L2Number[current]
                            /\ L1Number[data[j].l1] <= L1Number[signal]}}
  <1>1. DOMAIN data = 1..Len(data)
    BY DEF FinalityDataOf
  <1>2. blocks \in SUBSET L2Chain[s]
    BY <1>1 DEF FinalityDataOf
  <1>3. NewlyFinalized(data, signal, current) = IF blocks = {} THEN current ELSE Highest(blocks)
    BY DEF NewlyFinalized
  <1> HIDE DEF blocks
  <1> QED
    BY <1>2, <1>3, HighestIn, ChainFacts

(* A walk that does not fail ends at blocks of the engine's chain, and     *)
(* above the finalized block when that is on this chain.                   *)
LEMMA HeadsFound ==
    ASSUME NEW l1 \in L1Blocks, NEW h, h.unsafe \in L2Blocks, h.finalized \in L2Blocks,
           ~WalkFails(l1, h)
    PROVE  /\ Heads(l1, h).finalized = h.finalized
           /\ Heads(l1, h).safe \in L2Blocks
           /\ h.finalized \in L2Chain[h.unsafe] => h.finalized \in L2Chain[Heads(l1, h).safe]
           /\ Heads(l1, h).unsafe \in L2Blocks \cup {NoBlock}
  <1> DEFINE stops == StopsAt(l1, h)
             stop  == Stop(l1, h)
  <1>1. stops \in SUBSET L2Chain[h.unsafe] /\ stops # {}
    BY DEF WalkFails, StopsAt
  <1>2. stop \in stops /\ \A o \in stops : L2Number[o] <= L2Number[stop]
    BY <1>1, HighestIn DEF Stop
  <1>3. stop \in L2Chain[h.unsafe] /\ stop \in L2Blocks
    BY <1>1, <1>2, ChainFacts
  <1>4. stop = L2Genesis => stop = h.finalized
    BY DEF WalkFails
  <1>5. h.finalized \in L2Chain[h.unsafe] => h.finalized \in L2Chain[stop]
    <2>1. h.finalized \in L2Chain[h.unsafe] => h.finalized \in stops
      BY DEF StopsAt
    <2> HIDE DEF stops, stop
    <2> QED
      BY <2>1, <1>2, <1>3, ChainFacts
  <1> DEFINE usable == SinceConflict(l1, h.unsafe, stop)
  <1>6. usable \in SUBSET L2Chain[h.unsafe]
    BY DEF SinceConflict, Seen
  <1>7. Heads(l1, h) = [unsafe    |-> IF usable = {} THEN NoBlock ELSE Highest(usable),
                        safe      |-> IF stop = h.finalized THEN stop ELSE L2Parent[stop],
                        finalized |-> h.finalized]
    BY DEF Heads
  <1> HIDE DEF stops, stop, usable
  <1>8. Heads(l1, h).unsafe \in L2Blocks \cup {NoBlock}
    BY <1>6, <1>7, HighestIn, ChainFacts
  <1>9. CASE stop = h.finalized
    BY <1>3, <1>5, <1>7, <1>8, <1>9
  <1>10. CASE stop # h.finalized
    BY <1>3, <1>4, <1>5, <1>7, <1>8, <1>10, ChainFacts
  <1> QED
    BY <1>9, <1>10

(* The pipeline starts at an L1 block. *)
LEMMA PipelineStartInChain ==
    ASSUME NEW safe \in L2Blocks
    PROVE  PipelineStart(safe) \in L2Blocks /\ L2Origin[PipelineStart(safe)] \in L1Blocks
  <1> DEFINE old == {b \in L2Chain[safe] :
                        \/ L2Number[b] = 0
                        \/ OriginNumber(b) = 0
                        \/ OriginNumber(b) + ChannelTimeout <= OriginNumber(safe)}
  <1>1. \E b \in L2Chain[safe] : L2Number[b] = 0
    BY L2Tree DEF L2Tree, IsTree
  <1>2. old \in SUBSET L2Chain[safe] /\ old # {}
    BY <1>1
  <1>3. PipelineStart(safe) = Highest(old)
    BY DEF PipelineStart
  <1> HIDE DEF old
  <1>4. Highest(old) \in L2Blocks
    BY <1>2, HighestIn, ChainFacts
  <1> QED
    BY <1>3, <1>4, L2Origins DEF L2Origins

-----------------------------------------------------------------------------
(* The inductive invariant *)

L1Inv ==
    /\ l1Head \in L1Blocks /\ l1Finalized \in L1Chain[l1Head]
    /\ reorgs \in 0..MaxReorgs
    /\ nodeRestarts \in 0..MaxNodeRestarts /\ engineRestarts \in 0..MaxEngineRestarts

PipelineInv ==
    /\ resetting \in 0..2
    /\ l1Origin \in L1Blocks \cup {NoBlock} /\ (resetting = 2 => l1Origin # NoBlock)
    /\ handed \subseteq L2Blocks
    /\ finalizedL1 \in L1Blocks \cup {NoBlock}
    /\ triedFinalizeAt \in L1Blocks \cup {NoBlock}
    /\ unsafePayloads \subseteq L2Blocks

FlagsInv ==
    /\ halted \in BOOLEAN /\ jobLost \in BOOLEAN /\ needForkchoiceUpdate \in BOOLEAN
    /\ stray \in BOOLEAN

(* The engine's finalized label lags the node's, on the same chain, as     *)
(* long as the engine had not left that chain before the last reset.       *)
EngineInv ==
    /\ eng \in EngineState
    /\ (eng.finalized # NoBlock /\ finalized # NoBlock /\ ~stray) => eng.finalized \in L2Chain[finalized]

(* A node that was never reset has no heads; then what may become          *)
(* finalized is on the safe chain, and so is finalized, unless the engine  *)
(* had left it before the reset.                                           *)
HeadsInv ==
    \/ /\ resetting = 0
       /\ finalized = NoBlock /\ safeHead = NoBlock /\ unsafeHead = NoBlock /\ origin = NoBlock
       /\ finalityData = <<>> /\ safeAttributes = NoAttributes
    \/ /\ safeHead \in L2Blocks /\ unsafeHead \in L2Blocks \cup {NoBlock} /\ origin \in L1Blocks
       /\ finalized \in L2Blocks
       /\ ~stray => finalized \in L2Chain[safeHead]
       /\ FinalityDataOf(finalityData, safeHead)

JobInv == building \in [block : L2Blocks \ {L2Genesis}, onto : L2Blocks, safe : BOOLEAN] \cup {NoJob}

AttributesInv ==
    safeAttributes # NoAttributes =>
        /\ safeAttributes \in [block : L2Blocks \ {L2Genesis}, parent : L2Blocks]
        /\ safeAttributes.parent = safeHead
        /\ L2Parent[safeAttributes.block] = safeHead

IInv == L1Inv /\ PipelineInv /\ FlagsInv /\ EngineInv /\ HeadsInv /\ JobInv /\ AttributesInv

(* A step of the node leaves the engine's finalized label, or moves it to  *)
(* the node's, which only ever moves up its chain.                         *)
EngineFollows ==
    \/ eng'.finalized = eng.finalized
    \/ /\ finalized \in L2Blocks /\ finalized' \in L2Blocks
       /\ ~stray => finalized \in L2Chain[finalized']
       /\ eng'.finalized = finalized'

(* The L1 facts the proofs use *)
LEMMA L1Facts ==
    /\ NoBlock \notin L1Blocks
    /\ L1Genesis \in L1Blocks
    /\ \A b \in L1Blocks : b \in L1Chain[b] /\ L1Chain[b] \subseteq L1Blocks /\ L1Number[b] \in Nat
    /\ \A b \in L1Blocks : L1Parent[b] \in L1Blocks =>
            L1Chain[b] = L1Chain[L1Parent[b]] \cup {b}
  <1>1. \A b \in L1Blocks : b \in L1Chain[b]
    BY L1Tree DEF L1Tree, IsTree
  <1> QED
    BY <1>1, L1Tree DEF L1Tree, IsTree

LEMMA InitIInv == Init => IInv
  <1> SUFFICES ASSUME Init PROVE IInv
    OBVIOUS
  <1>1. L1Inv
    BY L1Facts, EngineQueueAssumption DEF Init, L1Inv, EngineQueueAssumption
  <1>2. PipelineInv /\ JobInv /\ AttributesInv
    BY DEF Init, PipelineInv, JobInv, AttributesInv
  <1>4. FlagsInv
    BY DEF Init, FlagsInv
  <1>3. EngineInv /\ HeadsInv
    BY ChainFacts DEF Init, EngineInv, EngineState, HeadsInv
  <1> QED
    BY <1>1, <1>2, <1>3, <1>4 DEF IInv

LEMMA IInvTypeOK == IInv => TypeOK
  <1> SUFFICES ASSUME IInv PROVE TypeOK
    OBVIOUS
  <1>1. /\ halted \in BOOLEAN /\ jobLost \in BOOLEAN /\ needForkchoiceUpdate \in BOOLEAN
        /\ stray \in BOOLEAN
    BY DEF IInv, FlagsInv
  <1>2. finalityData \in Seq([l2 : L2Blocks, l1 : L1Blocks]) /\ Len(finalityData) <= FinalityLookback
    <2>1. FinalityLookback \in Nat
      BY EngineQueueAssumption DEF EngineQueueAssumption
    <2>2. finalityData = <<>> \/ FinalityDataOf(finalityData, safeHead)
      BY DEF IInv, HeadsInv
    <2>3. <<>> \in Seq(FinalityEntries) /\ Len(<<>>) = 0
      BY EmptySeq
    <2>4. /\ finalityData \in Seq(FinalityEntries)
          /\ Len(finalityData) = 0 \/ Len(finalityData) <= FinalityLookback
      BY <2>2, <2>3, Zenon DEF FinalityDataOf
    <2> QED
      BY <2>1, <2>4 DEF FinalityEntries
  <1>3. /\ {finalized, safeHead, unsafeHead} \subseteq L2Blocks \cup {NoBlock}
        /\ resetting > 0 => NoBlock \notin {finalized, safeHead, origin}
        /\ origin \in L1Blocks \cup {NoBlock}
    BY ChainFacts, L1Facts DEF IInv, HeadsInv, PipelineInv
  <1>4. safeAttributes \in [block : L2Blocks, parent : L2Blocks] \cup {NoAttributes}
    BY DEF IInv, AttributesInv
  <1> QED
    BY <1>1, <1>2, <1>3, <1>4 DEF IInv, TypeOK, L1Inv, PipelineInv, EngineInv, EngineState, JobInv

-----------------------------------------------------------------------------
(* Every step keeps the invariant: one lemma per action. *)

(* A step of the environment leaves the node alone. *)
LEMMA NodeUnchanged ==
    ASSUME IInv, UNCHANGED nodeVars, UNCHANGED eng, UNCHANGED stray
    PROVE  PipelineInv' /\ FlagsInv' /\ EngineInv' /\ HeadsInv' /\ JobInv' /\ AttributesInv'
  <1> USE DEF IInv, nodeVars, pipelineVars, headVars, buildVars, finalityVars
  <1>1. PipelineInv' /\ JobInv' /\ AttributesInv'
    BY DEF PipelineInv, JobInv, AttributesInv, NoJob, NoAttributes
  <1>2. FlagsInv'
    BY DEF FlagsInv
  <1>3. EngineInv' /\ HeadsInv'
    BY DEF EngineInv, HeadsInv, EngineState, FinalityDataOf, FinalityEntries, NoAttributes
  <1> QED
    BY <1>1, <1>2, <1>3

LEMMA L1Steps == ASSUME IInv, L1Extends \/ L1Reorgs \/ L1Finalizes PROVE IInv'
  <1>1. UNCHANGED nodeVars /\ UNCHANGED eng /\ UNCHANGED restartVars /\ UNCHANGED stray
    BY DEF L1Extends, L1Reorgs, L1Finalizes, restartVars
  <1>2. ASSUME L1Extends PROVE L1Inv'
    <2>1. PICK b \in L1Blocks : L1Parent[b] = l1Head /\ l1Head' = b
      BY <1>2 DEF L1Extends
    <2>2. L1Chain[b] = L1Chain[l1Head] \cup {b}
      BY <2>1, L1Facts DEF IInv, L1Inv
    <2> QED
      BY <1>1, <1>2, <2>1, <2>2 DEF IInv, L1Inv, L1Extends, restartVars
  <1>3. ASSUME L1Reorgs PROVE L1Inv'
    BY <1>1, <1>3, EngineQueueAssumption
    DEF IInv, L1Inv, L1Reorgs, restartVars, EngineQueueAssumption
  <1>4. ASSUME L1Finalizes PROVE L1Inv'
    BY <1>1, <1>4 DEF IInv, L1Inv, L1Finalizes, restartVars
  <1>5. L1Inv'
    BY <1>2, <1>3, <1>4
  <1> QED
    BY <1>1, <1>5, NodeUnchanged DEF IInv

(* A step that leaves the heads alone, and may ask for a reset *)
LEMMA HeadsUnchanged ==
    ASSUME IInv, UNCHANGED <<headVars, finalityData, origin, safeAttributes, stray>>,
           resetting' = resetting \/ resetting' = 0 \/ resetting # 0
    PROVE  HeadsInv' /\ AttributesInv'
  <1>1. HeadsInv'
    BY DEF IInv, HeadsInv, headVars, FinalityDataOf, FinalityEntries, NoAttributes
  <1>2. AttributesInv'
    BY DEF IInv, AttributesInv, headVars, NoAttributes
  <1> QED
    BY <1>1, <1>2

LEMMA L1Unchanged == ASSUME IInv, UNCHANGED <<l1Vars, restartVars>> PROVE L1Inv'
  BY DEF IInv, L1Inv, l1Vars, restartVars

LEMMA JobUnchanged == ASSUME IInv, UNCHANGED building PROVE JobInv'
  BY DEF IInv, JobInv, NoJob

(* The engine's answer to a forkchoice with the node's finalized block *)
LEMMA EngineKept ==
    ASSUME IInv, eng' \in EngineState, finalized \in L2Blocks, finalized' = finalized, stray' = stray,
           eng'.finalized \in {eng.finalized, finalized}
    PROVE  EngineInv'
  BY ChainFacts DEF IInv, EngineInv, EngineState

LEMMA RestartSteps == ASSUME IInv, NodeRestarts \/ EngineRestarts PROVE IInv'
  <1>1. CASE NodeRestarts
    <2> USE <1>1 DEF NodeRestarts
    <2>1. L1Inv'
      BY EngineQueueAssumption DEF IInv, L1Inv, l1Vars, EngineQueueAssumption
    <2>2. PipelineInv'
      BY DEF IInv, PipelineInv
    <2>6. JobInv' /\ AttributesInv'
      BY DEF JobInv, AttributesInv, NoJob, NoAttributes
    <2>3. FlagsInv'
      BY DEF IInv, FlagsInv
    <2>4. EngineInv'
      BY DEF IInv, EngineInv, EngineState
    <2>5. HeadsInv'
      BY DEF HeadsInv, NoAttributes
    <2> QED
      BY <2>1, <2>2, <2>3, <2>4, <2>5, <2>6 DEF IInv
  <1>2. CASE EngineRestarts
    <2> USE <1>2 DEF EngineRestarts
    <2>1. L1Inv'
      BY EngineQueueAssumption DEF IInv, L1Inv, l1Vars, EngineQueueAssumption
    <2>2. PipelineInv'
      BY DEF IInv, PipelineInv, pipelineVars, finalityVars
    <2>3. FlagsInv'
      BY DEF IInv, FlagsInv, pipelineVars
    <2>4. EngineInv'
      <3>1. PICK b \in L2Chain[eng.head] :
                eng' = [head |-> b, safe |-> NoBlock, finalized |-> NoBlock, known |-> L2Chain[b]]
        OBVIOUS
      <3>2. eng.head \in L2Blocks
        BY DEF IInv, EngineInv, EngineState
      <3>3. b \in L2Blocks /\ L2Chain[b] \subseteq L2Blocks
        BY <3>2, ChainFacts
      <3> QED
        BY <3>1, <3>3 DEF EngineInv, EngineState
    <2>5. HeadsInv' /\ AttributesInv'
      BY HeadsUnchanged DEF pipelineVars, finalityVars
    <2>6. JobInv'
      BY JobUnchanged
    <2> QED
      BY <2>1, <2>2, <2>3, <2>4, <2>5, <2>6 DEF IInv
  <1> QED
    BY <1>1, <1>2

LEMMA ResetStagesStep == ASSUME IInv, ResetStages PROVE IInv'
  <1> USE DEF ResetStages
  <1>1. L1Inv'
    BY L1Unchanged
  <1>2. PipelineInv'
    BY L1Facts DEF IInv, PipelineInv, HeadsInv, finalityVars
  <1>3. FlagsInv'
    BY DEF IInv, FlagsInv, buildVars, restartVars
  <1>4. EngineInv'
    BY DEF IInv, EngineInv, EngineState, headVars, restartVars
  <1>5. HeadsInv' /\ AttributesInv'
    BY HeadsUnchanged DEF finalityVars, restartVars
  <1>6. JobInv'
    BY JobUnchanged DEF buildVars
  <1> QED
    BY <1>1, <1>2, <1>3, <1>4, <1>5, <1>6 DEF IInv

LEMMA ResetEngineQueueStep == ASSUME IInv, ResetEngineQueue PROVE IInv'
  <1> DEFINE h == CurrentHeads(eng.head, eng.safe, eng.finalized)
             r == Heads(l1Head, h)
  <1>1. eng \in EngineState /\ l1Head \in L1Blocks
    BY DEF IInv, EngineInv, L1Inv
  <1>2. /\ h.unsafe \in L2Blocks /\ h.finalized \in L2Blocks
        /\ eng.finalized # NoBlock => h.finalized = eng.finalized
    BY <1>1, ChainFacts DEF EngineState, CurrentHeads
  <1>3. /\ ~WalkFails(l1Head, h)
        /\ finalized' = r.finalized /\ safeHead' = r.safe /\ unsafeHead' = r.unsafe
        /\ origin' = L2Origin[PipelineStart(r.safe)]
    BY DEF ResetEngineQueue
  <1>4. /\ safeAttributes' = NoAttributes /\ building' = NoJob /\ finalityData' = <<>>
        /\ jobLost' = FALSE /\ needForkchoiceUpdate' = TRUE
        /\ resetting' = 1
        /\ stray' = ~FinalizedCanonical
        /\ UNCHANGED <<l1Vars, eng, l1Origin, handed, halted, finalizedL1,
                       triedFinalizeAt, unsafePayloads, nodeRestarts, engineRestarts>>
    BY DEF ResetEngineQueue
  <1> HIDE DEF h
  <1>5. /\ r.finalized = h.finalized /\ r.safe \in L2Blocks
        /\ h.finalized \in L2Chain[h.unsafe] => h.finalized \in L2Chain[r.safe]
        /\ r.unsafe \in L2Blocks \cup {NoBlock}
    BY <1>1, <1>2, <1>3, HeadsFound
  <1> HIDE DEF r
  <1>6. origin' \in L1Blocks
    BY <1>3, <1>5, PipelineStartInChain
  <1>7. L1Inv'
    BY <1>4 DEF IInv, L1Inv, l1Vars
  <1>8. PipelineInv'
    BY <1>4 DEF IInv, PipelineInv
  <1>9. FlagsInv'
    <2>1. stray' \in BOOLEAN
      BY <1>4
    <2> QED
      BY <2>1, <1>4 DEF IInv, FlagsInv
  <1>10. EngineInv'
    <2>1. h.finalized \in L2Chain[h.finalized]
      BY <1>2, ChainFacts
    <2> QED
      BY <1>1, <1>2, <1>3, <1>4, <1>5, <2>1 DEF EngineInv, EngineState
  <1>13. ~stray' => h.finalized \in L2Chain[h.unsafe]
    <2>1. h.unsafe = eng.head
      BY DEF h, CurrentHeads
    <2>2. eng.finalized = NoBlock => h.finalized = L2Genesis
      BY DEF h, CurrentHeads
    <2>3. L2Genesis \in L2Chain[h.unsafe]
      <3>1. L2Number[h.unsafe] \in Nat /\ 0 \in 0..L2Number[h.unsafe]
        BY <1>2, ChainFacts
      <3>2. PICK a \in L2Chain[h.unsafe] : L2Number[a] = 0
        BY <1>2, <3>1, L2Tree DEF L2Tree, IsTree
      <3>3. a \in L2Blocks /\ a = L2Genesis
        BY <1>2, <3>2, ChainFacts
      <3> QED
        BY <3>2, <3>3
    <2>4. ~stray' => FinalizedCanonical
      BY <1>4
    <2> QED
      BY <1>2, <2>1, <2>2, <2>3, <2>4 DEF FinalizedCanonical
  <1>11. HeadsInv'
    <2>1. FinalityLookback \in Nat
      BY EngineQueueAssumption DEF EngineQueueAssumption
    <2>2. <<>> \in Seq(FinalityEntries) /\ Len(<<>>) = 0
      BY EmptySeq
    <2>3. FinalityDataOf(<<>>, safeHead')
      BY <2>1, <2>2 DEF FinalityDataOf
    <2> QED
      BY <1>2, <1>3, <1>4, <1>5, <1>6, <1>13, <2>3 DEF HeadsInv
  <1>12. JobInv' /\ AttributesInv'
    BY <1>4 DEF JobInv, AttributesInv, NoJob, NoAttributes
  <1> QED
    BY <1>7, <1>8, <1>9, <1>10, <1>11, <1>12 DEF IInv

(* A reset is asked for, and nothing else changes. *)
LEMMA ResetRequestSteps == ASSUME IInv, OriginConflict \/ SequencerReset PROVE IInv'
  <1>1. /\ resetting' = 0
        /\ UNCHANGED <<l1Vars, eng, l1Origin, handed, halted, headVars, buildVars, needForkchoiceUpdate,
                       finalityVars, safeAttributes, unsafePayloads, restartVars>>
    BY DEF OriginConflict, SequencerReset, RequestReset
  <1>2. L1Inv'
    BY <1>1, L1Unchanged
  <1>3. PipelineInv'
    BY <1>1 DEF IInv, PipelineInv, finalityVars
  <1>4. FlagsInv'
    BY <1>1 DEF IInv, FlagsInv, buildVars, restartVars
  <1>5. EngineInv'
    BY <1>1 DEF IInv, EngineInv, EngineState, headVars, restartVars
  <1>6. HeadsInv' /\ AttributesInv'
    BY <1>1, HeadsUnchanged DEF finalityVars, restartVars
  <1>7. JobInv'
    BY <1>1, JobUnchanged DEF buildVars
  <1> QED
    BY <1>2, <1>3, <1>4, <1>5, <1>6, <1>7 DEF IInv

LEMMA AddUnsafePayloadStep ==
    ASSUME IInv, NEW b \in Gossip, AddUnsafePayload(b) PROVE IInv'
  <1> USE DEF AddUnsafePayload
  <1>1. L1Inv'
    BY L1Unchanged
  <1>2. PipelineInv'
    <2>1. b \in L2Blocks /\ unsafePayloads \subseteq L2Blocks
      BY EngineQueueAssumption DEF EngineQueueAssumption, IInv, PipelineInv
    <2>2. unsafePayloads' \subseteq L2Blocks
      BY <2>1
    <2> QED
      BY <2>2 DEF IInv, PipelineInv, pipelineVars, finalityVars
  <1>3. FlagsInv'
    BY DEF IInv, FlagsInv, buildVars, pipelineVars, restartVars
  <1>4. EngineInv'
    BY DEF IInv, EngineInv, EngineState, headVars, restartVars
  <1>5. HeadsInv' /\ AttributesInv'
    BY HeadsUnchanged DEF finalityVars, pipelineVars, restartVars
  <1>6. JobInv'
    BY JobUnchanged DEF buildVars
  <1> QED
    BY <1>1, <1>2, <1>3, <1>4, <1>5, <1>6 DEF IInv

(* Finalization moves the finalized block up the safe chain. *)
LEMMA TryFinalizeExtends ==
    ASSUME IInv, NEW data, NEW signal \in L1Blocks, NEW l1 \in L1Blocks, safeHead \in L2Blocks,
           finalized \in L2Blocks, ~stray => finalized \in L2Chain[safeHead], FinalityDataOf(data, safeHead),
           TryFinalizeL2(data, signal, l1)
    PROVE  /\ finalized' \in L2Blocks
           /\ ~stray => finalized' \in L2Chain[safeHead] /\ finalized \in L2Chain[finalized']
           /\ triedFinalizeAt' \in L1Blocks
           /\ needForkchoiceUpdate' \in BOOLEAN
  <1>1. ~stray => finalized' \in L2Chain[safeHead] /\ finalized \in L2Chain[finalized']
    BY NewlyFinalizedExtends DEF TryFinalizeL2
  <1>4. finalized' \in L2Blocks
    BY NewlyFinalizedBlock DEF TryFinalizeL2
  <1>2. triedFinalizeAt' \in L1Blocks
    BY DEF TryFinalizeL2
  <1>3. needForkchoiceUpdate' \in BOOLEAN
    BY DEF TryFinalizeL2
  <1> QED
    BY <1>1, <1>2, <1>3, <1>4

LEMMA FinalizeStep == ASSUME IInv, NEW b \in Signalled, Finalize(b) PROVE IInv'
  <1> USE DEF Finalize
  <1>1. b \in L1Blocks
    BY EngineQueueAssumption DEF EngineQueueAssumption
  <1>2. L1Inv'
    BY L1Unchanged
  <1>3. CASE \E i \in DOMAIN finalityData : finalityData[i].l1 = b
    <2>1. finalityData # <<>>
      BY <1>3
    <2>2. /\ safeHead \in L2Blocks /\ origin \in L1Blocks /\ unsafeHead \in L2Blocks \cup {NoBlock}
          /\ finalized \in L2Blocks /\ (~stray => finalized \in L2Chain[safeHead])
          /\ FinalityDataOf(finalityData, safeHead)
      BY <2>1 DEF IInv, HeadsInv
    <2>3. TryFinalizeL2(finalityData, b, origin)
      BY <1>3
    <2>4. /\ finalized' \in L2Blocks
          /\ ~stray => finalized' \in L2Chain[safeHead] /\ finalized \in L2Chain[finalized']
          /\ triedFinalizeAt' \in L1Blocks
          /\ needForkchoiceUpdate' \in BOOLEAN
      BY <1>1, <2>2, <2>3, TryFinalizeExtends
    <2>5. PipelineInv'
      BY <1>1, <2>4 DEF IInv, PipelineInv, pipelineVars
    <2>6. FlagsInv'
      BY <2>4 DEF IInv, FlagsInv, pipelineVars, buildVars, restartVars
    <2>7. EngineInv'
      <3>1. finalized' \in L2Blocks /\ finalized \in L2Blocks /\ finalized # NoBlock /\ stray' = stray
        BY <2>2, <2>4, ChainFacts DEF restartVars
      <3>2. ~stray => L2Chain[finalized] \subseteq L2Chain[finalized']
        BY <3>1, <2>4, ChainFacts
      <3> QED
        BY <3>1, <3>2, ChainFacts DEF IInv, EngineInv, EngineState
    <2>8. HeadsInv'
      BY <2>2, <2>4 DEF HeadsInv, restartVars
    <2>9. AttributesInv'
      BY DEF IInv, AttributesInv, NoAttributes
    <2>10. JobInv'
      BY JobUnchanged DEF buildVars
    <2> QED
      BY <1>2, <2>5, <2>6, <2>7, <2>8, <2>9, <2>10 DEF IInv
  <1>4. CASE ~\E i \in DOMAIN finalityData : finalityData[i].l1 = b
    <2>1. UNCHANGED <<triedFinalizeAt, finalized, needForkchoiceUpdate>>
      BY <1>4
    <2>2. PipelineInv'
      BY <1>1, <2>1 DEF IInv, PipelineInv, pipelineVars
    <2>3. FlagsInv'
      BY <2>1 DEF IInv, FlagsInv, pipelineVars, buildVars, restartVars
    <2>4. EngineInv'
      BY <2>1 DEF IInv, EngineInv, EngineState, restartVars
    <2>5. HeadsInv' /\ AttributesInv'
      BY <2>1, HeadsUnchanged DEF headVars, pipelineVars, restartVars
    <2>6. JobInv'
      BY JobUnchanged DEF buildVars
    <2> QED
      BY <1>2, <2>2, <2>3, <2>4, <2>5, <2>6 DEF IInv
  <1> QED
    BY <1>3, <1>4

(* Once the engine queue was reset its heads are blocks. *)
LEMMA NeverReset == IInv /\ (Stepping \/ EngineReady) => resetting # 0
  BY DEF Stepping, EngineReady, IInv, PipelineInv

LEMMA HeadsAfterReset ==
    ASSUME IInv, resetting # 0
    PROVE  /\ safeHead \in L2Blocks /\ unsafeHead \in L2Blocks \cup {NoBlock} /\ finalized \in L2Blocks
           /\ (~stray => finalized \in L2Chain[safeHead]) /\ FinalityDataOf(finalityData, safeHead)
           /\ origin \in L1Blocks
  BY DEF IInv, HeadsInv

LEMMA TryUpdateEngineStep == ASSUME IInv, TryUpdateEngine PROVE IInv' /\ EngineFollows
  <1>0. resetting # 0
    BY NeverReset DEF TryUpdateEngine
  <1>1. safeHead \in L2Blocks /\ unsafeHead \in L2Blocks \cup {NoBlock} /\ finalized \in L2Blocks
    BY <1>0, HeadsAfterReset
  <1> USE DEF TryUpdateEngine
  <1>2. PICK o \in ForkchoiceUpdate(eng, ForkchoiceState(unsafeHead, safeHead, finalized)) :
            /\ eng' = o.eng
            /\ needForkchoiceUpdate' = (o.res \notin {"valid", "syncing"})
            /\ resetting' = 0 \/ resetting' = resetting
    BY DEF RequestReset
  <1>3. eng' \in EngineState /\ eng'.finalized \in {eng.finalized, finalized}
    BY <1>1, <1>2, ForkchoiceOutcomes DEF ForkchoiceState, Forkchoices, IInv, EngineInv
  <1>4. L1Inv'
    BY L1Unchanged
  <1>5. PipelineInv'
    BY <1>2 DEF IInv, PipelineInv, finalityVars
  <1>6. FlagsInv'
    <2>1. needForkchoiceUpdate' \in BOOLEAN
      BY <1>2
    <2> QED
      BY <2>1 DEF IInv, FlagsInv, buildVars, restartVars
  <1>7. EngineInv'
    BY <1>1, <1>3, EngineKept DEF headVars, restartVars
  <1>8. HeadsInv' /\ AttributesInv'
    BY <1>2, HeadsUnchanged DEF finalityVars, restartVars
  <1>9. JobInv'
    BY JobUnchanged DEF buildVars
  <1>20. EngineFollows
    BY <1>1, <1>3, ChainFacts DEF EngineFollows, headVars
  <1> QED
    BY <1>4, <1>5, <1>6, <1>7, <1>8, <1>9, <1>20 DEF IInv

LEMMA StartBuildingBlockStep ==
    ASSUME IInv, NEW b \in Sequenced, StartBuildingBlock(b) PROVE IInv' /\ EngineFollows
  <1>0. resetting # 0
    BY NeverReset DEF StartBuildingBlock
  <1>1. /\ safeHead \in L2Blocks /\ unsafeHead \in L2Blocks /\ finalized \in L2Blocks
        /\ b \in L2Blocks \ {L2Genesis}
    BY <1>0, HeadsAfterReset, EngineQueueAssumption, ChainFacts DEF EngineQueueAssumption, StartBuildingBlock
  <1> DEFINE fc == ForkchoiceState(unsafeHead, safeHead, finalized)
  <1>2. PICK s \in StartPayload(eng, fc, b) :
            /\ eng' = s.eng
            /\ \/ building' = [block |-> b, onto |-> unsafeHead, safe |-> FALSE] /\ jobLost' = FALSE
               \/ UNCHANGED buildVars
    BY DEF StartBuildingBlock
  <1>3. eng' \in EngineState /\ eng'.finalized \in {eng.finalized, finalized}
    <2>1. fc \in Forkchoices /\ fc.finalized = finalized
      BY <1>1 DEF ForkchoiceState, Forkchoices
    <2>2. eng \in EngineState
      BY DEF IInv, EngineInv
    <2> HIDE DEF fc
    <2> QED
      BY <1>1, <1>2, <2>1, <2>2, StartPayloadOutcomes
  <1>10. /\ UNCHANGED <<l1Vars, restartVars>> /\ UNCHANGED <<l1Origin, handed, resetting, finalizedL1,
                triedFinalizeAt, unsafePayloads>>
         /\ UNCHANGED <<halted, needForkchoiceUpdate, stray>>
         /\ UNCHANGED <<headVars, finalityData, origin, safeAttributes, stray>> /\ finalized' = finalized
    BY DEF StartBuildingBlock, pipelineVars, headVars, finalityVars, restartVars
  <1> HIDE DEF fc
  <1>4. L1Inv'
    BY <1>10, L1Unchanged
  <1>5. PipelineInv'
    BY <1>10 DEF IInv, PipelineInv
  <1>6. FlagsInv'
    <2>1. jobLost' \in BOOLEAN
      BY <1>2 DEF IInv, FlagsInv, buildVars
    <2> QED
      BY <1>10, <2>1 DEF IInv, FlagsInv
  <1>7. EngineInv'
    BY <1>1, <1>3, <1>10, EngineKept
  <1>8. HeadsInv' /\ AttributesInv'
    BY <1>10, HeadsUnchanged
  <1>9. JobInv'
    <2>1. [block |-> b, onto |-> unsafeHead, safe |-> FALSE]
            \in [block : L2Blocks \ {L2Genesis}, onto : L2Blocks, safe : BOOLEAN]
      BY <1>1
    <2> QED
      BY <2>1, <1>2, JobUnchanged DEF JobInv, buildVars
  <1>20. EngineFollows
    BY <1>1, <1>3, <1>10, ChainFacts DEF EngineFollows
  <1> QED
    BY <1>4, <1>5, <1>6, <1>7, <1>8, <1>9, <1>20 DEF IInv

LEMMA CompleteBuildingBlockStep == ASSUME IInv, CompleteBuildingBlock PROVE IInv' /\ EngineFollows
  <1>0. resetting # 0
    BY NeverReset DEF CompleteBuildingBlock
  <1> DEFINE fc == ForkchoiceState(NoBlock, safeHead, finalized)
  <1>1. /\ safeHead \in L2Blocks /\ unsafeHead \in L2Blocks \cup {NoBlock} /\ finalized \in L2Blocks
        /\ origin \in L1Blocks
        /\ (~stray => finalized \in L2Chain[safeHead]) /\ FinalityDataOf(finalityData, safeHead)
    BY <1>0, HeadsAfterReset
  <1>2. building.block \in L2Blocks
    BY DEF IInv, JobInv, CompleteBuildingBlock
  <1>3. PICK c \in ConfirmPayload(eng, fc, building.block, jobLost, FALSE) :
            /\ eng' = c.eng
            /\ unsafeHead' = IF c.res = InsertOK THEN building.block ELSE unsafeHead
    BY DEF CompleteBuildingBlock
  <1>14. /\ UNCHANGED <<l1Vars, restartVars>> /\ UNCHANGED <<l1Origin, handed, resetting, finalizedL1,
                triedFinalizeAt, unsafePayloads>>
         /\ UNCHANGED <<halted, needForkchoiceUpdate, stray>>
         /\ UNCHANGED <<finalized, safeHead, finalityData, origin, safeAttributes>>
         /\ building' = NoJob /\ jobLost' = FALSE
    BY DEF CompleteBuildingBlock, pipelineVars, finalityVars, restartVars
  <1> HIDE DEF fc
  <1>4. jobLost \in BOOLEAN
    BY DEF IInv, FlagsInv
  <1>5. fc.safe \in L2Blocks /\ fc.finalized \in L2Blocks /\ fc.finalized = finalized
    BY <1>1 DEF fc, ForkchoiceState
  <1>6. eng' \in EngineState /\ eng'.finalized \in {eng.finalized, finalized}
    <2>1. eng \in EngineState
      BY DEF IInv, EngineInv
    <2>2. c.eng \in EngineState /\ c.eng.finalized \in {eng.finalized, fc.finalized}
      BY <2>1, <1>2, <1>3, <1>4, <1>5, ConfirmPayloadOutcomes
    <2> QED
      BY <2>2, <1>3, <1>5
  <1>7. L1Inv'
    BY <1>14, L1Unchanged
  <1>8. PipelineInv'
    BY <1>14 DEF IInv, PipelineInv
  <1>9. FlagsInv'
    BY <1>14 DEF IInv, FlagsInv
  <1>10. EngineInv'
    BY <1>1, <1>6, <1>14, EngineKept
  <1>11. HeadsInv'
    <2>1. unsafeHead' \in L2Blocks \cup {NoBlock}
      BY <1>1, <1>2, <1>3
    <2>2. FinalityDataOf(finalityData', safeHead')
      BY <1>1, <1>14
    <2> QED
      BY <1>1, <1>14, <2>1, <2>2 DEF HeadsInv
  <1>12. AttributesInv'
    BY <1>14 DEF IInv, AttributesInv, NoAttributes
  <1>13. JobInv'
    BY <1>14 DEF JobInv, NoJob
  <1>20. EngineFollows
    BY <1>1, <1>6, <1>14, ChainFacts DEF EngineFollows
  <1> QED
    BY <1>7, <1>8, <1>9, <1>10, <1>11, <1>12, <1>13, <1>20 DEF IInv

(* A safe head moves up by one block. *)
LEMMA SafeHeadAdvances ==
    ASSUME IInv, resetting # 0, NEW b \in L2Blocks \ {L2Genesis}, L2Parent[b] = safeHead,
           safeHead' = b, finalized' = finalized, unsafeHead' \in L2Blocks \cup {NoBlock},
           origin' = origin, stray' = stray,
           finalityData' = PostProcessSafeL2(finalityData, origin, b),
           safeAttributes' = NoAttributes
    PROVE  HeadsInv' /\ AttributesInv'
  <1>1. /\ safeHead \in L2Blocks /\ origin \in L1Blocks /\ finalized \in L2Blocks
        /\ (~stray => finalized \in L2Chain[safeHead]) /\ FinalityDataOf(finalityData, safeHead)
    BY HeadsAfterReset
  <1>2. L2Chain[safeHead] \subseteq L2Chain[b]
    BY ChainFacts
  <1>3. FinalityDataOf(finalityData, b)
    BY <1>1, <1>2 DEF FinalityDataOf
  <1>4. FinalityDataOf(finalityData', safeHead')
    BY <1>1, <1>3, PostProcessKeeps
  <1>5. HeadsInv'
    BY <1>1, <1>2, <1>4 DEF HeadsInv
  <1> QED
    BY <1>5 DEF AttributesInv, NoAttributes

(* Forcing the next safe attributes *)
LEMMA ForceKeeps ==
    ASSUME IInv, resetting # 0, safeAttributes # NoAttributes, ForceNextSafeAttributes,
           origin' = origin, stray' = stray
    PROVE  /\ HeadsInv' /\ AttributesInv' /\ EngineInv' /\ EngineFollows /\ JobInv'
           /\ resetting' \in {0, resetting} /\ halted' \in BOOLEAN /\ jobLost' \in BOOLEAN
  <1> DEFINE b  == safeAttributes.block
             fc == ForkchoiceState(safeHead, safeHead, finalized)
             job == [block |-> b, onto |-> safeHead, safe |-> TRUE]
  <1>1. /\ safeHead \in L2Blocks /\ unsafeHead \in L2Blocks \cup {NoBlock} /\ finalized \in L2Blocks
        /\ origin \in L1Blocks
        /\ (~stray => finalized \in L2Chain[safeHead]) /\ FinalityDataOf(finalityData, safeHead)
    BY HeadsAfterReset
  <1>2. b \in L2Blocks \ {L2Genesis} /\ L2Parent[b] = safeHead
    BY DEF IInv, AttributesInv
  <1>3. PICK s \in StartPayload(eng, fc, b) :
        \E c \in IF s.res = InsertOK THEN ConfirmPayload(s.eng, fc, b, FALSE, TRUE) ELSE {s} :
        /\ eng' = c.eng
        /\ \/ /\ safeHead' = b /\ unsafeHead' = b
              /\ finalityData' = PostProcessSafeL2(finalityData, origin, b)
              /\ building' = NoJob /\ jobLost' = FALSE
              /\ safeAttributes' = NoAttributes
              /\ UNCHANGED <<resetting, halted, finalized>>
           \/ /\ (building' = job /\ jobLost' = FALSE) \/ UNCHANGED buildVars
              /\ UNCHANGED <<resetting, halted, headVars, finalityData, safeAttributes>>
           \/ /\ building' = NoJob /\ jobLost' = FALSE
              /\ resetting' = 0
              /\ UNCHANGED <<halted, headVars, finalityData, safeAttributes>>
           \/ /\ building' = NoJob /\ jobLost' = FALSE
              /\ halted' = (b \in DepositOnly)
              /\ safeAttributes' = safeAttributes \/ safeAttributes' = NoAttributes
              /\ UNCHANGED <<resetting, headVars, finalityData>>
    BY DEF ForceNextSafeAttributes, RequestReset
  <1>4. eng' \in EngineState /\ eng'.finalized \in {eng.finalized, finalized}
    <2>1. eng \in EngineState
      BY DEF IInv, EngineInv
    <2>2. fc \in Forkchoices /\ fc.finalized = finalized /\ fc.safe = safeHead
      BY <1>1 DEF Forkchoices, ForkchoiceState
    <2> HIDE DEF fc, b
    <2>3. s.eng \in EngineState /\ s.eng.finalized \in {eng.finalized, finalized}
      BY <2>1, <2>2, <1>2, StartPayloadOutcomes
    <2>4. eng' = s.eng \/ \E c \in ConfirmPayload(s.eng, fc, b, FALSE, TRUE) : eng' = c.eng
      BY <1>3
    <2>5. ASSUME NEW c \in ConfirmPayload(s.eng, fc, b, FALSE, TRUE)
          PROVE  c.eng \in EngineState /\ c.eng.finalized \in {s.eng.finalized, finalized}
      <3>1. fc.safe \in L2Blocks /\ fc.finalized \in L2Blocks /\ b \in L2Blocks
        BY <2>2, <1>1, <1>2
      <3> QED
        BY <2>2, <2>3, <2>5, <3>1, ConfirmPayloadOutcomes
    <2> QED
      BY <2>3, <2>4, <2>5
  <1>5. EngineInv'
    BY <1>1, <1>3, <1>4, EngineKept DEF headVars
  <1>6. JobInv'
    <2>1. job \in [block : L2Blocks \ {L2Genesis}, onto : L2Blocks, safe : BOOLEAN]
      BY <1>1, <1>2
    <2>2. building' \in {NoJob, job, building}
      BY <1>3 DEF buildVars
    <2> HIDE DEF job
    <2> QED
      BY <2>1, <2>2 DEF IInv, JobInv, NoJob
  <1>7. resetting' \in {0, resetting}
    BY <1>3
  <1>8. halted' \in BOOLEAN /\ jobLost' \in BOOLEAN
    <2>1. halted' = halted \/ halted' = (b \in DepositOnly)
      BY <1>3, Zenon
    <2>2. jobLost' = FALSE \/ jobLost' = jobLost
      BY <1>3, Zenon DEF buildVars
    <2>3. halted \in BOOLEAN /\ jobLost \in BOOLEAN
      BY DEF IInv, FlagsInv
    <2>4. (b \in DepositOnly) \in BOOLEAN
      OBVIOUS
    <2> QED
      BY <2>1, <2>2, <2>3, <2>4, Zenon
  <1>9. HeadsInv' /\ AttributesInv'
    <2>1. CASE /\ safeHead' = b /\ unsafeHead' = b /\ finalized' = finalized
               /\ finalityData' = PostProcessSafeL2(finalityData, origin, b)
               /\ safeAttributes' = NoAttributes
      BY <2>1, <1>2, SafeHeadAdvances
    <2>2. CASE UNCHANGED <<headVars, finalityData>> /\ safeAttributes' = safeAttributes
      BY <2>2, <1>7, HeadsUnchanged
    <2>3. CASE UNCHANGED <<headVars, finalityData>> /\ safeAttributes' = NoAttributes
      <3>1. HeadsInv'
        BY <1>1, <2>3 DEF HeadsInv, headVars
      <3> QED
        BY <3>1, <2>3 DEF AttributesInv, NoAttributes
    <2> QED
      BY <1>3, <2>1, <2>2, <2>3
  <1>10. EngineFollows
    BY <1>1, <1>3, <1>4, ChainFacts DEF EngineFollows, headVars
  <1> QED
    BY <1>5, <1>6, <1>7, <1>8, <1>9, <1>10

LEMMA TryNextSafeAttributesStep == ASSUME IInv, TryNextSafeAttributes PROVE IInv' /\ EngineFollows
  <1> DEFINE Goal == /\ HeadsInv' /\ AttributesInv' /\ EngineInv' /\ EngineFollows /\ JobInv'
                     /\ resetting' \in {0, resetting} /\ halted' \in BOOLEAN /\ jobLost' \in BOOLEAN
                     /\ needForkchoiceUpdate' \in BOOLEAN
  <1>1. /\ resetting = 2 /\ safeAttributes # NoAttributes
        /\ safeAttributes.parent = safeHead
        /\ UNCHANGED <<l1Vars, l1Origin, handed, finalizedL1, triedFinalizeAt, origin,
                       unsafePayloads, restartVars>>
        /\ stray' = stray
    BY DEF TryNextSafeAttributes, Stepping, IInv, AttributesInv, restartVars
  <1>2. /\ safeHead \in L2Blocks /\ unsafeHead \in L2Blocks \cup {NoBlock} /\ finalized \in L2Blocks
        /\ origin \in L1Blocks
        /\ (~stray => finalized \in L2Chain[safeHead]) /\ FinalityDataOf(finalityData, safeHead)
    <2>1. resetting # 0
      BY <1>1
    <2> QED
      BY <2>1, HeadsAfterReset
  <1>3. halted \in BOOLEAN /\ jobLost \in BOOLEAN /\ needForkchoiceUpdate \in BOOLEAN
    BY DEF IInv, FlagsInv
  <1>4. ASSUME ForceNextSafeAttributes, UNCHANGED needForkchoiceUpdate PROVE Goal
    BY <1>1, <1>3, <1>4, ForceKeeps
  <1>5. ASSUME RequestReset, UNCHANGED <<eng, halted, headVars, buildVars, needForkchoiceUpdate,
                                         finalityData, safeAttributes>>
        PROVE  Goal
    <2>1. HeadsInv' /\ AttributesInv'
      BY <1>1, <1>5, HeadsUnchanged
    <2>2. EngineInv'
      BY <1>1, <1>5 DEF IInv, EngineInv, EngineState, headVars
    <2>3. JobInv'
      BY <1>5, JobUnchanged DEF buildVars
    <2> QED
      BY <1>3, <1>5, <2>1, <2>2, <2>3 DEF RequestReset, buildVars, EngineFollows
  <1>6. ASSUME NEW p, p = safeAttributes.block,
               safeHead' = p, needForkchoiceUpdate' = TRUE,
               finalityData' = PostProcessSafeL2(finalityData, origin, p),
               safeAttributes' = NoAttributes,
               UNCHANGED <<eng, resetting, halted, finalized, unsafeHead, buildVars>>
        PROVE  Goal
    <2>1. p \in L2Blocks \ {L2Genesis} /\ L2Parent[p] = safeHead
      BY <1>1, <1>6 DEF IInv, AttributesInv
    <2>2. HeadsInv' /\ AttributesInv'
      <3>1. resetting # 0 /\ origin' = origin
        BY <1>1
      <3>2. unsafeHead' = unsafeHead /\ finalized' = finalized
        BY <1>6
      <3>3. unsafeHead' \in L2Blocks \cup {NoBlock}
        BY <1>2, <3>2
      <3> QED
        BY <1>1, <1>6, <2>1, <3>1, <3>2, <3>3, SafeHeadAdvances
    <2>3. EngineInv'
      BY <1>1, <1>6 DEF IInv, EngineInv, EngineState
    <2>4. JobInv'
      BY <1>6, JobUnchanged DEF buildVars
    <2> QED
      BY <1>3, <1>6, <2>2, <2>3, <2>4 DEF buildVars, EngineFollows
  <1>7. ASSUME unsafeHead' = safeHead,
               UNCHANGED <<eng, resetting, halted, finalized, safeHead, buildVars,
                           needForkchoiceUpdate, finalityData, safeAttributes>>
        PROVE  Goal
    <2>1. HeadsInv'
      BY <1>1, <1>2, <1>7 DEF HeadsInv
    <2>2. AttributesInv'
      BY <1>7 DEF IInv, AttributesInv, NoAttributes
    <2>3. EngineInv'
      BY <1>1, <1>7 DEF IInv, EngineInv, EngineState
    <2>4. JobInv'
      BY <1>7, JobUnchanged DEF buildVars
    <2> QED
      BY <1>3, <1>7, <2>1, <2>2, <2>3, <2>4 DEF buildVars, EngineFollows
  <1>8. Goal
    <2>1. ASSUME ConsolidateNextSafeAttributes PROVE Goal
      <3> DEFINE p == L2At(eng.head, L2Number[safeHead] + 1)
      <3>1. CASE p = NoBlock
        <4>1. RequestReset /\ UNCHANGED <<eng, halted, headVars, buildVars, needForkchoiceUpdate,
                                          finalityData, safeAttributes>>
          BY <2>1, <3>1 DEF ConsolidateNextSafeAttributes
        <4> QED
          BY <4>1, <1>5
      <3>2. CASE p # NoBlock /\ p = safeAttributes.block
        <4>1. /\ safeHead' = p /\ needForkchoiceUpdate' = TRUE
              /\ finalityData' = PostProcessSafeL2(finalityData, origin, p)
              /\ safeAttributes' = NoAttributes
              /\ UNCHANGED <<eng, resetting, halted, finalized, unsafeHead, buildVars>>
          BY <2>1, <3>2 DEF ConsolidateNextSafeAttributes
        <4> QED
          BY <3>2, <4>1, <1>6
      <3>3. CASE p # NoBlock /\ p # safeAttributes.block
        <4>1. ForceNextSafeAttributes /\ UNCHANGED needForkchoiceUpdate
          BY <2>1, <3>3 DEF ConsolidateNextSafeAttributes
        <4> QED
          BY <4>1, <1>4
      <3> QED
        BY <3>1, <3>2, <3>3
    <2>2. \/ ConsolidateNextSafeAttributes
          \/ ForceNextSafeAttributes /\ UNCHANGED needForkchoiceUpdate
          \/ /\ unsafeHead' = safeHead
             /\ UNCHANGED <<eng, resetting, halted, finalized, safeHead, buildVars,
                            needForkchoiceUpdate, finalityData, safeAttributes>>
      BY <1>1 DEF TryNextSafeAttributes
    <2> HIDE DEF Goal
    <2> QED
      BY <2>1, <2>2, <1>4, <1>7
  <1>9. L1Inv'
    BY <1>1, L1Unchanged
  <1>10. PipelineInv'
    BY <1>1, <1>8 DEF IInv, PipelineInv
  <1>11. FlagsInv'
    BY <1>1, <1>8 DEF IInv, FlagsInv
  <1> QED
    BY <1>8, <1>9, <1>10, <1>11 DEF IInv

LEMMA AdvanceKeeps ==
    ASSUME IInv, l1Origin \in L1Blocks, AdvanceL1Block
    PROVE  l1Origin' \in L1Blocks /\ resetting' \in {0, resetting}
  <1>1. L1At(l1Head, L1Number[l1Origin] + 1) \in L1Blocks \cup {NoBlock}
    <2>1. l1Head \in L1Blocks /\ L1Number[l1Origin] + 1 \in Nat
      <3>1. l1Head \in L1Blocks
        BY DEF IInv, L1Inv
      <3>2. L1Number[l1Origin] \in Nat
        BY L1Facts
      <3> QED
        BY <3>1, <3>2
    <2>2. L1Chain[l1Head] \subseteq L1Blocks
      BY <2>1, L1Facts
    <2> QED
      BY <2>1, <2>2, AtInChain
  <1> QED
    BY <1>1 DEF AdvanceL1Block, RequestReset

LEMMA UnsafePayloadKeeps ==
    ASSUME IInv, l1Origin \in L1Blocks, safeHead \in L2Blocks, unsafeHead \in L2Blocks \cup {NoBlock},
           finalized' \in L2Blocks,
           NEW first \in unsafePayloads, TryNextUnsafePayload(first)
    PROVE  /\ l1Origin' \in L1Blocks /\ resetting' \in {0, resetting}
           /\ eng' \in EngineState /\ eng'.finalized \in {eng.finalized, finalized'}
           /\ unsafeHead' \in L2Blocks \cup {NoBlock} /\ unsafePayloads' \subseteq L2Blocks
  <1> DEFINE Popped == unsafePayloads' = unsafePayloads \ {first}
             fc == ForkchoiceState(first, safeHead, finalized')
  <1>1. eng \in EngineState /\ unsafePayloads \subseteq L2Blocks /\ first \in L2Blocks
    BY DEF IInv, EngineInv, PipelineInv
  <1>2. CASE L2Number[first] <= L2Number[safeHead]
    BY <1>1, <1>2 DEF TryNextUnsafePayload
  <1>3. CASE ~(L2Number[first] <= L2Number[safeHead]) /\ L2Parent[first] # unsafeHead
    BY <1>1, <1>3, AdvanceKeeps DEF TryNextUnsafePayload
  <1>4. CASE ~(L2Number[first] <= L2Number[safeHead]) /\ L2Parent[first] = unsafeHead
    <2>1. PICK n \in NewPayload(eng, first) :
          \E o \in IF n.res = "valid" THEN ForkchoiceUpdate(n.eng, fc) ELSE {n} :
            /\ eng' = o.eng
            /\ unsafeHead' \in {first, unsafeHead}
            /\ Popped \/ UNCHANGED unsafePayloads
            /\ resetting' \in {0, resetting}
            /\ UNCHANGED l1Origin
      BY <1>4 DEF TryNextUnsafePayload, RequestReset
    <2>2. fc \in Forkchoices /\ fc.finalized = finalized'
      BY <1>1 DEF ForkchoiceState, Forkchoices
    <2>3. n.eng \in EngineState /\ n.eng.finalized = eng.finalized
      BY <1>1, NewPayloadOutcomes
    <2> HIDE DEF fc
    <2>4. eng' = n.eng \/ \E o \in ForkchoiceUpdate(n.eng, fc) : eng' = o.eng
      BY <2>1
    <2>5. eng' \in EngineState /\ eng'.finalized \in {eng.finalized, finalized'}
      BY <2>2, <2>3, <2>4, ForkchoiceOutcomes
    <2> QED
      BY <1>1, <2>1, <2>5
  <1> QED
    BY <1>2, <1>3, <1>4

LEMMA DeriveStepStep == ASSUME IInv, DeriveStep PROVE IInv' /\ EngineFollows
  <1>1. resetting = 2 /\ l1Origin \in L1Blocks
    BY DEF DeriveStep, Stepping, IInv, PipelineInv
  <1>2. /\ safeHead \in L2Blocks /\ unsafeHead \in L2Blocks \cup {NoBlock} /\ finalized \in L2Blocks
        /\ (~stray => finalized \in L2Chain[safeHead]) /\ FinalityDataOf(finalityData, safeHead)
    BY <1>1, HeadsAfterReset
  <1>3. /\ safeAttributes = NoAttributes
        /\ origin' = l1Origin
        /\ finalityData' = PostProcessSafeL2(finalityData, l1Origin, safeHead)
        /\ UNCHANGED <<l1Vars, halted, safeHead, buildVars, finalizedL1, restartVars, stray>>
    BY DEF DeriveStep, restartVars
  <1>4. FinalityDataOf(finalityData', safeHead)
    BY <1>1, <1>2, <1>3, PostProcessKeeps
  <1>5. \/ UNCHANGED <<triedFinalizeAt, finalized, needForkchoiceUpdate>>
        \/ FinalizesPast /\ TryFinalizeL2(finalityData', finalizedL1, l1Origin)
    BY DEF DeriveStep
  <1>6. /\ finalized' \in L2Blocks
        /\ ~stray => finalized' \in L2Chain[safeHead] /\ finalized \in L2Chain[finalized']
        /\ triedFinalizeAt' \in L1Blocks \cup {NoBlock}
        /\ needForkchoiceUpdate' \in BOOLEAN
    <2>1. CASE UNCHANGED <<triedFinalizeAt, finalized, needForkchoiceUpdate>>
      <3>1. needForkchoiceUpdate' \in BOOLEAN
        BY <2>1 DEF IInv, FlagsInv
      <3> QED
        BY <2>1, <3>1, <1>2, ChainFacts DEF IInv, PipelineInv
    <2>2. CASE FinalizesPast /\ TryFinalizeL2(finalityData', finalizedL1, l1Origin)
      <3>1. finalizedL1 \in L1Blocks
        BY <2>2 DEF FinalizesPast, IInv, PipelineInv
      <3> QED
        BY <2>2, <3>1, <1>1, <1>2, <1>4, TryFinalizeExtends
    <2> QED
      BY <1>5, <2>1, <2>2
  <1>7. finalized' \in L2Blocks /\ (~stray => L2Chain[finalized] \subseteq L2Chain[finalized'])
    BY <1>2, <1>6, ChainFacts
  <1> DEFINE Quiet == UNCHANGED <<eng, l1Origin, unsafeHead, unsafePayloads>> /\ resetting' \in {0, resetting}
  <1>8. \/ Quiet /\ UNCHANGED <<handed, safeAttributes>>
        \/ /\ Quiet
           /\ \E b \in NextAttributes : /\ safeAttributes' = [block |-> b, parent |-> safeHead]
                                        /\ handed' = handed \cup {b}
        \/ /\ UNCHANGED <<handed, safeAttributes>>
           /\ \/ AdvanceL1Block /\ UNCHANGED <<eng, unsafeHead, unsafePayloads>>
              \/ \E first \in LowestPayloads : TryNextUnsafePayload(first)
    BY DEF DeriveStep, RequestReset
  <1>9. /\ l1Origin' \in L1Blocks /\ resetting' \in {0, resetting}
        /\ eng' \in EngineState /\ eng'.finalized \in {eng.finalized, finalized'}
        /\ unsafeHead' \in L2Blocks \cup {NoBlock} /\ unsafePayloads' \subseteq L2Blocks
    <2>1. CASE Quiet
      BY <2>1, <1>1, <1>2 DEF IInv, PipelineInv, EngineInv
    <2>2. CASE AdvanceL1Block /\ UNCHANGED <<eng, unsafeHead, unsafePayloads>>
      BY <2>2, <1>1, <1>2, AdvanceKeeps DEF IInv, PipelineInv, EngineInv
    <2>3. CASE \E first \in LowestPayloads : TryNextUnsafePayload(first)
      BY <2>3, <1>1, <1>2, <1>7, UnsafePayloadKeeps DEF LowestPayloads
    <2> QED
      BY <1>8, <2>1, <2>2, <2>3
  <1>10. L1Inv'
    BY <1>3, L1Unchanged
  <1>11. handed' \subseteq L2Blocks
    <2>1. handed \subseteq L2Blocks
      BY DEF IInv, PipelineInv
    <2>2. NextAttributes \subseteq L2Blocks
      BY DEF NextAttributes, Available
    <2>3. handed' = handed \/ \E b \in NextAttributes : handed' = handed \cup {b}
      BY <1>8
    <2> QED
      BY <2>1, <2>2, <2>3
  <1>12. PipelineInv'
    <2>1. l1Origin' # NoBlock
      BY <1>9, L1Facts
    <2>2. finalizedL1' \in L1Blocks \cup {NoBlock}
      BY <1>3 DEF IInv, PipelineInv
    <2> QED
      BY <1>1, <1>6, <1>9, <1>11, <2>1, <2>2 DEF PipelineInv
  <1>13. FlagsInv'
    BY <1>3, <1>6 DEF IInv, FlagsInv, buildVars
  <1>14. EngineInv'
    <2>1. finalized # NoBlock /\ finalized' \in L2Chain[finalized']
      BY <1>2, <1>7, ChainFacts
    <2>2. eng.finalized # NoBlock /\ ~stray => eng.finalized \in L2Chain[finalized']
      BY <1>7, <2>1 DEF IInv, EngineInv
    <2> QED
      BY <1>3, <1>9, <2>1, <2>2 DEF EngineInv
  <1>15. HeadsInv'
    BY <1>1, <1>2, <1>3, <1>4, <1>6, <1>9 DEF HeadsInv
  <1>16. AttributesInv'
    <2>1. \/ safeAttributes' = NoAttributes
          \/ \E b \in NextAttributes : safeAttributes' = [block |-> b, parent |-> safeHead]
      BY <1>3, <1>8
    <2>2. \A b \in NextAttributes : b \in L2Blocks \ {L2Genesis} /\ L2Parent[b] = safeHead
      BY DEF NextAttributes, Available
    <2>3. CASE safeAttributes' = NoAttributes
      BY <2>3 DEF AttributesInv, NoAttributes
    <2>4. ASSUME NEW b \in NextAttributes, safeAttributes' = [block |-> b, parent |-> safeHead]
          PROVE  AttributesInv'
      <3>1. b \in L2Blocks \ {L2Genesis} /\ L2Parent[b] = safeHead
        BY <2>2
      <3>2. safeHead' = safeHead
        BY <1>3
      <3> QED
        BY <1>2, <2>4, <3>1, <3>2 DEF AttributesInv
    <2> QED
      BY <2>1, <2>3, <2>4
  <1>17. JobInv'
    BY <1>3, JobUnchanged DEF buildVars
  <1>20. EngineFollows
    BY <1>2, <1>6, <1>7, <1>9, ChainFacts DEF EngineFollows, headVars
  <1> QED
    BY <1>10, <1>12, <1>13, <1>14, <1>15, <1>16, <1>17, <1>20 DEF IInv

-----------------------------------------------------------------------------
(* The theorems *)

LEMMA StutterKeeps == ASSUME IInv, UNCHANGED vars PROVE IInv'
  <1>1. UNCHANGED nodeVars /\ UNCHANGED eng /\ UNCHANGED <<l1Vars, restartVars, stray>>
    BY DEF vars, nodeVars, restartVars
  <1> QED
    BY <1>1, NodeUnchanged, L1Unchanged DEF IInv

LEMMA NextKeeps == ASSUME IInv, Next PROVE IInv'
  BY L1Steps, RestartSteps, ResetStagesStep, ResetEngineQueueStep, ResetRequestSteps,
     AddUnsafePayloadStep, FinalizeStep, TryUpdateEngineStep, StartBuildingBlockStep,
     CompleteBuildingBlockStep, TryNextSafeAttributesStep, DeriveStepStep
  DEF Next

LEMMA Invariance == Spec => []IInv
  <1>1. IInv /\ [Next]_vars => IInv'
    BY NextKeeps, StutterKeeps
  <1> QED
    BY <1>1, InitIInv, PTL DEF Spec

(* Every variable keeps its type, and the heads exist once reset. *)
THEOREM TypeInvariant == Spec => []TypeOK
  BY Invariance, IInvTypeOK, PTL

(* The attributes in the queue are always for the current safe head, so    *)
(* the staleness check of tryNextSafeAttributes never finds any.           *)
THEOREM AttributesInvariant == Spec => []AttributesCurrent
  <1>1. IInv => AttributesCurrent
    BY DEF IInv, AttributesInv, AttributesCurrent
  <1> QED
    BY <1>1, Invariance, PTL

(* The finalized block is on the safe chain: no reorg, restart or failed   *)
(* call makes the node finalize a block that is not safe, and neither does *)
(* a reset that begins from an engine whose head extends its finalized     *)
(* block.                                                                  *)
THEOREM FinalizedInvariant == Spec => []FinalizedWithinSafe
  <1>1. IInv => FinalizedWithinSafe
    <2> SUFFICES ASSUME IInv, resetting > 0, ~stray PROVE finalized \in L2Chain[safeHead]
      BY DEF FinalizedWithinSafe
    <2>1. resetting # 0
      BY DEF IInv, PipelineInv
    <2> QED
      BY <2>1, HeadsAfterReset
  <1> QED
    BY <1>1, Invariance, PTL

(* Only a restart of the engine makes it leave a finalized chain. *)
LEMMA NextFollows ==
    ASSUME IInv, Next, engineRestarts' = engineRestarts
    PROVE  EngineFollows
  <1>1. CASE UNCHANGED eng
    BY <1>1 DEF EngineFollows
  <1>2. ~EngineRestarts
    <2>1. engineRestarts \in Nat
      BY EngineQueueAssumption DEF IInv, L1Inv, EngineQueueAssumption
    <2>2. EngineRestarts => engineRestarts' = engineRestarts + 1
      BY DEF EngineRestarts
    <2>3. engineRestarts # engineRestarts + 1
      BY <2>1
    <2> QED
      BY <2>2, <2>3
  <1>3. CASE \/ ResetEngineQueue \/ ResetStages \/ OriginConflict \/ SequencerReset
             \/ L1Extends \/ L1Reorgs \/ L1Finalizes \/ NodeRestarts
             \/ (\E b \in Signalled : Finalize(b)) \/ (\E b \in Gossip : AddUnsafePayload(b))
    <2>1. UNCHANGED eng
      BY <1>3 DEF ResetEngineQueue, ResetStages, OriginConflict, SequencerReset, L1Extends,
                  L1Reorgs, L1Finalizes, NodeRestarts, Finalize, AddUnsafePayload
    <2> QED
      BY <1>1, <2>1
  <1> QED
    BY <1>2, <1>3, TryUpdateEngineStep, StartBuildingBlockStep, CompleteBuildingBlockStep,
       TryNextSafeAttributesStep, DeriveStepStep
    DEF Next

THEOREM EngineFinality == Spec => EngineFinalityStable
  <1> DEFINE A == eng.finalized # NoBlock /\ ~stray /\ engineRestarts' = engineRestarts
                    => eng'.finalized # NoBlock /\ eng.finalized \in L2Chain[eng'.finalized]
  <1>1. ASSUME IInv, [Next]_vars PROVE A
    <2> SUFFICES ASSUME eng.finalized # NoBlock, ~stray, engineRestarts' = engineRestarts
                 PROVE  eng'.finalized # NoBlock /\ eng.finalized \in L2Chain[eng'.finalized]
      OBVIOUS
    <2>1. eng.finalized \in L2Blocks /\ (finalized # NoBlock => eng.finalized \in L2Chain[finalized])
      BY <1>1 DEF IInv, EngineInv, EngineState
    <2>2. EngineFollows
      BY <1>1, NextFollows DEF vars, EngineFollows
    <2>3. CASE eng'.finalized = eng.finalized
      BY <2>1, <2>3, ChainFacts
    <2>4. CASE eng'.finalized # eng.finalized
      <3>1. /\ finalized \in L2Blocks /\ finalized' \in L2Blocks
            /\ finalized \in L2Chain[finalized'] /\ eng'.finalized = finalized'
        BY <2>2, <2>4 DEF EngineFollows
      <3>2. eng.finalized \in L2Chain[finalized] /\ L2Chain[finalized] \subseteq L2Chain[finalized']
        BY <2>1, <3>1, ChainFacts
      <3> QED
        BY <3>1, <3>2, ChainFacts
    <2> QED
      BY <2>3, <2>4
  <1>2. IInv /\ [Next]_vars => [A]_vars
    BY <1>1
  <1> QED
    BY <1>2, Invariance, PTL DEF Spec, EngineFinalityStable
=============================================================================
