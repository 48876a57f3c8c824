-------------------------- MODULE BatchQueueProofs --------------------------
(***************************************************************************)
(* The rules of the derived chain, for every L1 chain, whatever batches    *)
(* are posted to it, for every block time, sequence window and drift.      *)
(***************************************************************************)
EXTENDS OriginSelector, WellFoundedInduction, TLAPS

(* A set of natural numbers that is not empty has a least element. *)
LEMMA LeastOf ==
    ASSUME NEW S \in SUBSET Nat, S # {}
    PROVE  LET first == CHOOSE i \in S : \A j \in S : i <= j
           IN  first \in S /\ \A j \in S : first <= j
  <1> DEFINE R == OpToRel(<, Nat)
  <1>1. IsWellFoundedOn(R, Nat)
    BY NatLessThanWellFounded
  <1>2. \E x \in S : \A y \in S : ~(<<y, x>> \in R)
    <2> HIDE DEF R
    <2> QED BY <1>1, WFMin
  <1>3. \A x \in S : \A y \in S : <<y, x>> \in R <=> y < x
    BY DEF OpToRel
  <1>4. \E x \in S : \A y \in S : x <= y
    <2>1. PICK x \in S : \A y \in S : ~(<<y, x>> \in R)
      BY <1>2
    <2>2. \A y \in S : ~(y < x)
      BY <1>3, <2>1
    <2> QED
      BY <2>2
  <1> QED
    BY <1>4

-----------------------------------------------------------------------------
(* The inductive invariant *)

(* L1 blocks as the batch queue keeps them: consecutive, up to the last *)
Consecutive(blocks, last) ==
    /\ blocks \in Seq(0 .. MaxL1)
    /\ \A i \in 1 .. Len(blocks) - 1 : blocks[i + 1] = blocks[i] + 1
    /\ blocks # <<>> => blocks[Len(blocks)] = last

Candidates == [batch : Batches, inclusion : Nat]
Buffer(buffered) == \A t \in DOMAIN buffered : buffered[t] \in Seq(Candidates)

(* A batch that may become a block, as far as its own fields tell *)
WithinDrift(b) ==
    /\ b \in Batches
    /\ b.epoch <= MaxL1
    /\ b.txs # "none" => b.time <= L1Time[b.epoch] + MaxSequencerDrift

SafeBlocks == {b \in Blocks : b.origin <= MaxL1}

SafeChain ==
    /\ safe \in Seq(SafeBlocks)
    /\ Len(safe) >= 1 /\ safe[1] = Genesis

Stages ==
    /\ l1 \in Chains
    /\ origin \in 0 .. MaxL1 /\ bqOrigin \in Nat /\ origin \in {bqOrigin, bqOrigin + 1}
    /\ pending \in Seq(Batches)
    /\ Consecutive(l1Blocks, bqOrigin)
    /\ Buffer(batches)

(* A batch waits in the attributes queue, or its attributes in the engine  *)
(* queue, for the safe head that they were checked against.                *)
Waiting ==
    /\ batch # None => WithinDrift(batch)
    /\ safeAttributes # None => WithinDrift(safeAttributes) /\ Consistent(safeAttributes)

IInv == Stages /\ SafeChain /\ Waiting /\ ChainRules

-----------------------------------------------------------------------------
(* Helpers *)

LEMMA Config ==
    /\ MaxL1 \in Nat /\ BlockTime \in Nat /\ SeqWindowSize \in Nat
    /\ MaxSequencerDrift \in Nat /\ ChannelTimeout \in Nat
    /\ L1Time \in [0 .. MaxL1 -> Nat]
  BY ConfigAssumption DEF ConfigAssumption

LEMMA PostedBatches == ASSUME NEW c \in Chains, NEW n \in 0 .. MaxL1 PROVE c[n] \in Seq(Batches)
  BY ChainsAssumption DEF ChainsAssumption

(* The map of buffered batches keeps its type. *)
LEMMA BufferKeeps ==
    ASSUME NEW buffered, Buffer(buffered), NEW t
    PROVE  /\ AtTime(buffered, t) \in Seq(Candidates)
           /\ Buffer(Without(buffered, t))
           /\ \A cs \in Seq(Candidates) : Buffer(With(buffered, t, cs))
  BY DEF Buffer, AtTime, With, Without

(* Dropping the first of consecutive blocks leaves consecutive blocks. *)
LEMMA TailConsecutive ==
    ASSUME NEW blocks, NEW last, Consecutive(blocks, last), blocks # <<>>
    PROVE  Consecutive(Tail(blocks), last)
  <1>1. blocks \in Seq(0 .. MaxL1) /\ Len(blocks) \in Nat /\ Len(blocks) >= 1
    BY DEF Consecutive
  <1>2. /\ Tail(blocks) \in Seq(0 .. MaxL1) /\ Len(Tail(blocks)) = Len(blocks) - 1
        /\ \A i \in 1 .. Len(blocks) - 1 : Tail(blocks)[i] = blocks[i + 1]
    BY <1>1
  <1> QED
    BY <1>1, <1>2 DEF Consecutive

(* What CheckBatch accepts is for the first L1 block or the known one      *)
(* after it, and within the drift unless it is empty.                      *)
LEMMA AcceptedWithinDrift ==
    ASSUME NEW blocks, NEW last, Consecutive(blocks, last), NEW chain, NEW b \in Batches,
           NEW inclusion, CheckBatch(blocks, chain, b, inclusion) = "accept"
    PROVE  WithinDrift(b)
  <1>1. blocks # <<>> /\ CheckEpoch(b, blocks) = "accept"
    BY DEF CheckBatch
  <1>2. b.epoch \in Nat /\ b.time \in Nat
    BY DEF Batches
  <1>3. blocks \in Seq(0 .. MaxL1) /\ Len(blocks) \in Nat /\ Len(blocks) >= 1
    BY <1>1 DEF Consecutive
  <1>4. \/ b.epoch = Head(blocks)
        \/ b.epoch = Head(blocks) + 1 /\ Len(blocks) >= 2
    BY <1>1, <1>3 DEF CheckEpoch
  <1>5. b.epoch \in 0 .. MaxL1
    <2>1. Head(blocks) = blocks[1] /\ blocks[1] \in 0 .. MaxL1
      BY <1>3, Config
    <2>2. Len(blocks) >= 2 => blocks[2] = blocks[1] + 1 /\ blocks[2] \in 0 .. MaxL1
      <3> SUFFICES ASSUME Len(blocks) >= 2 PROVE blocks[2] = blocks[1] + 1 /\ blocks[2] \in 0 .. MaxL1
        OBVIOUS
      <3>1. 1 \in 1 .. Len(blocks) - 1 /\ 2 \in 1 .. Len(blocks)
        BY <1>3
      <3>2. blocks[1 + 1] = blocks[1] + 1
        BY <3>1 DEF Consecutive
      <3>3. blocks[2] \in 0 .. MaxL1
        BY <1>3, <3>1, Config
      <3> QED
        BY <3>2, <3>3
    <2> QED
      BY <1>2, <1>4, <2>1, <2>2, Config
  <1>6. \E next : CheckTime(b, Head(blocks), next, b.epoch) = "accept"
    BY <1>1 DEF CheckEpoch
  <1>7. b.txs # "none" => b.time <= L1Time[b.epoch] + MaxSequencerDrift
    BY <1>6 DEF CheckTime
  <1> QED
    BY <1>5, <1>7, Config DEF WithinDrift

LEMMA SafeFacts ==
    ASSUME SafeChain
    PROVE  /\ safe \in Seq(Blocks) /\ Len(safe) \in Nat /\ Len(safe) >= 1
           /\ Last(safe) = safe[Len(safe)] /\ Last(safe) \in SafeBlocks
           /\ NextTime(safe) \in Nat
  <1>1. safe \in Seq(SafeBlocks) /\ Len(safe) \in Nat /\ Len(safe) >= 1
    BY DEF SafeChain
  <1>2. SafeBlocks \subseteq Blocks
    BY DEF SafeBlocks
  <1>3. safe \in Seq(Blocks)
    BY <1>1, <1>2
  <1>4. Last(safe) = safe[Len(safe)] /\ Last(safe) \in SafeBlocks
    BY <1>1 DEF Last
  <1>5. Last(safe).time \in Nat
    BY <1>4 DEF SafeBlocks, Blocks
  <1> QED
    BY <1>1, <1>3, <1>4, <1>5, Config DEF NextTime

(* A generated batch is empty, for the first of the L1 blocks. *)
LEMMA EmptyWithinDrift ==
    ASSUME NEW last, NEW blocks, Consecutive(blocks, last), blocks # <<>>, SafeChain
    PROVE  WithinDrift(EmptyBatch(Head(blocks)))
  <1>1. Head(blocks) \in 0 .. MaxL1
    <2>1. blocks \in Seq(0 .. MaxL1) /\ Len(blocks) \in Nat /\ Len(blocks) >= 1
      BY DEF Consecutive
    <2> QED
      BY <2>1, Config
  <1>2. safe \in Seq(Blocks) /\ NextTime(safe) \in Nat
    BY SafeFacts
  <1> QED
    BY <1>1, <1>2, Config DEF EmptyBatch, WithinDrift, Batches, Txs

(* What deriveNextBatch returns, for blocks and batches as the queue keeps *)
(* them: either it drops nothing or the first block; its batch may become  *)
(* a block.                                                                *)
LEMMA DeriveKeeps ==
    ASSUME NEW last \in Nat, NEW blocks, Consecutive(blocks, last), NEW buffered, Buffer(buffered),
           NEW outOfData \in BOOLEAN, SafeChain
    PROVE  LET derived == DeriveNextBatch(outOfData, blocks, buffered) IN
           /\ Consecutive(derived.blocks, last)
           /\ Buffer(derived.buffered)
           /\ derived.err = "none" => WithinDrift(derived.batch)
  <1> DEFINE t          == NextTime(safe)
             candidates == AtTime(buffered, t)
             verdict(i) == CheckBatch(blocks, safe, candidates[i].batch, candidates[i].inclusion)
             kept       == {i \in DOMAIN candidates : verdict(i) # "drop"}
             first      == CHOOSE i \in kept : \A j \in kept : i <= j
             chosen     == candidates[first].batch
             rest       == SubSeq(candidates, first + 1, Len(candidates))
             left       == IF chosen.epoch = Head(blocks) + 1 THEN Tail(blocks) ELSE blocks
             after      == IF rest = <<>> THEN Without(buffered, t) ELSE With(buffered, t, rest)
             derived    == DeriveNextBatch(outOfData, blocks, buffered)
             Goal(d)    == /\ Consecutive(d.blocks, last)
                           /\ Buffer(d.buffered)
                           /\ d.err = "none" => WithinDrift(d.batch)
  <1>1. candidates \in Seq(Candidates) /\ Buffer(Without(buffered, t))
    BY BufferKeeps
  <1>2. \A cs \in Seq(Candidates) : Buffer(With(buffered, t, cs))
    BY BufferKeeps
  <1>3. /\ Goal(Fails("critical", blocks, buffered))
        /\ Goal(Fails("reset", blocks, buffered))
    BY DEF Fails
  <1>4. blocks # <<>> => Goal(ForceEmpty(outOfData, blocks, Without(buffered, t)))
    <2> DEFINE others == Without(buffered, t)
    <2> SUFFICES ASSUME blocks # <<>> PROVE Goal(ForceEmpty(outOfData, blocks, others))
      OBVIOUS
    <2>1. Goal(EOF(blocks, others)) /\ Goal(EOF(Tail(blocks), others))
      BY <1>1, TailConsecutive DEF EOF
    <2>2. Goal(Found(EmptyBatch(Head(blocks)), blocks, others))
      BY <1>1, EmptyWithinDrift DEF Found
    <2> HIDE DEF Goal, others
    <2> QED
      BY <2>1, <2>2 DEF ForceEmpty
  <1>5. ASSUME kept # {}
        PROVE  first \in DOMAIN candidates /\ candidates[first] \in Candidates
    <2>1. kept \in SUBSET Nat
      BY <1>1
    <2>2. first \in kept
      <3> HIDE DEF kept
      <3> QED BY <1>5, <2>1, LeastOf
    <2> QED
      BY <1>1, <2>2
  <1>6. ASSUME kept # {}, blocks # <<>>, verdict(first) = "accept"
        PROVE  Goal(Found(chosen, left, after))
    <2>1. Consecutive(left, last)
      BY <1>6, TailConsecutive
    <2>2. rest \in Seq(Candidates)
      <3> HIDE DEF first, candidates
      <3> QED BY <1>1, <1>5, <1>6
    <2>3. Buffer(after)
      BY <1>1, <1>2, <2>2
    <2>4. chosen \in Batches
      BY <1>5, <1>6 DEF Candidates
    <2>5. WithinDrift(chosen)
      <3> HIDE DEF first, candidates
      <3> QED BY <1>6, <2>4, AcceptedWithinDrift
    <2> HIDE DEF chosen, left, after
    <2> QED
      BY SMTT(30), <2>1, <2>3, <2>5 DEF Found
  <1>7. ASSUME kept # {}
        PROVE  Goal(EOF(blocks, With(buffered, t, <<candidates[first]>>)))
    <2>1. <<candidates[first]>> \in Seq(Candidates)
      BY <1>5, <1>7
    <2>2. Buffer(With(buffered, t, <<candidates[first]>>))
      BY <1>2, <2>1
    <2> HIDE DEF t, candidates, first
    <2> QED
      BY <2>2 DEF EOF
  <1>8. \/ derived = Fails("critical", blocks, buffered)
        \/ derived = Fails("reset", blocks, buffered)
        \/ blocks # <<>> /\ derived = ForceEmpty(outOfData, blocks, Without(buffered, t))
        \/ blocks # <<>> /\ kept # {} /\ verdict(first) = "accept" /\ derived = Found(chosen, left, after)
        \/ kept # {} /\ derived = EOF(blocks, With(buffered, t, <<candidates[first]>>))
    BY DEF DeriveNextBatch
  <1>9. Goal(derived)
    <2> HIDE DEF derived, Goal, kept, first, verdict, candidates, chosen, left, after, t
    <2> QED BY <1>3, <1>4, <1>6, <1>7, <1>8
  <1> QED
    BY <1>9

-----------------------------------------------------------------------------
(* The parts of a pull *)

LEMMA NewBlocksConsecutive ==
    ASSUME Stages
    PROVE  Consecutive(NewL1Blocks, origin)
  <1>1. bqOrigin = origin => Consecutive(l1Blocks, origin)
    BY DEF Stages
  <1>2. Consecutive(<<>>, origin)
    BY DEF Consecutive
  <1>3. ASSUME bqOrigin # origin PROVE Consecutive(Append(l1Blocks, origin), origin)
    <2> DEFINE more == Append(l1Blocks, origin)
    <2>1. /\ l1Blocks \in Seq(0 .. MaxL1) /\ Len(l1Blocks) \in Nat
          /\ origin \in 0 .. MaxL1 /\ origin = bqOrigin + 1 /\ bqOrigin \in Nat
      BY <1>3 DEF Stages, Consecutive
    <2>2. /\ more \in Seq(0 .. MaxL1) /\ Len(more) = Len(l1Blocks) + 1
          /\ \A i \in 1 .. Len(l1Blocks) : more[i] = l1Blocks[i]
          /\ more[Len(l1Blocks) + 1] = origin
      BY <2>1
    <2>3. ASSUME NEW i \in 1 .. Len(more) - 1 PROVE more[i + 1] = more[i] + 1
      <3>1. CASE i = Len(l1Blocks)
        <4>1. l1Blocks # <<>> /\ l1Blocks[i] = bqOrigin
          BY <2>1, <2>2, <3>1 DEF Stages, Consecutive
        <4> HIDE DEF more
        <4> QED BY <2>1, <2>2, <3>1, <4>1
      <3>2. CASE i # Len(l1Blocks)
        <4>1. i \in 1 .. Len(l1Blocks) - 1
          BY <2>1, <2>2, <2>3, <3>2
        <4>2. l1Blocks[i + 1] = l1Blocks[i] + 1
          BY <4>1 DEF Stages, Consecutive
        <4> HIDE DEF more
        <4> QED BY <2>1, <2>2, <4>1, <4>2
      <3> QED
        BY <3>1, <3>2
    <2> HIDE DEF more
    <2>4. Consecutive(more, origin)
      BY <2>1, <2>2, <2>3 DEF Consecutive
    <2> QED
      BY <2>4 DEF more
  <1> QED
    BY <1>1, <1>2, <1>3 DEF NewL1Blocks

LEMMA PendingFacts ==
    ASSUME Stages, pending # <<>>
    PROVE  Head(pending) \in Batches /\ Tail(pending) \in Seq(Batches)
  <1>1. pending \in Seq(Batches) /\ Len(pending) \in Nat /\ Len(pending) >= 1
    BY DEF Stages
  <1> QED
    BY <1>1

LEMMA AddBatchKeeps ==
    ASSUME Stages, NEW blocks
    PROVE  Buffer(AddBatch(blocks))
  <1>1. Buffer(batches) /\ origin \in Nat
    BY DEF Stages
  <1>2. ASSUME pending # <<>>, NEW t
        PROVE  Buffer(With(batches, t, Append(AtTime(batches, t), [batch |-> Head(pending), inclusion |-> origin])))
    <2> DEFINE new == [batch |-> Head(pending), inclusion |-> origin]
    <2>1. new \in Candidates
      BY <1>1, <1>2, PendingFacts DEF Candidates
    <2>2. AtTime(batches, t) \in Seq(Candidates)
      BY <1>1, BufferKeeps
    <2> HIDE DEF new
    <2>3. Append(AtTime(batches, t), new) \in Seq(Candidates)
      BY <2>1, <2>2
    <2>4. Buffer(With(batches, t, Append(AtTime(batches, t), new)))
      BY <1>1, <2>3, BufferKeeps
    <2> QED
      BY <2>4 DEF new
  <1> QED
    BY <1>1, <1>2 DEF AddBatch

LEMMA TryAdvanceKeeps ==
    ASSUME Stages, TryAdvance
    PROVE  /\ origin' \in 0 .. MaxL1 /\ origin' \in {origin, origin + 1}
           /\ pending' \in Seq(Batches)
  <1>1. l1 \in Chains /\ origin \in 0 .. MaxL1
    BY DEF Stages
  <1>2. \A n \in 0 .. MaxL1 : l1[n] \in Seq(Batches)
    BY <1>1, PostedBatches
  <1>3. CASE origin < MaxL1 /\ origin' = origin + 1 /\ pending' = l1[origin + 1]
    <2>1. origin + 1 \in 0 .. MaxL1
      BY <1>1, <1>3, Config
    <2> QED
      BY <1>2, <1>3, <2>1
  <1>4. CASE origin' = origin /\ pending' \in {<<>>, l1[origin]}
    <2>1. <<>> \in Seq(Batches) /\ l1[origin] \in Seq(Batches)
      BY <1>1, <1>2
    <2> QED
      BY <1>1, <1>4, <2>1
  <1> QED
    BY <1>3, <1>4 DEF TryAdvance

(* Attributes come from a batch that passed the checks on its parent, its  *)
(* epoch and its time.                                                     *)
LEMMA CreateKeeps ==
    ASSUME NEW b, WithinDrift(b), Waiting, CreateNextAttributes(b), UNCHANGED safe
    PROVE  Waiting'
  <1>1. Consistent(b) => Consistent(b)'
    BY DEF Consistent, NextTime
  <1>2. safeAttributes' = safeAttributes => (Consistent(safeAttributes) => Consistent(safeAttributes)')
    BY DEF Consistent, NextTime
  <1>3. batch' \in {None, b} /\ (safeAttributes' = safeAttributes \/ (safeAttributes' = b /\ Consistent(b)))
    <2>1. CASE Consistent(b) /\ safeAttributes' = b /\ batch' = None
      BY <2>1
    <2>2. CASE batch' = b /\ safeAttributes' = safeAttributes
      BY <2>2
    <2> QED
      BY <2>1, <2>2 DEF CreateNextAttributes
  <1> QED
    BY <1>1, <1>2, <1>3 DEF Waiting, WithinDrift

-----------------------------------------------------------------------------
(* The steps *)

(* Applying attributes extends the chain by a block that keeps its rules. *)
LEMMA ApplyKeeps ==
    ASSUME SafeChain, ChainRules, NEW b, WithinDrift(b), Consistent(b), safe' = Append(safe, BlockOf(b))
    PROVE  SafeChain' /\ ChainRules'
  <1>1. BlockOf(b) \in SafeBlocks
    BY DEF BlockOf, WithinDrift, Batches, SafeBlocks, Blocks
  <1>2. safe \in Seq(SafeBlocks) /\ Len(safe) \in Nat /\ Len(safe) >= 1
    BY DEF SafeChain
  <1>3. /\ safe' \in Seq(SafeBlocks) /\ Len(safe') = Len(safe) + 1
        /\ \A n \in 1 .. Len(safe) : safe'[n] = safe[n]
        /\ safe'[Len(safe) + 1] = BlockOf(b)
    BY <1>1, <1>2
  <1>4. SafeChain'
    BY <1>2, <1>3 DEF SafeChain
  <1>5. ASSUME NEW n \in 2 .. Len(safe')
        PROVE  /\ safe'[n].time = safe'[n - 1].time + BlockTime
               /\ safe'[n].time >= L1Time[safe'[n].origin]
               /\ safe'[n].origin - safe'[n - 1].origin \in {0, 1}
               /\ safe'[n].txs # "none" => safe'[n].time <= L1Time[safe'[n].origin] + MaxSequencerDrift
    <2>1. CASE n \in 2 .. Len(safe)
      <3>1. safe'[n] = safe[n] /\ safe'[n - 1] = safe[n - 1]
        BY <1>2, <1>3, <2>1
      <3> QED
        BY <2>1, <3>1 DEF ChainRules
    <2>2. CASE n = Len(safe) + 1
      <3>1. safe'[n] = BlockOf(b) /\ safe'[n - 1] = Last(safe)
        BY <1>2, <1>3, <2>2, SafeFacts
      <3> QED
        BY <3>1 DEF BlockOf, Consistent, WithinDrift, NextTime
    <2>3. n \in 2 .. Len(safe) \/ n = Len(safe) + 1
      BY <1>2, <1>3
    <2> QED
      BY <2>1, <2>2, <2>3
  <1>6. ChainRules'
    BY <1>5 DEF ChainRules
  <1> QED
    BY <1>4, <1>6

(* A reset takes the chain back to a prefix of it. *)
LEMMA PrefixKeeps ==
    ASSUME SafeChain, ChainRules, NEW n \in DOMAIN safe, safe' = SubSeq(safe, 1, n)
    PROVE  SafeChain' /\ ChainRules' /\ safe[n].origin \in 0 .. MaxL1
  <1>1. safe \in Seq(SafeBlocks) /\ n \in 1 .. Len(safe) /\ Len(safe) \in Nat
    BY DEF SafeChain
  <1>2. /\ safe' \in Seq(SafeBlocks) /\ Len(safe') = n
        /\ \A i \in 1 .. n : safe'[i] = safe[i]
    BY <1>1
  <1>3. safe[n].origin \in 0 .. MaxL1
    <2>1. safe[n] \in SafeBlocks
      BY <1>1
    <2> QED
      BY <2>1, Config DEF SafeBlocks, Blocks
  <1>4. SafeChain'
    BY <1>1, <1>2 DEF SafeChain
  <1>5. ASSUME NEW i \in 2 .. n
        PROVE  i \in 2 .. Len(safe) /\ safe'[i] = safe[i] /\ safe'[i - 1] = safe[i - 1]
    BY <1>1, <1>2
  <1>6. ChainRules'
    BY <1>2, <1>5 DEF ChainRules
  <1> QED
    BY <1>3, <1>4, <1>6

LEMMA SameChain ==
    ASSUME SafeChain, ChainRules, UNCHANGED safe
    PROVE  SafeChain' /\ ChainRules'
  BY DEF SafeChain, ChainRules

LEMMA SameWaiting ==
    ASSUME Waiting, UNCHANGED <<batch, safe, safeAttributes>>
    PROVE  Waiting'
  BY DEF Waiting, WithinDrift, Consistent, NextTime

(* The invariant holds at first, and every step keeps it. *)
LEMMA IInvInvariant == Spec => []IInv
<1>1. Init => IInv
  <2> SUFFICES ASSUME Init PROVE IInv
    OBVIOUS
  <2>1. 0 \in 0 .. MaxL1 /\ L1Time[0] \in Nat
    BY Config
  <2>2. Genesis \in SafeBlocks
    BY <2>1, Config DEF Genesis, SafeBlocks, Blocks, Txs
  <2>3. safe = <<Genesis>>
    BY DEF Init
  <2>4. SafeChain
    BY <2>2, <2>3 DEF SafeChain
  <2>5. ChainRules
    BY <2>3 DEF ChainRules
  <2>6. Consecutive(<<0>>, 0)
    BY <2>1 DEF Consecutive
  <2>7. Buffer(<<>>)
    BY DEF Buffer
  <2>8. pending \in Seq(Batches)
    BY <2>1, PostedBatches DEF Init
  <2>9. Stages
    BY <2>1, <2>6, <2>7, <2>8 DEF Init, Stages
  <2> QED
    BY <2>4, <2>5, <2>9 DEF Init, IInv, Waiting
<1>2. IInv /\ [Next]_vars => IInv'
  <2> SUFFICES ASSUME IInv, [Next]_vars PROVE IInv'
    OBVIOUS
  <2> USE DEF IInv
  <2>1. CASE NoBatchYet
    <3>1. Consecutive(NewL1Blocks, origin)
      BY NewBlocksConsecutive
    <3>2. Stages'
      BY <2>1, <3>1, Config DEF NoBatchYet, Stages, upstream
    <3> QED
      BY <2>1, <3>2, SameChain, SameWaiting DEF NoBatchYet
  <2>2. CASE SkipBatch
    <3>1. Consecutive(NewL1Blocks, origin)
      BY NewBlocksConsecutive
    <3>2. /\ origin' \in 0 .. MaxL1 /\ origin' \in {origin, origin + 1}
          /\ pending' \in Seq(Batches)
      <4>1. CASE pending = <<>>
        BY <2>2, <4>1, TryAdvanceKeeps DEF SkipBatch
      <4>2. CASE pending # <<>>
        BY <2>2, <4>2, PendingFacts DEF SkipBatch, Stages
      <4> QED
        BY <4>1, <4>2
    <3>3. Stages'
      BY <2>2, <3>1, <3>2, Config DEF SkipBatch, Stages
    <3> QED
      BY <2>2, <3>3, SameChain, SameWaiting DEF SkipBatch
  <2>3. CASE NextBatch
    <3> DEFINE outOfData == pending = <<>>
               derived   == DeriveNextBatch(outOfData, NewL1Blocks, AddBatch(NewL1Blocks))
    <3>1. /\ Consecutive(derived.blocks, origin)
          /\ Buffer(derived.buffered)
          /\ derived.err = "none" => WithinDrift(derived.batch)
      <4>1. Consecutive(NewL1Blocks, origin) /\ Buffer(AddBatch(NewL1Blocks))
        BY NewBlocksConsecutive, AddBatchKeeps
      <4>2. outOfData \in BOOLEAN /\ origin \in Nat
        BY Config DEF Stages
      <4> HIDE DEF outOfData
      <4> QED
        BY <4>1, <4>2, DeriveKeeps
    <3>2. /\ bqOrigin' = origin /\ l1Blocks' = derived.blocks /\ batches' = derived.buffered
          /\ UNCHANGED <<l1, safe>>
      BY <2>3 DEF NextBatch
    <3>3. /\ origin' \in 0 .. MaxL1 /\ origin' \in {origin, origin + 1}
          /\ pending' \in Seq(Batches)
      <4>1. CASE outOfData /\ derived.err = "eof"
        <5>1. TryAdvance
          BY <2>3, <4>1 DEF NextBatch
        <5> QED
          BY <5>1, TryAdvanceKeeps
      <4>2. CASE ~(outOfData /\ derived.err = "eof")
        <5>1. pending' = (IF outOfData THEN <<>> ELSE Tail(pending)) /\ origin' = origin
          BY <2>3, <4>2 DEF NextBatch
        <5>2. <<>> \in Seq(Batches)
          OBVIOUS
        <5> QED
          BY <5>1, <5>2, PendingFacts DEF Stages
      <4> QED
        BY <4>1, <4>2
    <3>4. Stages'
      <4> HIDE DEF derived
      <4> QED
        BY <3>1, <3>2, <3>3, Config DEF Stages
    <3>5. Waiting'
      <4>1. CASE derived.err = "none"
        <5>1. CreateNextAttributes(derived.batch)
          BY <2>3, <4>1 DEF NextBatch
        <5> HIDE DEF derived
        <5> QED
          BY <3>1, <3>2, <4>1, <5>1, CreateKeeps
      <4>2. CASE derived.err # "none"
        <5>1. UNCHANGED <<batch, safeAttributes>>
          BY <2>3, <4>2 DEF NextBatch
        <5> QED
          BY <3>2, <5>1, SameWaiting
      <4> QED
        BY <4>1, <4>2
    <3> QED
      BY <3>2, <3>4, <3>5, SameChain
  <2>4. CASE RetryAttributes
    <3>1. WithinDrift(batch) /\ CreateNextAttributes(batch) /\ UNCHANGED safe
      BY <2>4 DEF RetryAttributes, Waiting
    <3>2. Waiting'
      BY <3>1, CreateKeeps
    <3>3. Stages'
      BY <2>4 DEF RetryAttributes, Stages, upstream
    <3> QED
      BY <3>1, <3>2, <3>3, SameChain
  <2>5. CASE ApplyAttributes
    <3>1. WithinDrift(safeAttributes) /\ Consistent(safeAttributes)
      BY <2>5 DEF ApplyAttributes, Waiting
    <3>2. SafeChain' /\ ChainRules'
      <4>1. safe' \in {safe, Append(safe, BlockOf(safeAttributes))}
        BY <2>5 DEF ApplyAttributes
      <4> QED
        BY <3>1, <4>1, ApplyKeeps, SameChain
    <3>3. Stages'
      BY <2>5 DEF ApplyAttributes, Stages, upstream
    <3>4. Waiting'
      BY <2>5 DEF ApplyAttributes, Waiting, WithinDrift
    <3> QED
      BY <3>2, <3>3, <3>4
  <2>6. CASE Reset
    <3>1. PICK n \in DOMAIN safe :
              /\ safe' = SubSeq(safe, 1, n)
              /\ LET base == PipelineStart(safe[n].origin) IN
                  /\ origin' = base /\ pending' = l1[base]
                  /\ bqOrigin' = base /\ l1Blocks' = <<base>>
      BY <2>6 DEF Reset
    <3>2. SafeChain' /\ ChainRules' /\ safe[n].origin \in 0 .. MaxL1
      BY <3>1, PrefixKeeps
    <3> DEFINE base == PipelineStart(safe[n].origin)
    <3>3. base \in 0 .. MaxL1
      BY <3>2, Config DEF PipelineStart
    <3>4. l1 \in Chains /\ l1' = l1 /\ batches' = <<>> /\ batch' = None /\ safeAttributes' = None
      BY <2>6 DEF Reset, Stages
    <3>5. l1[base] \in Seq(Batches)
      BY <3>3, <3>4, PostedBatches
    <3> HIDE DEF base
    <3>6. Consecutive(<<base>>, base) /\ Buffer(<<>>)
      BY <3>3 DEF Consecutive, Buffer
    <3>7. Stages'
      BY <3>1, <3>3, <3>4, <3>5, <3>6 DEF Stages, base
    <3>8. Waiting'
      BY SMTT(30), <3>4 DEF Waiting
    <3> QED
      BY <3>2, <3>7, <3>8
  <2>7. CASE UNCHANGED vars
    BY <2>7 DEF vars, Stages, SafeChain, Waiting, ChainRules, Consistent, NextTime
  <2> QED
    BY SMTT(30), <2>1, <2>2, <2>3, <2>4, <2>5, <2>6, <2>7 DEF Next, Step
<1>3. QED
  BY <1>1, <1>2, PTL DEF Spec

(* The L2 blocks that derivation makes safe follow the rules of the chain  *)
(* (CheckBatch, createNextAttributes and PreparePayloadAttributes), for    *)
(* all that can be posted to L1, and through resets and failures.          *)
THEOREM ChainRulesInvariant == Spec => []ChainRules
<1>1. IInv => ChainRules
  BY DEF IInv
<1>2. QED
  BY <1>1, IInvInvariant, PTL

-----------------------------------------------------------------------------
(* The blocks of the sequencer *)

(* The time of the safe head has reached the one of its origin. *)
LEMMA HeadAfterOrigin ==
    ASSUME SafeChain, ChainRules
    PROVE  Last(safe).time >= L1Time[Last(safe).origin]
  <1>1. /\ Len(safe) \in Nat /\ Len(safe) >= 1
        /\ Last(safe) = safe[Len(safe)]
    BY SafeFacts
  <1>2. CASE Len(safe) = 1
    <2>1. Last(safe) = Genesis /\ L1Time[0] \in Nat
      BY <1>1, <1>2, Config DEF SafeChain
    <2> QED
      BY <2>1 DEF Genesis
  <1>3. CASE Len(safe) >= 2
    <2>1. Len(safe) \in 2 .. Len(safe)
      BY <1>1, <1>3
    <2> QED
      BY <1>1, <2>1 DEF ChainRules
  <1> QED
    BY <1>1, <1>2, <1>3

(* A block with the origin that FindL1Origin returns is not too early, and *)
(* no batch rule on its time drops it.                                     *)
LEMMA OriginAccepted ==
    ASSUME SafeChain, ChainRules, Last(safe).origin < MaxL1,
           NEW found \in BOOLEAN, NEW o \in FindL1Origin(safe, found),
           NEW txs \in {"none", "some"}, txs = "some" => ~NoTxPool(safe, o)
    PROVE  /\ o \in {Last(safe).origin, Last(safe).origin + 1}
           /\ NextTime(safe) >= L1Time[o]
           /\ CheckTime(Sequenced(safe, o, txs), Last(safe).origin, Last(safe).origin + 1, o) = "accept"
  <1> DEFINE current == Last(safe).origin
             b == Sequenced(safe, o, txs)
  <1>1. current \in Nat /\ current < MaxL1 /\ NextTime(safe) \in Nat
    BY SafeFacts DEF SafeBlocks, Blocks
  <1>2. /\ L1Time[current] \in Nat /\ L1Time[current + 1] \in Nat
        /\ MaxSequencerDrift \in Nat
    BY <1>1, Config
  <1>3. NextTime(safe) >= L1Time[current]
    <2>1. Last(safe).time \in Nat /\ Last(safe).time >= L1Time[current]
      BY SafeFacts, HeadAfterOrigin DEF SafeBlocks, Blocks
    <2> QED
      BY <1>2, <2>1, Config DEF NextTime
  <1>4. b.time = NextTime(safe) /\ b.txs = txs
    BY DEF Sequenced
  <1>5. current + 1 # None
    BY <1>1, NoneAssumption
  <1> HIDE DEF b
  <1>6. CASE o = current + 1
    <2>1. o # current /\ NextTime(safe) >= L1Time[o]
      BY <1>1, <1>6 DEF FindL1Origin
    <2> QED
      BY <1>1, <1>2, <1>4, <1>6, <2>1 DEF CheckTime, NoTxPool, b
  <1>7. CASE o = current
    <2>1. NextTime(safe) <= L1Time[current] + MaxSequencerDrift \/ NextTime(safe) < L1Time[current + 1]
      BY <1>1, <1>2, <1>7 DEF FindL1Origin, PastSeqDrift
    <2> QED
      BY SMTT(30), <1>1, <1>2, <1>3, <1>4, <1>5, <1>7, <2>1 DEF CheckTime, NoTxPool, b
  <1> QED
    BY <1>6, <1>7 DEF FindL1Origin

(* Every block that a sequencer builds on the safe head is derived again   *)
(* by the verifiers (FindL1Origin and NoTxPool against CheckBatch), for    *)
(* all drifts and block times, however L1 times go.                        *)
THEOREM SequencedAlwaysAccepted == Spec => []SequencedAccepted
<1>1. IInv => SequencedAccepted
  <2> SUFFICES ASSUME IInv, Last(safe).origin < MaxL1,
                      NEW found \in BOOLEAN, NEW o \in FindL1Origin(safe, found),
                      NEW txs \in {"none", "some"}, txs = "some" => ~NoTxPool(safe, o)
               PROVE  LET b == Sequenced(safe, o, txs) IN
                      /\ Consistent(b)
                      /\ \A inclusion \in o + 1 .. o + SeqWindowSize :
                            CheckBatch(<<Last(safe).origin, Last(safe).origin + 1>>, safe, b, inclusion) = "accept"
    BY DEF SequencedAccepted
  <2> DEFINE current == Last(safe).origin
             blocks  == <<current, current + 1>>
             b       == Sequenced(safe, o, txs)
  <2>1. /\ o \in {current, current + 1}
        /\ NextTime(safe) >= L1Time[o]
        /\ CheckTime(b, current, current + 1, o) = "accept"
    BY OriginAccepted DEF IInv
  <2>2. current \in Nat /\ NextTime(safe) \in Nat /\ SeqWindowSize \in Nat
    BY SafeFacts, Config DEF SafeBlocks, Blocks, IInv
  <2>3. /\ b.parent = safe /\ b.epoch = o /\ b.canonical /\ b.time = NextTime(safe)
    BY DEF Sequenced
  <2> HIDE DEF b
  <2>4. Consistent(b)
    BY <2>1, <2>2, <2>3 DEF Consistent
  <2>5. /\ Head(blocks) = current /\ Len(blocks) = 2 /\ blocks[2] = current + 1 /\ blocks # <<>>
    OBVIOUS
  <2> HIDE DEF blocks
  <2>6. current + 1 # None
    BY <2>2, NoneAssumption
  <2>7. CheckEpoch(b, blocks) = "accept"
    BY SMTT(30), <2>1, <2>2, <2>3, <2>5, <2>6 DEF CheckEpoch
  <2>8. ASSUME NEW inclusion \in o + 1 .. o + SeqWindowSize
        PROVE  CheckBatch(blocks, safe, b, inclusion) = "accept"
    BY <2>1, <2>2, <2>3, <2>5, <2>7 DEF CheckBatch
  <2> QED
    BY <2>4, <2>8 DEF b, blocks
<1>2. QED
  BY <1>1, IInvInvariant, PTL
=============================================================================
