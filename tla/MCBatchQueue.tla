---------------------------- MODULE MCBatchQueue ----------------------------
(***************************************************************************)
(* An L1 chain whose first blocks come faster than L2 blocks, so that L2   *)
(* time runs ahead of L1 time, and whose block 3 is late, so that the      *)
(* sequencer runs out of its drift in epoch 2:                             *)
(*                                                                         *)
(*   L1 block          0   1   2   3   4   5                               *)
(*   time              0   1   2   9  11  13                               *)
(*                                                                         *)
(* An L2 block comes every 2 seconds.                                      *)
(***************************************************************************)
EXTENDS OriginSelector

MCL1Time == [n \in 0 .. MaxL1 |-> IF n < 3 THEN n ELSE 2 * n + 3]

Blk(o, t, txs) == [origin |-> o, time |-> t, txs |-> txs]
Batch(parent, epoch, txs) ==
    [parent |-> parent, epoch |-> epoch, canonical |-> TRUE, time |-> NextTime(parent), txs |-> txs]
Forged(parent, epoch) == [Batch(parent, epoch, "some") EXCEPT !.canonical = FALSE]

(* The chain without batches: one block for each of the epochs 0, 1 and 2, *)
(* and more for epoch 2 until epoch 3 may begin                            *)
Empty(k) == [n \in 1 .. k + 1 |-> Blk(IF n < 3 THEN n - 1 ELSE IF n < 6 THEN 2 ELSE 3, 2 * n - 2, "none")]
G == Empty(0)
A0 == Append(G, Blk(0, 2, "some"))
A1 == Append(G, Blk(1, 2, "some"))
A2 == Append(A1, Blk(2, 4, "some"))

(* Batch(G, 2, "some") skips an epoch *)
EarlyBatches ==
    { Batch(G, 0, "some"), Batch(G, 0, "invalid"), Batch(G, 1, "some"), Batch(G, 1, "bad"),
      Batch(G, 1, "invalid"), Batch(G, 2, "some"), Batch(A0, 0, "none"), Batch(A0, 1, "none"),
      Batch(A1, 2, "some"), Forged(A1, 2) }
LateBatches ==
    { Batch(Empty(1), 2, "some"), Batch(Empty(2), 2, "none"), Batch(Empty(2), 2, "some"), Batch(Empty(2), 3, "some"),
      Batch(Empty(4), 2, "none"), Batch(Empty(4), 3, "some"), Batch(A2, 2, "none") }

(* Two batches in any L1 blocks: a batch that names the hash of its epoch  *)
(* comes after that epoch.                                                 *)
Plausible(b, n) == b.canonical => b.epoch < n
Placed(postings) ==
    [n \in 0 .. MaxL1 |-> LET at(p) == p.block = n
                             take == SelectSeq(postings, at)
                         IN [k \in DOMAIN take |-> take[k].batch]]
Postings(S, k) ==
    {ps \in [1 .. k -> [batch : S, block : 0 .. MaxL1]] :
        \A i \in 1 .. k : Plausible(ps[i].batch, ps[i].block)}

MCChains == {Placed(ps) : ps \in Postings(EarlyBatches \cup LateBatches, 2)}
=============================================================================
