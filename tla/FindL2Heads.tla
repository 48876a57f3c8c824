---------------------------- MODULE FindL2Heads ----------------------------
(***************************************************************************)
(* Where a reset of the node starts from (op-node/rollup/sync/start.go).   *)
(*                                                                         *)
(* FindL2Heads walks from the engine's unsafe head towards its finalized   *)
(* block, comparing L1 origins with the canonical L1 chain.  The walk is   *)
(* given here in closed form, for an L1 chain that does not change during  *)
(* the walk.                                                               *)
(***************************************************************************)
EXTENDS Chains, FiniteSets

CONSTANTS
    SeqWindow,             \* cfg.SeqWindowSize
    MaxReorgSeqWindows     \* reorgs deeper than this many windows are refused

ASSUME SeqWindowAssumption == SeqWindow \in Nat /\ MaxReorgSeqWindows \in Nat

(* The labels of the engine, with the defaults of currentHeads *)
CurrentHeads(head, safe, finalized) ==
    LET f == IF finalized = NoBlock THEN L2Genesis ELSE finalized
    IN [unsafe |-> head, safe |-> IF safe = NoBlock THEN f ELSE safe, finalized |-> f]

(* The L1 origin of n is not visible yet, canonical, or neither. *)
Ahead(l1, n)     == OriginNumber(n) > L1Number[l1]
Canonical(l1, n) == L2Origin[n] \in L1Chain[l1]
Conflict(l1, n)  == ~Ahead(l1, n) /\ ~Canonical(l1, n)

(* The blocks the walk has seen when it is at n, and those it has seen     *)
(* since the last one with a conflicting origin                            *)
Seen(head, n) == {m \in L2Chain[head] : L2Number[m] >= L2Number[n]}
SinceConflict(l1, head, n) ==
    {m \in Seen(head, n) : \A c \in Seen(head, n) :
        Conflict(l1, c) => L2Number[m] < L2Number[c]}

Highest(S) == CHOOSE m \in S : \A o \in S : L2Number[o] <= L2Number[m]

(* n is at most the previous safe head, opens an epoch, and a full         *)
(* sequence window of canonical L1 origins has been seen behind it.        *)
Ready(l1, h, n) ==
    LET canonical == {m \in SinceConflict(l1, h.unsafe, n) : Canonical(l1, m)}
    IN /\ L2Number[n] <= L2Number[h.safe]
       /\ canonical # {}
       /\ OriginNumber(n) + SeqWindow < OriginNumber(Highest(canonical))
       /\ FirstOfEpoch(n)

(* Where the walk may stop: at a ready block, or at a block with the       *)
(* number of the finalized one                                             *)
StopsAt(l1, h) == {n \in L2Chain[h.unsafe] : L2Number[n] = L2Number[h.finalized] \/ Ready(l1, h, n)}

Stop(l1, h) == Highest(StopsAt(l1, h))

(* The walk fails: it would leave genesis, or it meets another block at    *)
(* the finalized number, or goes too deep, or ends on another L1 chain.    *)
(* The finalized block is looked at only when the walk comes that far.     *)
WalkFails(l1, h) ==
    \/ StopsAt(l1, h) = {}
    \/ \E stop \in {Stop(l1, h)} :
        \/ L2Number[stop] = L2Number[h.finalized] /\ stop # h.finalized
        \/ OriginNumber(stop) + MaxReorgSeqWindows * SeqWindow < OriginNumber(h.unsafe)
        \/ stop = L2Genesis /\ (Conflict(l1, stop) \/ stop # h.finalized)

(* The safe head stays when its own L1 origin is canonical. *)
Heads_KeepsCanonicalSafe(l1, h) ==
    LET stop   == Stop(l1, h)
        usable == SinceConflict(l1, h.unsafe, stop)
    IN [unsafe    |-> IF usable = {} THEN NoBlock ELSE Highest(usable),
        safe      |-> IF h.safe \in usable /\ Canonical(l1, h.safe) THEN h.safe ELSE stop,
        finalized |-> h.finalized]

(* The result, given that the walk does not fail.  Without a usable unsafe *)
(* head it is the zero reference, and no error.                            *)
Heads(l1, h) ==
    LET stop   == Stop(l1, h)
        usable == SinceConflict(l1, h.unsafe, stop)
    IN [unsafe    |-> IF usable = {} THEN NoBlock ELSE Highest(usable),
        safe      |-> IF stop = h.finalized THEN stop ELSE L2Parent[stop],
        finalized |-> h.finalized]
=============================================================================
