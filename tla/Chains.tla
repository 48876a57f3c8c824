------------------------------- MODULE Chains -------------------------------
(***************************************************************************)
(* The two block trees every component of the rollup node refers to.       *)
(*                                                                         *)
(* A block stands for its hash: two blocks are the same block exactly when *)
(* their hashes are equal, and the hash fixes the block's number and its   *)
(* parent.  A model names the blocks of a finite tree; which of them is    *)
(* canonical, known, safe and so on is state of the modules that use this  *)
(* one.                                                                    *)
(***************************************************************************)
EXTENDS Integers

CONSTANTS
    NoBlock,                          \* the zero value of a block reference
    L1Blocks, L1Genesis,
    L1Number, L1Parent,               \* functions on L1Blocks
    L1Chain,                          \* L1Chain[b]: b and its ancestors
    L2Blocks, L2Genesis,
    L2Number, L2Parent, L2Chain,      \* the same for L2
    L2Origin                          \* the L1 origin (epoch) of an L2 block

(* A hash-linked tree: what Number, Parent and Chain mean.  A chain has    *)
(* one block of each number and, being finite, a highest block in every    *)
(* part of it.                                                             *)
IsTree(Blocks, Genesis, Number, Parent, Chain) ==
    /\ NoBlock \notin Blocks
    /\ Genesis \in Blocks
    /\ Number \in [Blocks -> Nat]
    /\ Parent \in [Blocks -> Blocks \cup {NoBlock}]
    /\ Chain \in [Blocks -> SUBSET Blocks]
    /\ \A b \in Blocks :
        /\ IF b = Genesis
           THEN Parent[b] = NoBlock /\ Number[b] = 0 /\ Chain[b] = {b}
           ELSE /\ Parent[b] \in Blocks
                /\ Number[b] = Number[Parent[b]] + 1
                /\ Chain[b] = Chain[Parent[b]] \cup {b}
        /\ \A a \in Chain[b] :
            /\ Chain[a] \subseteq Chain[b]
            /\ Number[a] <= Number[b]
            /\ \A c \in Chain[b] : Number[a] <= Number[c] => a \in Chain[c]
        /\ \A n \in 0..Number[b] : \E a \in Chain[b] : Number[a] = n
        /\ \A S \in SUBSET Chain[b] :
            S # {} => \E a \in S : \A c \in S : Number[c] <= Number[a]

ASSUME L1Tree == IsTree(L1Blocks, L1Genesis, L1Number, L1Parent, L1Chain)
ASSUME L2Tree == IsTree(L2Blocks, L2Genesis, L2Number, L2Parent, L2Chain)

(* An L2 block keeps the L1 origin of its parent or moves to the next one. *)
ASSUME L2Origins ==
    /\ L2Origin \in [L2Blocks -> L1Blocks]
    /\ L2Origin[L2Genesis] = L1Genesis
    /\ \A b \in L2Blocks \ {L2Genesis} :
        L2Origin[b] = L2Origin[L2Parent[b]] \/ L1Parent[L2Origin[b]] = L2Origin[L2Parent[b]]

(* The block of number n on the chain of head, NoBlock when there is none *)
L1At(head, n) ==
    IF n > L1Number[head] THEN NoBlock
    ELSE CHOOSE b \in L1Chain[head] : L1Number[b] = n

L2At(head, n) ==
    IF n > L2Number[head] THEN NoBlock
    ELSE CHOOSE b \in L2Chain[head] : L2Number[b] = n

OriginNumber(b) == L1Number[L2Origin[b]]

(* The first L2 block of its epoch has sequence number 0. *)
FirstOfEpoch(b) == b = L2Genesis \/ L2Origin[b] # L2Origin[L2Parent[b]]
=============================================================================
