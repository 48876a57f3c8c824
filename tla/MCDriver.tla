------------------------------ MODULE MCDriver ------------------------------
(***************************************************************************)
(* A fork of L1 right after the genesis, and the L2 blocks that go with it *)
(*                                                                         *)
(*   L1   A0 - A1 - A2             L2   g - a1                             *)
(*          \                            \                                 *)
(*           B1 - B2 - B3                 c1                               *)
(*                                                                         *)
(* a1 is posted in A2.  c1 holds the deposits that derivation forces at B2 *)
(* when no batch is posted on that fork.  a1 is built by the sequencer and *)
(* sent by peers, also when the B fork, which does not give it, is the     *)
(* canonical one.                                                          *)
(***************************************************************************)
EXTENDS Driver, TLC

L1ParentDef == "A0" :> "none" @@ "A1" :> "A0" @@ "A2" :> "A1" @@ "B1" :> "A0" @@ "B2" :> "B1" @@ "B3" :> "B2"
L2ParentDef == "g" :> "none" @@ "a1" :> "g" @@ "c1" :> "g"

Ancestors(parent) ==
    LET up[b \in DOMAIN parent] == {b} \cup IF parent[b] \in DOMAIN parent THEN up[parent[b]] ELSE {}
    IN up

MCL1Blocks == DOMAIN L1ParentDef
MCL2Blocks == DOMAIN L2ParentDef
MCL1Chain == Ancestors(L1ParentDef)
MCL2Chain == Ancestors(L2ParentDef)
MCL1Number == [b \in MCL1Blocks |-> Cardinality(MCL1Chain[b]) - 1]
MCL2Number == [b \in MCL2Blocks |-> Cardinality(MCL2Chain[b]) - 1]
MCL2Origin == "g" :> "A0" @@ "a1" :> "A1" @@ "c1" :> "B1"
MCDerivedAt == "g" :> {"A0"} @@ "a1" :> {"A2"} @@ "c1" :> {"B2"}
=============================================================================
