---------------------------- MODULE MCEngineQueue ----------------------------
(***************************************************************************)
(* A small L1 tree with one fork, and the L2 blocks that go with it:       *)
(*                                                                         *)
(*   L1   A0 - A1 - A2 - A3 - A4        L2   g - a1 - a2 - a3 - a4         *)
(*              \                             \    \                       *)
(*               B2 - B3                      x1, i1, c1   b2              *)
(*                                                                         *)
(* x1 is sent by peers and posted nowhere; i1 is posted with a1 and does   *)
(* not execute; c1 and b2 hold only the deposits that derivation forces    *)
(* when no batch is posted on the fork.                                    *)
(***************************************************************************)
EXTENDS EngineQueue, TLC

L1ParentDef == "A0" :> "none" @@ "A1" :> "A0" @@ "A2" :> "A1" @@ "A3" :> "A2" @@ "A4" :> "A3"
            @@ "B2" :> "A1" @@ "B3" :> "B2"
L2ParentDef == "g" :> "none" @@ "a1" :> "g" @@ "a2" :> "a1" @@ "a3" :> "a2" @@ "a4" :> "a3"
            @@ "b2" :> "a1" @@ "x1" :> "g" @@ "i1" :> "g" @@ "c1" :> "g"

Ancestors(parent) ==
    LET up[b \in DOMAIN parent] == {b} \cup IF parent[b] \in DOMAIN parent THEN up[parent[b]] ELSE {}
    IN up

MCL1Blocks == DOMAIN L1ParentDef
MCL2Blocks == DOMAIN L2ParentDef
MCL1Chain == Ancestors(L1ParentDef)
MCL2Chain == Ancestors(L2ParentDef)
MCL1Number == [b \in MCL1Blocks |-> Cardinality(MCL1Chain[b]) - 1]
MCL2Number == [b \in MCL2Blocks |-> Cardinality(MCL2Chain[b]) - 1]
MCL2Origin == "g" :> "A0" @@ "a1" :> "A1" @@ "a2" :> "A2" @@ "a3" :> "A3" @@ "a4" :> "A4"
           @@ "b2" :> "B2" @@ "x1" :> "A0" @@ "i1" :> "A1" @@ "c1" :> "A1"
MCDerivedAt == "g" :> {"A0"} @@ "a1" :> {"A2"} @@ "a2" :> {"A3"} @@ "a3" :> {"A4"} @@ "a4" :> {}
            @@ "b2" :> {"B3"} @@ "x1" :> {} @@ "i1" :> (IF "i1" \in Invalid THEN {"A2"} ELSE {}) @@ "c1" :> {"B2"}
=============================================================================
