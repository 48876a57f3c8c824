------------------------- MODULE MCChannelBankReset -------------------------
(***************************************************************************)
(* L1 chains of six blocks, in which "c" is posted in two blocks, "d" is   *)
(* given up after its first frame, and "e" is posted at once; and all      *)
(* blocks with four frames of "c".                                         *)
(***************************************************************************)
EXTENDS ChannelBankReset

MCData == {"s", "L"}
MCFrameSize == "s" :> 1 @@ "L" :> 2

F(id, number, last) == [id |-> id, number |-> number, last |-> last, data |-> "s"]
Tx(f) == [auth |-> TRUE, frames |-> <<f>>]
Post(f) == <<Tx(f)>>

C0 == Post(F("c", 0, FALSE))
C1 == Post(F("c", 1, TRUE))
D0 == Post(F("d", 0, FALSE))
E0 == Post(F("e", 0, TRUE))
Nothing == <<>>

MCL1Data == {C0, C1, D0, E0, Nothing}

(* Each frame is posted at most once *)
PostedOnce ==
    {chain \in [1 .. MaxL1 -> MCL1Data] :
        \A i, j \in 1 .. MaxL1 : i # j /\ chain[i] = chain[j] => chain[i] = Nothing}

(* Any numbers, closing frames and data, in any order, in one L1 block *)
AnyFrame == {Tx([F("c", n, last) EXCEPT !.data = d]) : n \in 0 .. 2, last \in BOOLEAN, d \in MCData}
AnyOrder == {<<block>> : block \in [1 .. 4 -> AnyFrame]}

MCChains == PostedOnce \cup AnyOrder
=============================================================================
