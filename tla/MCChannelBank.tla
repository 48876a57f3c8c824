---------------------------- MODULE MCChannelBank ----------------------------
(***************************************************************************)
(* Two channels, "c" and "d", with small and large frames, the blocks they *)
(* may be posted in, and one datum that cannot be decoded.                 *)
(***************************************************************************)
EXTENDS ChannelBank

MCData == {"s", "L", "x"}
MCFrameSize == "s" :> 1 @@ "L" :> 2 @@ "x" :> 1

F(id, number, last, data) == [id |-> id, number |-> number, last |-> last, data |-> data]
Tx(fs) == [auth |-> TRUE, frames |-> fs]
Stranger(fs) == [auth |-> FALSE, frames |-> fs]

(* Blocks of a batcher that posts channels in parts, in every order.  In   *)
(* the second one "c" is behind "d", so that it is buffered when a closing *)
(* frame drops its frame 2.                                                *)
SomeBlocks ==
    { <<>>,
      <<Tx(<<F("d", 0, FALSE, "s"), F("c", 0, FALSE, "L"), F("c", 2, FALSE, "s")>>)>>,
      <<Tx(<<F("c", 0, FALSE, "s"), F("c", 2, FALSE, "L")>>)>>,
      <<Tx(<<F("c", 1, TRUE, "L")>>)>>,
      <<Tx(<<F("d", 0, FALSE, "L")>>), Tx(<<>>), Tx(<<F("d", 1, TRUE, "s")>>)>>,
      <<Stranger(<<F("c", 1, TRUE, "s")>>), Tx(<<F("d", 0, TRUE, "x")>>)>> }
=============================================================================
