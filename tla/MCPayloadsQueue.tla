--------------------------- MODULE MCPayloadsQueue ---------------------------
EXTENDS PayloadsQueue, TLC

CONSTANTS a, b, c, d, e, f, g

MCPayloads == {a, b, c, d, e, f, g}

(* a and b conflict at one height, f is too large for any queue *)
MCNumberOf == a :> 1 @@ b :> 1 @@ c :> 2 @@ d :> 3 @@ e :> 3 @@ f :> 4 @@ g :> 0
MCSizeOf   == a :> 1 @@ b :> 2 @@ c :> 3 @@ d :> 1 @@ e :> 6 @@ f :> 7 @@ g :> 2
=============================================================================
