------------------------------ MODULE MCBridge ------------------------------
(***************************************************************************)
(* Two withdrawals with messages, and one without that was never           *)
(* initiated on L2.                                                        *)
(***************************************************************************)
EXTENDS Bridge

CONSTANTS a, b, d, Wrong

MCWithdrawals == {a, b, d}

MCMessages == {"ma", "mb"}

MCMessageOf == [w \in MCWithdrawals |-> CASE w = a -> "ma" [] w = b -> "mb" [] w = d -> None]

MCRefusedSets == {{}, {"ma"}}

MCValue == [m \in MCMessages |-> IF m = "ma" THEN 1 ELSE 2]

MCSentAt == [w \in MCWithdrawals |-> CASE w = a -> 1 [] w = b -> 4 [] w = d -> None]

MCRoots == (0 .. MaxBlock) \cup {Wrong}

MCRootOf == [n \in 0 .. MaxBlock |-> n]

MCContents ==
    [r \in MCRoots |-> {w \in MCWithdrawals : r = Wrong \/ SentAt[w] \in 0 .. r}]
=============================================================================
