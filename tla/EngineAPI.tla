------------------------------ MODULE EngineAPI ------------------------------
(***************************************************************************)
(* The calls op-node makes to its execution engine to insert blocks        *)
(* (op-node/rollup/derive/engine_update.go), and the engine as the node    *)
(* relies on it.                                                           *)
(*                                                                         *)
(* The state of the engine is a record [head, safe, finalized, known].     *)
(* Every operator gives the set of outcomes of a call: the engine after    *)
(* it and what the caller is told.  An RPC may fail before or after it     *)
(* took effect.                                                            *)
(***************************************************************************)
EXTENDS Chains

CONSTANTS
    Invalid,         \* the L2 blocks whose transactions do not execute
    Faults           \* how calls may fail: "rpc", "refused"

ASSUME EngineAssumption ==
    /\ Invalid \subseteq L2Blocks \ {L2Genesis}
    /\ Faults \subseteq {"rpc", "refused"}

(* What the caller of StartPayload or ConfirmPayload is told: the classes  *)
(* of BlockInsertionErrType                                                *)
InsertOK == "ok"
InsertTemporaryErr == "temporary"
InsertPrestateErr == "prestate"
InsertPayloadErr == "payload"

Outcome(e, res) == [eng |-> e, res |-> res]

ForkchoiceState(head, safe, finalized) ==
    [head |-> head, safe |-> safe, finalized |-> finalized]

(* Without the failures that are not considered *)
Possible(outcomes) == {o \in outcomes : o.res \in {"rpc", "refused"} => o.res \in Faults}

(* An RPC whose response is lost, with or without its effect *)
RpcFailure(before, after) == {Outcome(before, "rpc"), Outcome(after, "rpc")}

(* The engine: it adopts a forkchoice whose safe and finalized blocks are  *)
(* on the chain of a head it knows; an inconsistent one may still have     *)
(* moved its head, and an unknown head leaves it syncing.  It may refuse a *)
(* call with another error code ("refused").                               *)
ForkchoiceUpdate(e, fc) ==
    LET adopted == [e EXCEPT !.head = fc.head, !.safe = fc.safe, !.finalized = fc.finalized]
        moved   == [e EXCEPT !.head = fc.head]
        Answers == IF fc.head \notin e.known
                   THEN {Outcome(e, "syncing"), Outcome(e, "rpc")}
                   ELSE IF {fc.safe, fc.finalized} \subseteq L2Chain[fc.head]
                   THEN {Outcome(adopted, "valid")} \cup RpcFailure(e, adopted)
                   ELSE {Outcome(e, "inconsistent"), Outcome(moved, "inconsistent")}
                        \cup RpcFailure(e, moved)
    IN Possible(Answers \cup {Outcome(e, "refused")})

(* The engine executes a payload on top of a known parent. *)
NewPayload(e, b) ==
    LET inserted == [e EXCEPT !.known = @ \cup {b}]
    IN Possible(IF b \in Invalid
                THEN {Outcome(e, "invalid"), Outcome(e, "rpc")}
                ELSE IF L2Parent[b] \notin e.known
                THEN {Outcome(e, "syncing"), Outcome(e, "rpc")}
                ELSE {Outcome(inserted, "valid")} \cup RpcFailure(e, inserted))

(* Start building b, with the forkchoice fc as its pre-state.  Invalid     *)
(* attributes may be noticed now, or only when the payload is confirmed.   *)
StartPayload(e, fc, b) ==
    LET Result(o) ==
        CASE o.res \in {"inconsistent", "refused"} -> {Outcome(o.eng, InsertPrestateErr)}
          [] o.res \in {"rpc", "syncing"}          -> {Outcome(o.eng, InsertTemporaryErr)}
          [] o.res = "valid" -> {Outcome(o.eng, InsertOK)} \cup
                                {Outcome(o.eng, InsertPayloadErr) : i \in Invalid \cap {b}}
    IN UNION {Result(o) : o \in ForkchoiceUpdate(e, fc)}

(* What a failed forkchoice update means after the payload was executed *)
PostForkchoice(o) ==
    Outcome(o.eng, CASE o.res = "valid"   -> InsertOK
                     [] o.res = "rpc"     -> InsertTemporaryErr
                     [] o.res = "refused" -> InsertPrestateErr
                     [] OTHER             -> InsertPayloadErr)

(* The payload was executed with the outcome n: make it canonical. *)
MakeCanonical(n, fc) ==
    IF n.res = "valid"
    THEN {PostForkchoice(o) : o \in ForkchoiceUpdate(n.eng, fc)}
    ELSE {Outcome(n.eng, IF n.res = "invalid" THEN InsertPayloadErr ELSE InsertTemporaryErr)}

(* Retrieve the payload b (which fails when the job is lost), execute it,  *)
(* and make it the head, and the safe block when updateSafe.               *)
ConfirmPayload(e, fc, b, jobLost, updateSafe) ==
    LET new == ForkchoiceState(b, IF updateSafe THEN b ELSE fc.safe, fc.finalized)
        NotRetrieved == {Outcome(e, InsertTemporaryErr)}
    IN IF jobLost THEN NotRetrieved
       ELSE (UNION {MakeCanonical(n, new) : n \in NewPayload(e, b)})
            \cup (IF "rpc" \in Faults THEN NotRetrieved ELSE {})
=============================================================================
