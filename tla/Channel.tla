------------------------------- MODULE Channel -------------------------------
(***************************************************************************)
(* A channel under reassembly (op-node/rollup/derive/channel.go): frames   *)
(* are added in any order until a closing frame and every frame below it   *)
(* are there.  A frame is a record [id, number, last, data].  What data    *)
(* holds is a constant; it is told apart by its size and by whether it can *)
(* be decoded.  The highest inclusion block is left out: nothing reads it. *)
(***************************************************************************)
EXTENDS Integers, Sequences, FiniteSets, FiniteSetsExt, Functions, TLC

CONSTANTS
    Data,           \* the payloads of frames
    FrameSize       \* FrameSize[d]: bytes of d, with the overhead of a frame

ASSUME FrameSizeAssumption == FrameSize \in [Data -> Nat \ {0}]

NewChannel(open) ==
    [open |-> open, size |-> 0, closed |-> FALSE, highest |-> 0, end |-> 0, inputs |-> <<>>]

(* The memory that the buffered frames of ch really take *)
Buffered(ch) == MapThenSumSet(LAMBDA i : FrameSize[ch.inputs[i]], DOMAIN ch.inputs)

(* The checks of AddFrame that refuse a frame *)
Accepts(ch, f) ==
    /\ ~(f.last /\ ch.closed)
    /\ f.number \notin DOMAIN ch.inputs
    /\ ~(ch.closed /\ f.number >= ch.end)

(* A closing frame that leaves the frames above it *)
AddFrame_KeepsHigher(ch, f) ==
    [ch EXCEPT
        !.closed  = @ \/ f.last,
        !.end     = IF f.last THEN f.number ELSE @,
        !.highest = IF f.number > @ THEN f.number ELSE @,
        !.inputs  = (f.number :> f.data) @@ @,
        !.size    = @ + FrameSize[f.data]]

(* The frame is buffered.  A closing frame first drops the frames above    *)
(* it; the size of every buffered frame, dropped or not, is taken off.     *)
AddFrame(ch, f) ==
    LET prunes == f.last /\ f.number < ch.highest
        kept   == IF prunes THEN {i \in DOMAIN ch.inputs : i < f.number} ELSE DOMAIN ch.inputs
    IN [ch EXCEPT
            !.closed  = @ \/ f.last,
            !.end     = IF f.last THEN f.number ELSE @,
            !.highest = IF prunes \/ f.number > @ THEN f.number ELSE @,
            !.inputs  = (f.number :> f.data) @@ Restrict(@, kept),
            !.size    = (IF prunes THEN @ - Buffered(ch) ELSE @) + FrameSize[f.data]]

IsReady(ch) == ch.closed /\ DOMAIN ch.inputs = 0 .. ch.end

(* What Reader returns for a channel that is ready *)
Content(ch) == [i \in 1 .. ch.end + 1 |-> ch.inputs[i - 1]]
=============================================================================
