------------------------- MODULE BatchSubmitterRace -------------------------
(***************************************************************************)
(* BatchSubmitter with TxData as it runs: the publisher goroutine calls it *)
(* while the main goroutine handles receipts (publishStateToL1), and       *)
(* nothing keeps the two apart.  TxData is cut into its five parts, each   *)
(* of which reads pendingChannel again; a part that finds it nil ends the  *)
(* process with a nil dereference.                                         *)
(***************************************************************************)
EXTENDS BatchSubmitter

VARIABLE panicked

raceVars == <<vars, panicked>>

RaceInit == Init /\ panicked = FALSE

Others == UNCHANGED <<l1Vars, l2Vars, txVars, lastStoredBlock, main, shutdown, loaded, starts>>

Goto(at) == pub' = [pub EXCEPT !.at = at]

(* What TxData decides before it touches the channel *)
TxDataCheck ==
    /\ pub.at = "data"
    /\ IF ~NeedsData(state) THEN Goto("next")
       ELSE IF ~CanFill(state) THEN Finish
       ELSE Goto("ensure")
    /\ UNCHANGED <<state, created, panicked>>
    /\ Others

TxDataEnsure ==
    /\ pub.at = "ensure"
    /\ Left(EnsurePendingChannel(state, Len(created) + 1))
    /\ Goto("process")
    /\ UNCHANGED panicked
    /\ Others

(* A part that works on pendingChannel *)
OnChannel(at, results, next) ==
    /\ pub.at = at
    /\ IF state.chan = None
       THEN panicked' = TRUE /\ UNCHANGED <<state, created, pub>>
       ELSE \E s \in results : Left(s) /\ Goto(next) /\ UNCHANGED panicked
    /\ Others

TxDataProcess  == OnChannel("process", {ProcessBlocks(state)}, "register")
TxDataRegister == OnChannel("register", {RegisterAt(state, pub.tip)}, "output")
TxDataOutput   == OnChannel("output", Outputs(state), "next")

TxDataNext ==
    /\ pub.at = "next"
    /\ LET r == NextTxData(state) IN
        /\ Left(r.s)
        /\ IF r.tx = None THEN Finish ELSE pub' = [pub EXCEPT !.at = "send", !.tx = r.tx]
    /\ UNCHANGED panicked
    /\ Others

RaceNext ==
    /\ ~panicked
    /\ \/ /\ \/ Tick \/ LoadBlock \/ LoadReorg \/ LoadError \/ HandleReceipt \/ Shutdown \/ Published
             \/ PublishTip \/ PublishTipError \/ PublishSend \/ PublishWait
             \/ SendIncluded \/ SendReturns \/ SendFails \/ L1Block \/ L2Block
          /\ UNCHANGED panicked
       \/ TxDataCheck \/ TxDataEnsure \/ TxDataProcess \/ TxDataRegister \/ TxDataOutput \/ TxDataNext

RaceSpec == RaceInit /\ [][RaceNext]_raceVars

(* The channel manager is used by one goroutine at a time, as the comment  *)
(* on channelManager requires ("Functions on channelManager are not safe   *)
(* for concurrent access."): no part of TxData finds that its channel was  *)
(* cleared under it.                                                       *)
NoPanic == ~panicked
=============================================================================
