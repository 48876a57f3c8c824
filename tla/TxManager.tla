------------------------------ MODULE TxManager ------------------------------
(***************************************************************************)
(* SimpleTxManager and SendState (op-service/txmgr: txmgr.go,              *)
(* send_state.go): how op-batcher and op-proposer get a transaction into   *)
(* L1, with several sends at a time.                                       *)
(*                                                                         *)
(* A transaction is [send, nonce, price]: all that is published for one    *)
(* call of Send carries the same data, at increasing prices.  L1 is        *)
(* external: a pool that holds one transaction per nonce, and a chain of   *)
(* the transactions of this account.  Only the confirmations of a mined    *)
(* transaction are counted, up to NumConfirmations.                        *)
(***************************************************************************)
EXTENDS Integers, Sequences, FiniteSets

CONSTANTS
    None,
    Sends,                       \* the calls of Send
    MaxPrice,                    \* bound: how often the price of a send is raised
    NumConfirmations, SafeAbortNonceTooLowCount,
    ReorgDepth,                  \* how many blocks a reorg of L1 takes back
    MaxReorgs                    \* bound: reorgs of L1

ASSUME TxManagerAssumption ==
    /\ MaxPrice \in [Sends -> Nat] /\ ReorgDepth \in Nat /\ MaxReorgs \in Nat
    /\ {NumConfirmations, SafeAbortNonceTooLowCount} \subseteq Nat \ {0}
    /\ ReorgDepth < NumConfirmations
    /\ None \notin Nat /\ None \notin [send : Sends, nonce : Nat, price : Nat]

VARIABLES
    \* L1
    chain, pool, reorgs,
    \* SimpleTxManager
    nonce,                       \* the last nonce that was given out, or None
    \* per call of Send
    phase,                       \* "new", "crafting", "sending", "receipt", "error"
    tx,                          \* the transaction at its present price
    publishing, waiting,         \* goroutines that publish, and that wait for a receipt
    fetched,                     \* receipts of goroutines that have yet to learn the L1 head
    receiptChan,
    \* its SendState
    minedTxs, nonceTooLowCount

l1Vars == <<chain, pool, reorgs>>
stateVars == <<minedTxs, nonceTooLowCount>>
vars == <<l1Vars, nonce, phase, tx, publishing, waiting, fetched, receiptChan, stateVars>>

Txs == [send : Sends, nonce : Nat, price : Nat]

(* A receipt names a height of L1: depth counts the blocks from there to   *)
(* the head.  That a reorg has since taken the block of the receipt away   *)
(* is not visible to the program.                                          *)
Receipts == [tx : Txs, depth : 1 .. NumConfirmations, stale : BOOLEAN]

-----------------------------------------------------------------------------
(* L1 *)

AccountNonce == Len(chain)
OnChain(t) == \E i \in DOMAIN chain : chain[i].tx = t
ConfirmationsOf(t) == LET i == CHOOSE i \in DOMAIN chain : chain[i].tx = t IN chain[i].confirmations

WithNonce(n) == {t \in pool : t.nonce = n}

Older(n) == IF n < NumConfirmations THEN n + 1 ELSE n

(* A block, empty or with the next transaction of the account *)
NewBlock ==
    LET older == [i \in DOMAIN chain |-> [chain[i] EXCEPT !.confirmations = Older(@)]]
    IN /\ \/ chain' = older /\ UNCHANGED pool
          \/ \E t \in WithNonce(AccountNonce) :
                chain' = Append(older, [tx |-> t, confirmations |-> 1]) /\ pool' = pool \ {t}
       /\ fetched' = [s \in Sends |-> {[r EXCEPT !.depth = Older(@)] : r \in fetched[s]}]
       /\ UNCHANGED <<reorgs, nonce, phase, tx, publishing, waiting, receiptChan, stateVars>>

(* The last blocks are replaced by as many empty ones.  Their transactions *)
(* return to the pool or are lost.                                         *)
Reorg ==
    /\ reorgs < MaxReorgs /\ reorgs' = reorgs + 1
    /\ \E n \in 0 .. Len(chain) :
        LET out == {chain[i].tx : i \in n + 1 .. Len(chain)}
        IN /\ \A i \in DOMAIN chain : i <= n <=> chain[i].confirmations > ReorgDepth
           /\ chain' = SubSeq(chain, 1, n)
           /\ \E back \in SUBSET out :
                pool' = back \cup {t \in pool : \A b \in back : b.nonce # t.nonce}
           /\ fetched' = [s \in Sends |->
                {[r EXCEPT !.stale = @ \/ r.tx \in out] : r \in fetched[s]}]
    /\ UNCHANGED <<nonce, phase, tx, publishing, waiting, receiptChan, stateVars>>

(* The answers to SendTransaction *)
SendResults(t) ==
    LET other == WithNonce(t.nonce)
    IN IF t.nonce < AccountNonce THEN {"nonceTooLow", "failed"}
       ELSE IF \A o \in other : o.price < t.price THEN {"ok", "answerLost", "failed"}
       ELSE {"refused"}

-----------------------------------------------------------------------------
(* Send *)

(* Every error of a send forgets the nonce. *)
Fail(s) ==
    /\ phase' = [phase EXCEPT ![s] = "error"]
    /\ tx' = [tx EXCEPT ![s] = None]
    /\ nonce' = None

(* The goroutines and the SendState of a send end with it.  What is on its *)
(* way to L1 may still arrive there.                                       *)
Ends(s) ==
    /\ waiting' = [waiting EXCEPT ![s] = {}]
    /\ fetched' = [fetched EXCEPT ![s] = {}]
    /\ minedTxs' = [minedTxs EXCEPT ![s] = {}]
    /\ nonceTooLowCount' = [nonceTooLowCount EXCEPT ![s] = 0]

(* Calls that come at once may be given the same nonce. *)
NextNonce_Unlocked(s) ==
    IF nonce = None THEN {AccountNonce}
    ELSE {nonce + 1} \cup {nonce : t \in {u \in Sends : phase[u] = "crafting"}}

NextNonce(s) == {IF nonce = None THEN AccountNonce ELSE nonce + 1}

(* craftTx up to the nonce; the queries before may fail, also the one for  *)
(* the nonce.                                                              *)
TakeNonce(s) ==
    /\ phase[s] = "new"
    /\ \/ \E n \in NextNonce(s) :
            /\ nonce' = n
            /\ tx' = [tx EXCEPT ![s] = [send |-> s, nonce |-> n, price |-> 0]]
            /\ phase' = [phase EXCEPT ![s] = "crafting"]
       \/ Fail(s)
    /\ UNCHANGED <<l1Vars, publishing, waiting, fetched, receiptChan, stateVars>>

(* The rest of craftTx, which may fail, and the first publication *)
CraftTx(s) ==
    /\ phase[s] = "crafting"
    /\ \/ /\ phase' = [phase EXCEPT ![s] = "sending"]
          /\ publishing' = [publishing EXCEPT ![s] = {tx[s]}]
          /\ UNCHANGED <<nonce, tx>>
       \/ Fail(s) /\ UNCHANGED publishing
    /\ UNCHANGED <<l1Vars, waiting, fetched, receiptChan, stateVars>>

Adds(t) == pool' = {t} \cup {o \in pool : o.nonce # t.nonce}

(* A goroutine of publishAndWaitForTx publishes.  On every error it gives  *)
(* up its transaction, also when L1 has it and only the answer was lost.   *)
Publish(s, t, result) ==
    /\ t \in publishing[s] /\ result \in SendResults(t)
    /\ publishing' = [publishing EXCEPT ![s] = @ \ {t}]
    /\ IF result \in {"ok", "answerLost"} THEN Adds(t) ELSE UNCHANGED pool
    /\ waiting' = IF result = "ok" /\ phase[s] = "sending"
                  THEN [waiting EXCEPT ![s] = @ \cup {t}] ELSE waiting
    /\ nonceTooLowCount' = IF /\ result = "nonceTooLow" /\ phase[s] = "sending"
                              /\ nonceTooLowCount[s] < SafeAbortNonceTooLowCount
                           THEN [nonceTooLowCount EXCEPT ![s] = @ + 1] ELSE nonceTooLowCount
    /\ UNCHANGED <<chain, reorgs, nonce, phase, tx, fetched, receiptChan, minedTxs>>

TxMined(s, t) ==
    /\ minedTxs' = [minedTxs EXCEPT ![s] = @ \cup {t}]
    /\ UNCHANGED nonceTooLowCount

(* A transaction that was mined once counts as mined. *)
TxNotMined_Keeps(s, t) == UNCHANGED stateVars

(* The count starts over when a reorg took the last mined transaction. *)
TxNotMined(s, t) ==
    /\ minedTxs' = [minedTxs EXCEPT ![s] = @ \ {t}]
    /\ nonceTooLowCount' = IF minedTxs[s] = {t} THEN [nonceTooLowCount EXCEPT ![s] = 0] ELSE nonceTooLowCount

(* A goroutine of waitMined asks for its receipt, queryReceipt up to the   *)
(* request for the L1 head.  When the request fails nothing happens.       *)
FetchReceipt(s, t) ==
    /\ t \in waiting[s]
    /\ \/ /\ ~OnChain(t)
          /\ TxNotMined(s, t)
          /\ UNCHANGED <<waiting, fetched>>
       \/ /\ OnChain(t)
          /\ TxMined(s, t)
          /\ waiting' = [waiting EXCEPT ![s] = @ \ {t}]
          /\ fetched' = [fetched EXCEPT ![s] =
                @ \cup {[tx |-> t, depth |-> ConfirmationsOf(t), stale |-> FALSE]}]
    /\ UNCHANGED <<l1Vars, nonce, phase, tx, publishing, receiptChan>>

(* One confirmation less is enough. *)
Confirmed_OffByOne(r) == r.depth + 1 >= NumConfirmations

Confirmed(r) == r.depth >= NumConfirmations

(* The goroutine goes back to waiting. *)
AsksAgain(s, r) ==
    /\ waiting' = [waiting EXCEPT ![s] = @ \cup {r.tx}]
    /\ UNCHANGED receiptChan

(* The rest of queryReceipt: the number of the L1 head is compared with    *)
(* the height in the receipt, which is not asked for again.                *)
ReadTip(s, r) ==
    /\ r \in fetched[s]
    /\ fetched' = [fetched EXCEPT ![s] = @ \ {r}]
    /\ IF Confirmed(r)
       THEN /\ receiptChan' = IF receiptChan[s] = None THEN [receiptChan EXCEPT ![s] = r] ELSE receiptChan
            /\ UNCHANGED waiting
       ELSE AsksAgain(s, r)
    /\ UNCHANGED <<l1Vars, nonce, phase, tx, publishing, stateVars>>

(* The request for the L1 head fails. *)
TipFails(s, r) ==
    /\ r \in fetched[s]
    /\ fetched' = [fetched EXCEPT ![s] = @ \ {r}]
    /\ AsksAgain(s, r)
    /\ UNCHANGED <<l1Vars, nonce, phase, tx, publishing, stateVars>>

(* No send was published; whether the deadline has passed is open. *)
Unpublished(s) == waiting[s] = {} /\ fetched[s] = {} /\ receiptChan[s] = None

(* A transaction whose nonce is used is sent again with the next one. *)
IncreaseGasPrice_NewNonce(s) ==
    {[tx[s] EXCEPT !.price = p, !.nonce = IF @ < AccountNonce THEN AccountNonce ELSE @] :
        p \in (0 .. MaxPrice[s]) \cap {tx[s].price, tx[s].price + 1}}

(* The price is raised, or not when L1 asks for no more. *)
IncreaseGasPrice(s) ==
    {[tx[s] EXCEPT !.price = p] : p \in (0 .. MaxPrice[s]) \cap {tx[s].price, tx[s].price + 1}}

(* The ticker of sendTx: nothing while a transaction is mined; give up, or *)
(* publish again.                                                          *)
Resubmit(s) ==
    /\ phase[s] = "sending" /\ minedTxs[s] = {}
    /\ \/ /\ nonceTooLowCount[s] >= SafeAbortNonceTooLowCount \/ Unpublished(s)
          /\ Fail(s) /\ Ends(s)
          /\ UNCHANGED publishing
       \/ /\ nonceTooLowCount[s] < SafeAbortNonceTooLowCount
          /\ \E t \in IncreaseGasPrice(s) :
                /\ tx' = [tx EXCEPT ![s] = t]
                /\ publishing' = [publishing EXCEPT ![s] = @ \cup {t}]
          /\ UNCHANGED <<nonce, phase, waiting, fetched, stateVars>>
    /\ UNCHANGED <<l1Vars, receiptChan>>

(* The context of the send is done: cancelled by the caller, or timed out. *)
Cancel(s) ==
    /\ phase[s] = "sending"
    /\ Fail(s) /\ Ends(s)
    /\ UNCHANGED <<l1Vars, publishing, receiptChan>>

Return(s) ==
    /\ phase[s] = "sending" /\ receiptChan[s] # None
    /\ phase' = [phase EXCEPT ![s] = "receipt"]
    /\ Ends(s)
    /\ UNCHANGED <<l1Vars, nonce, tx, publishing, receiptChan>>

-----------------------------------------------------------------------------
Init ==
    /\ chain = <<>> /\ pool = {} /\ reorgs = 0
    /\ nonce = None
    /\ phase = [s \in Sends |-> "new"]
    /\ tx = [s \in Sends |-> None]
    /\ publishing = [s \in Sends |-> {}] /\ waiting = [s \in Sends |-> {}]
    /\ fetched = [s \in Sends |-> {}]
    /\ receiptChan = [s \in Sends |-> None]
    /\ minedTxs = [s \in Sends |-> {}] /\ nonceTooLowCount = [s \in Sends |-> 0]

Publishes(s) == \E t \in publishing[s] : \E result \in SendResults(t) : Publish(s, t, result)
PublishIsAnswered(s) ==
    \E t \in publishing[s] : \E result \in SendResults(t) \ {"failed", "answerLost"} : Publish(s, t, result)
FetchesReceipt(s) == \E t \in waiting[s] : FetchReceipt(s, t)
ReadsTip(s) == \E r \in fetched[s] : ReadTip(s, r)

Next ==
    \/ NewBlock \/ Reorg
    \/ \E s \in Sends :
        \/ TakeNonce(s) \/ CraftTx(s) \/ Publishes(s)
        \/ FetchesReceipt(s) \/ ReadsTip(s) \/ \E r \in fetched[s] : TipFails(s, r)
        \/ Resubmit(s) \/ Cancel(s) \/ Return(s)

(* L1 goes on, the tickers tick, no request takes for ever, and of the     *)
(* requests that are made again and again some are answered.               *)
Spec ==
    /\ Init /\ [][Next]_vars
    /\ WF_vars(NewBlock)
    /\ \A s \in Sends :
        /\ WF_vars(Publishes(s)) /\ SF_vars(PublishIsAnswered(s))
        /\ WF_vars(FetchesReceipt(s)) /\ SF_vars(ReadsTip(s))
        /\ WF_vars(Resubmit(s)) /\ WF_vars(Return(s))

-----------------------------------------------------------------------------
Blocks == [tx : Txs, confirmations : 1 .. NumConfirmations]

(* The variables have their types. *)
TypeOK ==
    /\ chain \in Seq(Blocks) /\ pool \subseteq Txs /\ reorgs \in Nat
    /\ nonce \in Nat \cup {None}
    /\ phase \in [Sends -> {"new", "crafting", "sending", "receipt", "error"}]
    /\ tx \in [Sends -> Txs \cup {None}]
    /\ publishing \in [Sends -> SUBSET Txs] /\ waiting \in [Sends -> SUBSET Txs]
    /\ fetched \in [Sends -> SUBSET Receipts]
    /\ receiptChan \in [Sends -> Receipts \cup {None}]
    /\ minedTxs \in [Sends -> SUBSET Txs]
    /\ nonceTooLowCount \in [Sends -> 0 .. SafeAbortNonceTooLowCount]

(* A receipt that Send returned is of a transaction of this call.  It      *)
(* stays on L1, for no reorg less deep than NumConfirmations takes it      *)
(* back, unless L1 took it back while queryReceipt was between its two     *)
(* requests: the depth is then that of a block that is no longer there.    *)
ReceiptStands ==
    \A s \in Sends : phase[s] = "receipt" =>
        LET r == receiptChan[s]
        IN /\ r.tx.send = s
           /\ ~r.stale => OnChain(r.tx) /\ ConfirmationsOf(r.tx) = NumConfirmations

(* Whatever is resubmitted, lost or reorged: what one call of Send carries *)
(* is never on L1 twice (increaseGasPrice keeps the nonce).                *)
SentOnce ==
    \A i, j \in DOMAIN chain : chain[i].tx.send = chain[j].tx.send => i = j

(* As long as no send fails, L1 never uses the nonce of a send for the     *)
(* transaction of another one, however the calls overlap: "Send can be     *)
(* called concurrently, the nonce will be managed internally"              *)
(* (txmgr.go:134).  After a failure two sends may have the same nonce      *)
(* (resetNonce).                                                           *)
NonceNotTaken ==
    (\A s \in Sends : phase[s] # "error") =>
        \A s \in Sends : phase[s] # "new" =>
            \A i \in DOMAIN chain : chain[i].tx.nonce = tx[s].nonce => chain[i].tx.send = s

Outcome == [s \in Sends |->
    IF phase[s] = "receipt" /\ receiptChan[s].stale THEN "stale"
    ELSE IF phase[s] \in {"receipt", "error"} THEN phase[s] ELSE "pending"]
SendsOnL1 == [i \in DOMAIN chain |-> chain[i].tx.send]
Doubtful == {s \in Sends : \/ \E r \in fetched[s] : r.stale
                           \/ receiptChan[s] # None /\ receiptChan[s].stale}

Sender == INSTANCE TxSender WITH outcome <- Outcome, onL1 <- SendsOnL1, doubtful <- Doubtful

(* The manager keeps what Send promises its callers, module TxSender: a    *)
(* receipt only for what L1 has carried out and will not take back, a      *)
(* receipt that does not stand only when L1 took it back during the query  *)
(* that found it, an error at any time, no other outcome after it, and     *)
(* nothing carried out twice, whatever is resubmitted, lost or reorged.    *)
ImplementsSender == Sender!Spec

(* A send does not hang once its nonce is used on L1 for good, by its own  *)
(* transaction or by one of another send that was given the same nonce     *)
(* (SendState: a mined transaction that is reorged out is forgotten, and   *)
(* nonce-too-low errors end the send).                                     *)
SendEnds ==
    \A s \in Sends : []<>~(phase[s] = "sending" /\ tx[s].nonce < AccountNonce)
=============================================================================
