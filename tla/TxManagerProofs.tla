--------------------------- MODULE TxManagerProofs ---------------------------
(***************************************************************************)
(* Proofs for module TxManager, for any number of sends, prices,           *)
(* confirmations and reorgs.                                               *)
(***************************************************************************)
EXTENDS TxManager, TxFees, TLAPS

(* The transactions of this account, wherever they are *)
ChainTxs == {chain[i].tx : i \in DOMAIN chain}
SendTxs(s) == publishing[s] \cup waiting[s] \cup {r.tx : r \in fetched[s]} \cup ({tx[s]} \ {None})
Everywhere == ChainTxs \cup pool \cup UNION {SendTxs(s) : s \in Sends}

(* The chain uses the nonces in order. *)
ChainInOrder == \A i \in DOMAIN chain : chain[i].tx.nonce = i - 1

(* What a send publishes is its own, and it has published nothing before   *)
(* it was given a nonce.                                                   *)
OwnTxs ==
    \A s \in Sends :
        /\ \A t \in SendTxs(s) : t.send = s
        /\ phase[s] \in {"crafting", "sending", "receipt"} => tx[s] # None
        /\ phase[s] = "new" => \A t \in Everywhere : t.send # s

(* All transactions of one send have the same nonce. *)
OneNonce == \A t, u \in Everywhere : t.send = u.send => t.nonce = u.nonce

(* The block of a receipt that is not stale is on L1, as deep as the       *)
(* receipt says; one in the channel is deep enough to stay there.          *)
Stands(r) == ~r.stale => \E i \in DOMAIN chain : chain[i].tx = r.tx /\ chain[i].confirmations = r.depth

ReceiptsFinal ==
    \A s \in Sends :
        /\ \A r \in fetched[s] : Stands(r)
        /\ receiptChan[s] # None =>
            /\ receiptChan[s].tx.send = s /\ receiptChan[s].depth = NumConfirmations
            /\ Stands(receiptChan[s])
        /\ phase[s] = "receipt" => receiptChan[s] # None

(* As long as no send fails, the nonces given out are different, and the   *)
(* last one is the greatest.                                               *)
DistinctNonces ==
    (\A s \in Sends : phase[s] # "error") =>
        /\ \A s \in Sends : phase[s] # "new" => tx[s] # None /\ nonce # None /\ tx[s].nonce <= nonce
        /\ \A s, u \in Sends : phase[s] # "new" /\ phase[u] # "new" /\ tx[s].nonce = tx[u].nonce => s = u

IInv ==
    /\ TypeOK
    /\ ChainInOrder
    /\ OwnTxs
    /\ OneNonce
    /\ ReceiptsFinal
    /\ DistinctNonces

-----------------------------------------------------------------------------
LEMMA Constants ==
    /\ NumConfirmations \in Nat \ {0} /\ SafeAbortNonceTooLowCount \in Nat \ {0}
    /\ ReorgDepth \in Nat /\ ReorgDepth < NumConfirmations
    /\ None \notin Nat /\ None \notin Txs
BY TxManagerAssumption DEF Txs

LEMMA FunctionIsSeq ==
    ASSUME NEW S, NEW n \in Nat, NEW f \in [1 .. n -> S]
    PROVE  f \in Seq(S) /\ Len(f) = n /\ DOMAIN f = 1 .. n
OBVIOUS

LEMMA AppendFacts ==
    ASSUME NEW S, NEW q \in Seq(S), NEW e \in S
    PROVE  /\ Append(q, e) \in Seq(S) /\ DOMAIN Append(q, e) = 1 .. Len(q) + 1
           /\ \A i \in 1 .. Len(q) : Append(q, e)[i] = q[i]
           /\ Append(q, e)[Len(q) + 1] = e
OBVIOUS

LEMMA SubSeqFacts ==
    ASSUME NEW S, NEW q \in Seq(S), NEW n \in 0 .. Len(q)
    PROVE  /\ SubSeq(q, 1, n) \in Seq(S) /\ DOMAIN SubSeq(q, 1, n) = 1 .. n
           /\ \A i \in 1 .. n : SubSeq(q, 1, n)[i] = q[i]
OBVIOUS

LEMMA InEverywhere ==
    \A t : t \in Everywhere <=>
        \/ \E i \in DOMAIN chain : t = chain[i].tx
        \/ t \in pool
        \/ \E s \in Sends : \/ t \in publishing[s] \/ t \in waiting[s] \/ (t = tx[s] /\ t # None)
                           \/ \E r \in fetched[s] : t = r.tx
BY DEF Everywhere, ChainTxs, SendTxs

LEMMA InEverywhereNext ==
    \A t : t \in Everywhere' <=>
        \/ \E i \in DOMAIN chain' : t = chain'[i].tx
        \/ t \in pool'
        \/ \E s \in Sends : \/ t \in publishing'[s] \/ t \in waiting'[s] \/ (t = tx'[s] /\ t # None)
                           \/ \E r \in fetched'[s] : t = r.tx
BY DEF Everywhere, ChainTxs, SendTxs

LEMMA SameChain == ChainInOrder /\ UNCHANGED chain => ChainInOrder'
BY DEF ChainInOrder

-----------------------------------------------------------------------------
LEMMA InitHolds == Init => IInv
<1> SUFFICES ASSUME Init PROVE IInv
    OBVIOUS
<1>1. TypeOK
    BY Constants DEF Init, TypeOK
<1>2. \A t : t \notin Everywhere
    BY InEverywhere DEF Init
<1>3. ChainInOrder
    BY DEF Init, ChainInOrder
<1>4. OwnTxs
    BY <1>2 DEF Init, OwnTxs, SendTxs
<1>5. OneNonce
    BY <1>2 DEF OneNonce
<1>6. ReceiptsFinal
    BY DEF Init, ReceiptsFinal
<1>7. DistinctNonces
    BY DEF Init, DistinctNonces
<1> QED
    BY <1>1, <1>3, <1>4, <1>5, <1>6, <1>7 DEF IInv

(* A block keeps what is on the chain, and takes a transaction of the pool. *)
LEMMA NewBlockChain ==
    ASSUME TypeOK, NewBlock
    PROVE  /\ chain' \in Seq(Blocks) /\ pool' \subseteq pool
           /\ \A i \in DOMAIN chain :
                /\ i \in DOMAIN chain' /\ chain'[i].tx = chain[i].tx
                /\ chain'[i].confirmations = Older(chain[i].confirmations)
           /\ \/ DOMAIN chain' = DOMAIN chain
              \/ /\ DOMAIN chain' = 1 .. Len(chain) + 1
                 /\ chain'[Len(chain) + 1].tx \in pool /\ chain'[Len(chain) + 1].tx.nonce = Len(chain)
<1> DEFINE Aged(b) == [b EXCEPT !.confirmations = Older(@)]
<1>o. PICK older : older = [i \in DOMAIN chain |-> Aged(chain[i])]
    OBVIOUS
<1>d. chain \in Seq(Blocks) /\ DOMAIN chain = 1 .. Len(chain) /\ Len(chain) \in Nat
    BY DEF TypeOK
<1>1. /\ older \in Seq(Blocks) /\ Len(older) = Len(chain) /\ DOMAIN older = 1 .. Len(chain)
      /\ \A i \in DOMAIN chain : /\ older[i].tx = chain[i].tx
                                 /\ older[i].confirmations = Older(chain[i].confirmations)
    <2>1. \A b \in Blocks : /\ Aged(b) \in Blocks /\ Aged(b).tx = b.tx
                            /\ Aged(b).confirmations = Older(b.confirmations)
        BY Constants DEF Blocks, Older
    <2>2. \A i \in 1 .. Len(chain) : chain[i] \in Blocks
        BY <1>d
    <2> HIDE DEF Aged
    <2>3. older \in [1 .. Len(chain) -> Blocks] /\ \A i \in 1 .. Len(chain) : older[i] = Aged(chain[i])
        BY <2>1, <2>2, <1>d, <1>o
    <2>4. older \in Seq(Blocks) /\ Len(older) = Len(chain) /\ DOMAIN older = 1 .. Len(chain)
        BY <2>3, <1>d, FunctionIsSeq
    <2> QED
        BY <2>1, <2>2, <2>3, <2>4, <1>d
<1>2. \/ chain' = older /\ pool' = pool
      \/ \E t \in pool : /\ t.nonce = Len(chain) /\ pool' = pool \ {t}
                         /\ chain' = Append(older, [tx |-> t, confirmations |-> 1])
    BY <1>o DEF NewBlock, WithNonce, AccountNonce
<1>3. CASE chain' = older /\ pool' = pool
    <2>1. chain' \in Seq(Blocks) /\ DOMAIN chain' = DOMAIN chain
        BY <1>3, <1>1, <1>d
    <2> QED
        BY <1>3, <2>1, <1>1
<1>4. CASE \E t \in pool : /\ t.nonce = Len(chain) /\ pool' = pool \ {t}
                           /\ chain' = Append(older, [tx |-> t, confirmations |-> 1])
    <2>0. PICK t \in pool : /\ t.nonce = Len(chain) /\ pool' = pool \ {t}
                            /\ chain' = Append(older, [tx |-> t, confirmations |-> 1])
        BY <1>4
    <2> DEFINE b == [tx |-> t, confirmations |-> 1]
    <2>1. b \in Blocks /\ b.tx = t
        BY Constants DEF Blocks, TypeOK
    <2> HIDE DEF b
    <2>2. /\ chain' \in Seq(Blocks) /\ DOMAIN chain' = 1 .. Len(chain) + 1
          /\ \A i \in 1 .. Len(chain) : chain'[i] = older[i]
          /\ chain'[Len(chain) + 1] = b
        BY <2>0, <2>1, <1>1, AppendFacts DEF b
    <2>3. \A i \in DOMAIN chain : i \in DOMAIN chain' /\ chain'[i] = older[i]
        BY <2>2, <1>d
    <2>4. pool' \subseteq pool
        BY <2>0
    <2> QED
        BY <2>0, <2>1, <2>2, <2>3, <2>4, <1>1
<1> QED
    BY <1>2, <1>3, <1>4

(* What L1 does to the receipts that were fetched *)
LEMMA NewBlockReceipts ==
    ASSUME TypeOK, NewBlock
    PROVE  /\ fetched' \in [Sends -> SUBSET Receipts]
           /\ \A s \in Sends : \A q \in fetched'[s] : \E r \in fetched[s] :
                q.tx = r.tx /\ q.stale = r.stale /\ q.depth = Older(r.depth)
<1> DEFINE Aged(r) == [r EXCEPT !.depth = Older(@)]
<1>1. \A r \in Receipts : /\ Aged(r) \in Receipts /\ Aged(r).tx = r.tx /\ Aged(r).stale = r.stale
                          /\ Aged(r).depth = Older(r.depth)
    BY Constants DEF Receipts, Older
<1>2. fetched' = [s \in Sends |-> {Aged(r) : r \in fetched[s]}]
    BY DEF NewBlock
<1>3. \A s \in Sends : fetched[s] \subseteq Receipts
    BY DEF TypeOK
<1> HIDE DEF Aged
<1> QED
    BY <1>1, <1>2, <1>3

LEMMA ReorgReceipts ==
    ASSUME TypeOK, Reorg
    PROVE  /\ fetched' \in [Sends -> SUBSET Receipts]
           /\ \E n \in 0 .. Len(chain) :
                /\ \A i \in DOMAIN chain : i <= n <=> chain[i].confirmations > ReorgDepth
                /\ chain' = SubSeq(chain, 1, n)
                /\ \E back \in SUBSET {chain[i].tx : i \in n + 1 .. Len(chain)} :
                     pool' = back \cup {t \in pool : \A b \in back : b.nonce # t.nonce}
                /\ \A s \in Sends : \A q \in fetched'[s] : \E r \in fetched[s] :
                     /\ q.tx = r.tx /\ q.depth = r.depth
                     /\ q.stale <=> r.stale \/ \E i \in n + 1 .. Len(chain) : r.tx = chain[i].tx
<1>1. PICK n \in 0 .. Len(chain) :
        /\ \A i \in DOMAIN chain : i <= n <=> chain[i].confirmations > ReorgDepth
        /\ chain' = SubSeq(chain, 1, n)
        /\ \E back \in SUBSET {chain[i].tx : i \in n + 1 .. Len(chain)} :
             pool' = back \cup {t \in pool : \A b \in back : b.nonce # t.nonce}
        /\ fetched' = [s \in Sends |->
             {[r EXCEPT !.stale = @ \/ r.tx \in {chain[i].tx : i \in n + 1 .. Len(chain)}] : r \in fetched[s]}]
    BY DEF Reorg
<1> DEFINE Out(t) == t \in {chain[i].tx : i \in n + 1 .. Len(chain)}
           Marked(r) == [r EXCEPT !.stale = @ \/ Out(r.tx)]
<1>2. \A r \in Receipts : /\ Marked(r) \in Receipts /\ Marked(r).tx = r.tx /\ Marked(r).depth = r.depth
                          /\ Marked(r).stale <=> r.stale \/ Out(r.tx)
    <2> HIDE DEF Out
    <2> QED
        BY DEF Receipts
<1>3. \A t : Out(t) <=> \E i \in n + 1 .. Len(chain) : t = chain[i].tx
    OBVIOUS
<1>4. fetched' = [s \in Sends |-> {Marked(r) : r \in fetched[s]}]
    BY <1>1
<1>5. \A s \in Sends : fetched[s] \subseteq Receipts
    BY DEF TypeOK
<1> HIDE DEF Marked, Out
<1>6. /\ fetched' \in [Sends -> SUBSET Receipts]
      /\ \A s \in Sends : \A q \in fetched'[s] : \E r \in fetched[s] :
             /\ q.tx = r.tx /\ q.depth = r.depth
             /\ q.stale <=> r.stale \/ \E i \in n + 1 .. Len(chain) : r.tx = chain[i].tx
    BY <1>2, <1>3, <1>4, <1>5
<1> QED
    BY <1>1, <1>6

(* A block: the transaction it takes was in the pool, and a receipt ages   *)
(* with its block.                                                         *)
LEMMA NewBlockHolds == IInv /\ NewBlock => IInv'
<1> SUFFICES ASSUME IInv, NewBlock PROVE IInv'
    OBVIOUS
<1>0. TypeOK /\ ChainInOrder /\ OwnTxs /\ OneNonce /\ ReceiptsFinal /\ DistinctNonces
    BY DEF IInv
<1>u. UNCHANGED <<reorgs, nonce, phase, tx, publishing, waiting, receiptChan, minedTxs, nonceTooLowCount>>
    BY DEF NewBlock, stateVars
<1>d. chain \in Seq(Blocks) /\ DOMAIN chain = 1 .. Len(chain) /\ Len(chain) \in Nat
    BY <1>0 DEF TypeOK
<1>2. chain' \in Seq(Blocks) /\ pool' \subseteq pool
    BY <1>0, NewBlockChain
<1>3. \A i \in DOMAIN chain : /\ i \in DOMAIN chain' /\ chain'[i].tx = chain[i].tx
                              /\ chain'[i].confirmations = Older(chain[i].confirmations)
    BY <1>0, NewBlockChain
<1>4. \A i \in DOMAIN chain' : \/ i \in DOMAIN chain /\ chain'[i].tx = chain[i].tx
                               \/ i = Len(chain) + 1 /\ chain'[i].tx \in pool /\ chain'[i].tx.nonce = Len(chain)
    BY <1>0, <1>3, <1>d, NewBlockChain
<1>f. /\ fetched' \in [Sends -> SUBSET Receipts]
      /\ \A s \in Sends : \A q \in fetched'[s] : \E r \in fetched[s] :
            q.tx = r.tx /\ q.stale = r.stale /\ q.depth = Older(r.depth)
    BY <1>0, NewBlockReceipts
<1>5. TypeOK'
    <2>1. pool' \subseteq Txs
        BY <1>0, <1>2 DEF TypeOK
    <2> QED
        BY <2>1, <1>2, <1>f, <1>0, <1>u DEF TypeOK
<1>6. ChainInOrder'
    BY <1>0, <1>4, <1>d DEF ChainInOrder
<1>t. \A s \in Sends : \A t \in SendTxs(s)' : t \in SendTxs(s)
    BY <1>f, <1>u DEF SendTxs
<1>7. \A t \in Everywhere' : t \in Everywhere
    BY <1>2, <1>4, <1>f, <1>u, InEverywhere, InEverywhereNext
<1>8. OwnTxs' /\ OneNonce' /\ DistinctNonces'
    BY <1>0, <1>7, <1>t, <1>u DEF OwnTxs, OneNonce, DistinctNonces
<1>9. ReceiptsFinal'
    <2>1. ASSUME NEW r, NEW q, Stands(r), q.tx = r.tx, q.stale = r.stale, q.depth = Older(r.depth)
          PROVE  Stands(q)'
        BY <2>1, <1>3 DEF Stands
    <2>2. Older(NumConfirmations) = NumConfirmations
        BY Constants DEF Older
    <2> QED
        BY <2>1, <2>2, <1>0, <1>f, <1>u DEF ReceiptsFinal
<1> QED
    BY <1>5, <1>6, <1>8, <1>9 DEF IInv

(* A reorg: it stops above what has NumConfirmations, and what it takes    *)
(* makes receipts stale.                                                   *)
LEMMA ReorgHolds == IInv /\ Reorg => IInv'
<1> SUFFICES ASSUME IInv, Reorg PROVE IInv'
    OBVIOUS
<1>0. TypeOK /\ ChainInOrder /\ OwnTxs /\ OneNonce /\ ReceiptsFinal /\ DistinctNonces
    BY DEF IInv
<1>u. UNCHANGED <<nonce, phase, tx, publishing, waiting, receiptChan, minedTxs, nonceTooLowCount>>
    BY DEF Reorg, stateVars
<1>d. chain \in Seq(Blocks) /\ DOMAIN chain = 1 .. Len(chain) /\ Len(chain) \in Nat
    BY <1>0 DEF TypeOK
<1>1. PICK n \in 0 .. Len(chain) :
        /\ \A i \in DOMAIN chain : i <= n <=> chain[i].confirmations > ReorgDepth
        /\ chain' = SubSeq(chain, 1, n)
        /\ \E back \in SUBSET {chain[i].tx : i \in n + 1 .. Len(chain)} :
             pool' = back \cup {t \in pool : \A b \in back : b.nonce # t.nonce}
        /\ \A s \in Sends : \A q \in fetched'[s] : \E r \in fetched[s] :
             /\ q.tx = r.tx /\ q.depth = r.depth
             /\ q.stale <=> r.stale \/ \E i \in n + 1 .. Len(chain) : r.tx = chain[i].tx
    BY <1>0, ReorgReceipts
<1>f. fetched' \in [Sends -> SUBSET Receipts]
    BY <1>0, ReorgReceipts
<1>2. /\ chain' \in Seq(Blocks) /\ DOMAIN chain' = 1 .. n
      /\ \A i \in 1 .. n : i \in DOMAIN chain /\ chain'[i] = chain[i]
    BY <1>1, <1>d, SubSeqFacts
<1>3. \A t \in pool' : t \in pool \/ \E i \in DOMAIN chain : t = chain[i].tx
    BY <1>1, <1>d
<1>4. TypeOK'
    <2>0. \A i \in DOMAIN chain : chain[i] \in Blocks
        BY <1>d
    <2>1. \A i \in DOMAIN chain : chain[i].tx \in Txs
        BY <2>0 DEF Blocks
    <2>2. pool' \subseteq Txs
        BY <2>1, <1>3, <1>0 DEF TypeOK
    <2>3. reorgs' \in Nat
        <3>1. reorgs \in Nat /\ reorgs' = reorgs + 1
            BY <1>0 DEF TypeOK, Reorg
        <3> QED
            BY <3>1
    <2> QED
        BY <2>2, <2>3, <1>2, <1>f, <1>0, <1>u DEF TypeOK
<1>5. ChainInOrder'
    BY <1>0, <1>2 DEF ChainInOrder
<1>t. \A s \in Sends : \A t \in SendTxs(s)' : t \in SendTxs(s)
    BY <1>1, <1>u DEF SendTxs
<1>6. \A t \in Everywhere' : t \in Everywhere
    BY <1>1, <1>2, <1>3, <1>u, InEverywhere, InEverywhereNext
<1>7. OwnTxs' /\ OneNonce' /\ DistinctNonces'
    BY <1>0, <1>6, <1>t, <1>u DEF OwnTxs, OneNonce, DistinctNonces
<1>8. ReceiptsFinal'
    <2>1. \A i \in DOMAIN chain : chain[i].confirmations = NumConfirmations => i \in 1 .. n
        BY <1>1, <1>d, Constants
    <2>2. ASSUME NEW r, Stands(r), r.depth = NumConfirmations PROVE Stands(r)'
        BY <2>1, <2>2, <1>2 DEF Stands
    <2>3. ASSUME NEW s \in Sends, NEW q \in fetched'[s] PROVE Stands(q)'
        <3>1. PICK r \in fetched[s] :
                /\ q.tx = r.tx /\ q.depth = r.depth
                /\ q.stale <=> r.stale \/ \E i \in n + 1 .. Len(chain) : r.tx = chain[i].tx
            BY <1>1, <2>3
        <3>2. SUFFICES ASSUME ~q.stale
                       PROVE  \E i \in DOMAIN chain' : chain'[i].tx = q.tx /\ chain'[i].confirmations = q.depth
            BY DEF Stands
        <3>3. ~r.stale /\ \A i \in n + 1 .. Len(chain) : r.tx # chain[i].tx
            BY <3>1, <3>2
        <3>4. PICK i \in DOMAIN chain : chain[i].tx = r.tx /\ chain[i].confirmations = r.depth
            BY <3>3, <1>0 DEF ReceiptsFinal, Stands
        <3>5. i \in 1 .. n
            BY <3>3, <3>4, <1>d
        <3> QED
            BY <3>1, <3>4, <3>5, <1>2
    <2> QED
        BY <2>2, <2>3, <1>0, <1>u DEF ReceiptsFinal
<1> QED
    BY <1>4, <1>5, <1>7, <1>8 DEF IInv

-----------------------------------------------------------------------------
(* A nonce is given out: it is one that no other send has, unless a send   *)
(* has failed.                                                             *)
LEMMA TakeNonceHolds == ASSUME NEW s \in Sends PROVE IInv /\ TakeNonce(s) => IInv'
<1> SUFFICES ASSUME IInv, TakeNonce(s) PROVE IInv'
    OBVIOUS
<1>0. TypeOK /\ ChainInOrder /\ OwnTxs /\ OneNonce /\ ReceiptsFinal /\ DistinctNonces
    BY DEF IInv
<1>u. UNCHANGED <<chain, pool, reorgs, publishing, waiting, fetched, receiptChan, minedTxs, nonceTooLowCount>>
    BY DEF TakeNonce, stateVars, l1Vars
<1>n. phase[s] = "new"
    BY DEF TakeNonce
<1>a. ChainInOrder'
    BY <1>0, <1>u, SameChain
<1>1. CASE Fail(s)
    <2>1. /\ phase' = [phase EXCEPT ![s] = "error"] /\ tx' = [tx EXCEPT ![s] = None] /\ nonce' = None
        BY <1>1 DEF Fail
    <2>2. TypeOK'
        BY <2>1, <1>0, <1>u DEF TypeOK
    <2>3. \A t \in Everywhere' : t \in Everywhere
        BY <2>1, <1>0, <1>u, InEverywhere, InEverywhereNext DEF TypeOK
    <2>4. OwnTxs' /\ OneNonce'
        BY <2>1, <2>3, <1>0, <1>u DEF OwnTxs, OneNonce, SendTxs, TypeOK
    <2>5. ReceiptsFinal'
        BY <2>1, <1>0, <1>u DEF ReceiptsFinal, Stands, TypeOK
    <2>6. DistinctNonces'
        BY <2>1, <1>0 DEF DistinctNonces, TypeOK
    <2> QED
        BY <2>2, <2>4, <2>5, <2>6, <1>a DEF IInv
<1>2. CASE ~Fail(s)
    <2>1. PICK n \in NextNonce(s) :
            /\ nonce' = n
            /\ tx' = [tx EXCEPT ![s] = [send |-> s, nonce |-> n, price |-> 0]]
            /\ phase' = [phase EXCEPT ![s] = "crafting"]
        BY <1>2 DEF TakeNonce
    <2>2. n \in Nat /\ (nonce # None => n = nonce + 1)
        BY <1>0 DEF NextNonce, AccountNonce, TypeOK
    <2> DEFINE new == [send |-> s, nonce |-> n, price |-> 0]
    <2>3. new \in Txs /\ new.send = s /\ new.nonce = n /\ new # None
        BY <2>2, Constants DEF Txs
    <2>4. tx' = [tx EXCEPT ![s] = new]
        BY <2>1
    <2> HIDE DEF new
    <2>5. TypeOK'
        BY <2>1, <2>2, <2>3, <2>4, <1>0, <1>u DEF TypeOK
    <2>6. \A t \in Everywhere' : t \in Everywhere \/ t = new
        BY <2>4, <1>0, <1>u, InEverywhere, InEverywhereNext DEF TypeOK
    <2>7. \A t \in Everywhere : t.send # s
        BY <1>0, <1>n DEF OwnTxs
    <2>8. OwnTxs'
        BY <2>1, <2>3, <2>4, <2>6, <1>0, <1>u DEF OwnTxs, SendTxs, TypeOK
    <2>9. OneNonce'
        BY <2>3, <2>6, <2>7, <1>0 DEF OneNonce
    <2>10. ReceiptsFinal'
        BY <2>1, <1>0, <1>u DEF ReceiptsFinal, Stands, TypeOK
    <2>11. DistinctNonces'
        <3> SUFFICES ASSUME \A u \in Sends : phase'[u] # "error" 
                     PROVE  /\ \A u \in Sends : phase'[u] # "new" => tx'[u] # None /\ nonce' # None /\ tx'[u].nonce <= nonce'
                            /\ \A v, u \in Sends : phase'[v] # "new" /\ phase'[u] # "new" /\ tx'[v].nonce = tx'[u].nonce => v = u
            BY DEF DistinctNonces
        <3>1. \A u \in Sends : phase[u] # "error"
            BY <2>1, <1>n, <1>0 DEF TypeOK
        <3>2. /\ \A u \in Sends : phase[u] # "new" => tx[u] # None /\ nonce # None /\ tx[u].nonce <= nonce
              /\ \A v, u \in Sends : phase[v] # "new" /\ phase[u] # "new" /\ tx[v].nonce = tx[u].nonce => v = u
            BY <3>1, <1>0 DEF DistinctNonces
        <3>3. \A u \in Sends : u # s => phase'[u] = phase[u] /\ tx'[u] = tx[u]
            BY <2>1, <2>4, <1>0 DEF TypeOK
        <3>4. phase'[s] = "crafting" /\ tx'[s] = new
            BY <2>1, <2>4, <1>0 DEF TypeOK
        <3>5. \A u \in Sends : phase[u] # "new" => tx[u].nonce \in Nat /\ nonce \in Nat /\ tx[u].nonce < n
            BY <3>2, <2>2, <1>0 DEF TypeOK, Txs
        <3> QED
            BY <3>2, <3>3, <3>4, <3>5, <2>1, <2>2, <2>3, Constants
    <2> QED
        BY <2>5, <2>8, <2>9, <2>10, <2>11, <1>a DEF IInv
<1> QED
    BY <1>1, <1>2

(* A send that fails takes its transaction away, and what DistinctNonces   *)
(* says is over.                                                           *)
LEMMA FailHolds ==
    ASSUME NEW s \in Sends, IInv, Fail(s),
           UNCHANGED <<chain, pool, reorgs, publishing, receiptChan>>,
           waiting' \in [Sends -> SUBSET Txs], \A u \in Sends : waiting'[u] \subseteq waiting[u],
           fetched' \in [Sends -> SUBSET Receipts], \A u \in Sends : fetched'[u] \subseteq fetched[u],
           minedTxs' \in [Sends -> SUBSET Txs],
           nonceTooLowCount' \in [Sends -> 0 .. SafeAbortNonceTooLowCount]
    PROVE  IInv'
<1>0. TypeOK /\ ChainInOrder /\ OwnTxs /\ OneNonce /\ ReceiptsFinal /\ DistinctNonces
    BY DEF IInv
<1>1. /\ phase' = [phase EXCEPT ![s] = "error"] /\ tx' = [tx EXCEPT ![s] = None] /\ nonce' = None
    BY DEF Fail
<1>2. TypeOK'
    BY <1>1, <1>0 DEF TypeOK
<1>7. \A u \in Sends : tx'[u] = tx[u] \/ tx'[u] = None
    BY <1>1, <1>0 DEF TypeOK
<1>3. \A t \in Everywhere' : t \in Everywhere
    BY <1>7, InEverywhere, InEverywhereNext
<1>4. OwnTxs' /\ OneNonce'
    BY <1>1, <1>3, <1>0 DEF OwnTxs, OneNonce, SendTxs, TypeOK
<1>5. ReceiptsFinal'
    BY <1>1, <1>0 DEF ReceiptsFinal, Stands, TypeOK
<1>6. DistinctNonces'
    BY <1>1, <1>0 DEF DistinctNonces, TypeOK
<1> QED
    BY <1>2, <1>4, <1>5, <1>6, <1>0, SameChain DEF IInv

LEMMA CraftTxHolds == ASSUME NEW s \in Sends PROVE IInv /\ CraftTx(s) => IInv'
<1> SUFFICES ASSUME IInv, CraftTx(s) PROVE IInv'
    OBVIOUS
<1>0. TypeOK /\ ChainInOrder /\ OwnTxs /\ OneNonce /\ ReceiptsFinal /\ DistinctNonces
    BY DEF IInv
<1>u. UNCHANGED <<chain, pool, reorgs, waiting, fetched, receiptChan, minedTxs, nonceTooLowCount>>
    BY DEF CraftTx, stateVars, l1Vars
<1>1. CASE Fail(s) /\ UNCHANGED publishing
    BY <1>1, <1>u, <1>0, FailHolds DEF TypeOK
<1>2. CASE ~(Fail(s) /\ UNCHANGED publishing)
    <2>1. /\ phase[s] = "crafting" /\ phase' = [phase EXCEPT ![s] = "sending"]
          /\ publishing' = [publishing EXCEPT ![s] = {tx[s]}]
          /\ UNCHANGED <<nonce, tx>>
        BY <1>2 DEF CraftTx
    <2>2. tx[s] \in Txs /\ tx[s] # None /\ tx[s].send = s
        BY <2>1, <1>0 DEF OwnTxs, TypeOK, SendTxs
    <2>3. TypeOK'
        BY <2>1, <2>2, <1>0, <1>u DEF TypeOK
    <2>8. \A u \in Sends : publishing'[u] \subseteq publishing[u] \cup {tx[s]}
        BY <2>1, <1>0 DEF TypeOK
    <2>4. \A t \in Everywhere' : t \in Everywhere
        BY <2>1, <2>2, <2>8, <1>u, InEverywhere, InEverywhereNext
    <2>5. OwnTxs' /\ OneNonce'
        BY <2>1, <2>2, <2>4, <1>0, <1>u DEF OwnTxs, OneNonce, SendTxs, TypeOK
    <2>6. ReceiptsFinal'
        BY <2>1, <1>0, <1>u DEF ReceiptsFinal, Stands, TypeOK
    <2>7. DistinctNonces'
        BY <2>1, <1>0 DEF DistinctNonces, TypeOK
    <2> QED
        BY <2>3, <2>5, <2>6, <2>7, <1>0, <1>u, SameChain DEF IInv
<1> QED
    BY <1>1, <1>2

LEMMA PublishHolds ==
    ASSUME NEW s \in Sends, NEW t \in publishing[s], NEW result, IInv, Publish(s, t, result)
    PROVE  IInv'
<1>0. TypeOK /\ ChainInOrder /\ OwnTxs /\ OneNonce /\ ReceiptsFinal /\ DistinctNonces
    BY DEF IInv
<1>u. UNCHANGED <<chain, reorgs, nonce, phase, tx, fetched, receiptChan, minedTxs>>
    BY DEF Publish
<1>1. publishing' = [publishing EXCEPT ![s] = @ \ {t}] /\ t \in publishing[s]
    BY DEF Publish
<1>2. pool' \subseteq pool \cup {t}
    BY DEF Publish, Adds
<1>3. waiting' = waiting \/ waiting' = [waiting EXCEPT ![s] = @ \cup {t}]
    BY DEF Publish
<1>4. t \in Txs /\ t.send = s /\ t \in Everywhere
    BY <1>1, <1>0, InEverywhere DEF TypeOK, OwnTxs, SendTxs
<1>5. nonceTooLowCount' \in [Sends -> 0 .. SafeAbortNonceTooLowCount]
    <2>1. \/ UNCHANGED nonceTooLowCount
          \/ /\ nonceTooLowCount[s] < SafeAbortNonceTooLowCount
             /\ nonceTooLowCount' = [nonceTooLowCount EXCEPT ![s] = @ + 1]
        BY DEF Publish
    <2>2. nonceTooLowCount \in [Sends -> 0 .. SafeAbortNonceTooLowCount]
        BY <1>0 DEF TypeOK
    <2>3. CASE UNCHANGED nonceTooLowCount
        BY <2>2, <2>3
    <2>4. CASE /\ nonceTooLowCount[s] < SafeAbortNonceTooLowCount
               /\ nonceTooLowCount' = [nonceTooLowCount EXCEPT ![s] = @ + 1]
        <3>1. nonceTooLowCount[s] + 1 \in 0 .. SafeAbortNonceTooLowCount
            BY <2>2, <2>4, Constants
        <3> QED
            BY <3>1, <2>2, <2>4
    <2> QED
        BY <2>1, <2>3, <2>4
<1>a. /\ publishing' \in [Sends -> SUBSET Txs] /\ waiting' \in [Sends -> SUBSET Txs]
      /\ \A u \in Sends : publishing'[u] \subseteq publishing[u] /\ waiting'[u] \subseteq waiting[u] \cup publishing[u]
    <2>1. publishing \in [Sends -> SUBSET Txs] /\ waiting \in [Sends -> SUBSET Txs]
        BY <1>0 DEF TypeOK
    <2>2. publishing' \in [Sends -> SUBSET Txs] /\ \A u \in Sends : publishing'[u] \subseteq publishing[u]
        BY <2>1, <1>1
    <2>3. CASE waiting' = waiting
        BY <2>1, <2>2, <2>3
    <2>4. CASE waiting' = [waiting EXCEPT ![s] = @ \cup {t}]
        BY <2>1, <2>2, <2>4, <1>4, <1>1
    <2> QED
        BY <2>3, <2>4, <1>3
<1>6. TypeOK'
    BY <1>a, <1>2, <1>4, <1>5, <1>0, <1>u DEF TypeOK
<1>7. \A x \in Everywhere' : x \in Everywhere
    BY <1>a, <1>2, <1>4, <1>u, InEverywhere, InEverywhereNext
<1>8. OwnTxs' /\ OneNonce'
    BY <1>a, <1>7, <1>0, <1>u DEF OwnTxs, OneNonce, SendTxs
<1>9. ReceiptsFinal' /\ DistinctNonces'
    BY <1>0, <1>u DEF ReceiptsFinal, Stands, DistinctNonces
<1> QED
    BY <1>6, <1>8, <1>9, <1>0, <1>u, SameChain DEF IInv

(* A receipt that was just fetched stands. *)
LEMMA FetchReceiptHolds ==
    ASSUME NEW s \in Sends, NEW t \in waiting[s], IInv, FetchReceipt(s, t)
    PROVE  IInv'
<1>0. TypeOK /\ ChainInOrder /\ OwnTxs /\ OneNonce /\ ReceiptsFinal /\ DistinctNonces
    BY DEF IInv
<1>u. UNCHANGED <<chain, pool, reorgs, nonce, phase, tx, publishing, receiptChan>>
    BY DEF FetchReceipt, l1Vars
<1>t. t \in Txs /\ t.send = s
    BY <1>0 DEF TypeOK, OwnTxs, SendTxs
<1>1. /\ minedTxs' \in [Sends -> SUBSET Txs]
      /\ nonceTooLowCount' \in [Sends -> 0 .. SafeAbortNonceTooLowCount]
    <2>1. /\ minedTxs \in [Sends -> SUBSET Txs]
          /\ nonceTooLowCount \in [Sends -> 0 .. SafeAbortNonceTooLowCount]
        BY <1>0 DEF TypeOK
    <2>2. CASE TxMined(s, t)
        BY <2>1, <2>2, <1>t DEF TxMined
    <2>3. CASE TxNotMined(s, t)
        BY <2>1, <2>3, <1>t, Constants DEF TxNotMined
    <2> QED
        BY <2>2, <2>3 DEF FetchReceipt
<1>2. CASE UNCHANGED <<waiting, fetched>>
    <2>1. TypeOK'
        BY <1>0, <1>1, <1>2, <1>u DEF TypeOK
    <2>2. Everywhere' = Everywhere
        BY <1>2, <1>u DEF Everywhere, ChainTxs, SendTxs
    <2> QED
        BY <2>1, <2>2, <1>0, <1>2, <1>u, SameChain
           DEF IInv, OwnTxs, OneNonce, ReceiptsFinal, Stands, DistinctNonces, SendTxs
<1>3. CASE ~UNCHANGED <<waiting, fetched>>
    <2> DEFINE r == [tx |-> t, depth |-> ConfirmationsOf(t), stale |-> FALSE]
    <2>1. /\ OnChain(t)
          /\ waiting' = [waiting EXCEPT ![s] = @ \ {t}]
          /\ fetched' = [fetched EXCEPT ![s] = @ \cup {r}]
        BY <1>3 DEF FetchReceipt
    <2>2. PICK i \in DOMAIN chain : chain[i].tx = t /\ chain[i].confirmations = ConfirmationsOf(t)
        BY <2>1 DEF OnChain, ConfirmationsOf
    <2>3. ConfirmationsOf(t) \in 1 .. NumConfirmations
        <3>1. chain[i] \in Blocks
            BY <1>0, <2>2 DEF TypeOK
        <3> QED
            BY <2>2, <3>1 DEF Blocks
    <2>4. r \in Receipts /\ r.tx = t /\ Stands(r)
        BY <2>2, <2>3, <1>t DEF Receipts, Stands
    <2> HIDE DEF r
    <2>5. /\ waiting' \in [Sends -> SUBSET Txs] /\ \A u \in Sends : waiting'[u] \subseteq waiting[u]
          /\ fetched' \in [Sends -> SUBSET Receipts]
          /\ \A u \in Sends : \A q \in fetched'[u] : q \in fetched[u] \/ (u = s /\ q = r)
        BY <2>1, <2>4, <1>0 DEF TypeOK
    <2>6. TypeOK'
        BY <2>5, <1>1, <1>0, <1>u DEF TypeOK
    <2>7. \A u \in Sends : \A x \in SendTxs(u)' : x \in SendTxs(u)
        BY <2>4, <2>5, <1>u DEF SendTxs
    <2>8. \A x \in Everywhere' : x \in Everywhere
        BY <2>4, <2>5, <1>u, InEverywhere, InEverywhereNext
    <2>9. OwnTxs' /\ OneNonce' /\ DistinctNonces'
        BY <2>7, <2>8, <1>0, <1>u DEF OwnTxs, OneNonce, DistinctNonces
    <2>10. ReceiptsFinal'
        BY <2>4, <2>5, <1>0, <1>u DEF ReceiptsFinal, Stands
    <2> QED
        BY <2>6, <2>9, <2>10, <1>0, <1>u, SameChain DEF IInv
<1> QED
    BY <1>2, <1>3

(* Only a receipt with NumConfirmations reaches the channel. *)
LEMMA TipHolds ==
    ASSUME NEW s \in Sends, NEW r \in fetched[s], IInv, ReadTip(s, r) \/ TipFails(s, r)
    PROVE  IInv'
<1>0. TypeOK /\ ChainInOrder /\ OwnTxs /\ OneNonce /\ ReceiptsFinal /\ DistinctNonces
    BY DEF IInv
<1>u. UNCHANGED <<chain, pool, reorgs, nonce, phase, tx, publishing, minedTxs, nonceTooLowCount>>
    BY DEF ReadTip, TipFails, l1Vars, stateVars
<1>r. r \in Receipts /\ r.tx \in Txs /\ r.tx.send = s /\ Stands(r)
    <2>1. r \in Receipts /\ Stands(r) /\ r.tx \in SendTxs(s)
        BY <1>0 DEF TypeOK, ReceiptsFinal, SendTxs
    <2> QED
        BY <2>1, <1>0 DEF Receipts, OwnTxs
<1>1. /\ fetched' = [fetched EXCEPT ![s] = @ \ {r}]
      /\ (waiting' = waiting \/ waiting' = [waiting EXCEPT ![s] = @ \cup {r.tx}])
      /\ \/ receiptChan' = receiptChan
         \/ Confirmed(r) /\ receiptChan[s] = None /\ receiptChan' = [receiptChan EXCEPT ![s] = r]
    BY DEF ReadTip, TipFails, AsksAgain
<1>2. /\ fetched' \in [Sends -> SUBSET Receipts] /\ \A u \in Sends : fetched'[u] \subseteq fetched[u]
      /\ waiting' \in [Sends -> SUBSET Txs]
      /\ \A u \in Sends : \A x \in waiting'[u] : x \in waiting[u] \/ (u = s /\ x = r.tx)
    <2>1. fetched \in [Sends -> SUBSET Receipts] /\ waiting \in [Sends -> SUBSET Txs]
        BY <1>0 DEF TypeOK
    <2>2. fetched' \in [Sends -> SUBSET Receipts] /\ \A u \in Sends : fetched'[u] \subseteq fetched[u]
        BY <1>1, <2>1
    <2>3. CASE waiting' = waiting
        BY <2>1, <2>2, <2>3
    <2>4. CASE waiting' = [waiting EXCEPT ![s] = @ \cup {r.tx}]
        BY <2>1, <2>2, <2>4, <1>r
    <2> QED
        BY <1>1, <2>3, <2>4
<1>3. /\ receiptChan' \in [Sends -> Receipts \cup {None}]
      /\ \A u \in Sends : \/ receiptChan'[u] = receiptChan[u]
                          \/ u = s /\ receiptChan[s] = None /\ receiptChan'[u] = r /\ Confirmed(r)
    BY <1>1, <1>r, <1>0 DEF TypeOK
<1>4. TypeOK'
    BY <1>2, <1>3, <1>0, <1>u DEF TypeOK
<1>5. \A u \in Sends : \A x \in SendTxs(u)' : x \in SendTxs(u)
    BY <1>2, <1>u DEF SendTxs
<1>6. \A x \in Everywhere' : x \in Everywhere
    BY <1>2, <1>u, InEverywhere, InEverywhereNext
<1>7. OwnTxs' /\ OneNonce' /\ DistinctNonces'
    BY <1>5, <1>6, <1>0, <1>u DEF OwnTxs, OneNonce, DistinctNonces
<1>8. ReceiptsFinal'
    <2>1. Confirmed(r) => r.depth = NumConfirmations
        BY <1>r, Constants DEF Confirmed, Receipts
    <2>2. \A q : Stands(q) => Stands(q)'
        BY <1>u DEF Stands
    <2>3. \A u \in Sends : phase'[u] = "receipt" => receiptChan'[u] # None
        BY <1>3, <1>0, <1>u DEF ReceiptsFinal
    <2>4. \A u \in Sends : receiptChan'[u] # None =>
            receiptChan'[u].tx.send = u /\ receiptChan'[u].depth = NumConfirmations /\ Stands(receiptChan'[u])
        BY <2>1, <1>3, <1>r, <1>0 DEF ReceiptsFinal
    <2>5. \A u \in Sends : \A q \in fetched'[u] : Stands(q)
        BY <1>2, <1>0 DEF ReceiptsFinal
    <2> QED
        BY <2>3, <2>4, <2>5, <1>u DEF ReceiptsFinal, Stands
<1> QED
    BY <1>4, <1>7, <1>8, <1>0, <1>u, SameChain DEF IInv

LEMMA EndsTypes ==
    ASSUME NEW s \in Sends, TypeOK, Ends(s)
    PROVE  /\ waiting' \in [Sends -> SUBSET Txs] /\ \A u \in Sends : waiting'[u] \subseteq waiting[u]
           /\ fetched' \in [Sends -> SUBSET Receipts] /\ \A u \in Sends : fetched'[u] \subseteq fetched[u]
           /\ minedTxs' \in [Sends -> SUBSET Txs]
           /\ nonceTooLowCount' \in [Sends -> 0 .. SafeAbortNonceTooLowCount]
BY Constants DEF TypeOK, Ends

(* A higher price, the same nonce *)
LEMMA ResubmitHolds == ASSUME NEW s \in Sends PROVE IInv /\ Resubmit(s) => IInv'
<1> SUFFICES ASSUME IInv, Resubmit(s) PROVE IInv'
    OBVIOUS
<1>0. TypeOK /\ ChainInOrder /\ OwnTxs /\ OneNonce /\ ReceiptsFinal /\ DistinctNonces
    BY DEF IInv
<1>u. UNCHANGED <<chain, pool, reorgs, receiptChan>>
    BY DEF Resubmit, l1Vars
<1>1. CASE Fail(s) /\ Ends(s) /\ UNCHANGED publishing
    <2>1. /\ waiting' \in [Sends -> SUBSET Txs] /\ \A u \in Sends : waiting'[u] \subseteq waiting[u]
          /\ fetched' \in [Sends -> SUBSET Receipts] /\ \A u \in Sends : fetched'[u] \subseteq fetched[u]
          /\ minedTxs' \in [Sends -> SUBSET Txs]
          /\ nonceTooLowCount' \in [Sends -> 0 .. SafeAbortNonceTooLowCount]
        BY <1>1, <1>0, EndsTypes
    <2> QED
        BY <2>1, <1>1, <1>u, FailHolds
<1>2. CASE ~(Fail(s) /\ Ends(s) /\ UNCHANGED publishing)
    <2>1. PICK t \in IncreaseGasPrice(s) :
            /\ phase[s] = "sending" /\ tx' = [tx EXCEPT ![s] = t]
            /\ publishing' = [publishing EXCEPT ![s] = @ \cup {t}]
            /\ UNCHANGED <<nonce, phase, waiting, fetched, minedTxs, nonceTooLowCount>>
        BY <1>2 DEF Resubmit, stateVars
    <2>2. tx[s] \in Txs /\ tx[s] # None /\ tx[s].send = s
        BY <2>1, <1>0 DEF OwnTxs, TypeOK, SendTxs
    <2>3. t \in Txs /\ t.send = s /\ t.nonce = tx[s].nonce /\ t # None
        <3>1. PICK p \in Nat : t = [tx[s] EXCEPT !.price = p]
            BY <2>1 DEF IncreaseGasPrice
        <3> QED
            BY <3>1, <2>2, Constants DEF Txs
    <2>4. TypeOK'
        BY <2>1, <2>3, <1>0, <1>u DEF TypeOK
    <2>5. \A x \in Everywhere' : x \in Everywhere \/ x = t
        BY <2>1, <1>0, <1>u, InEverywhere, InEverywhereNext DEF TypeOK
    <2>6. tx[s] \in Everywhere
        BY <2>2, InEverywhere
    <2>7. OneNonce'
        BY <2>2, <2>3, <2>5, <2>6, <1>0 DEF OneNonce
    <2>8. OwnTxs'
        BY <2>1, <2>3, <2>5, <1>0 DEF OwnTxs, SendTxs, TypeOK
    <2>9. ReceiptsFinal'
        BY <2>1, <1>0, <1>u DEF ReceiptsFinal, Stands
    <2>10. DistinctNonces'
        <3>1. \A u \in Sends : tx'[u] = tx[u] \/ (tx'[u] # None /\ tx[u] # None /\ tx'[u].nonce = tx[u].nonce)
            BY <2>1, <2>2, <2>3, <1>0 DEF TypeOK
        <3> QED
            BY <3>1, <2>1, <1>0 DEF DistinctNonces
    <2> QED
        BY <2>4, <2>7, <2>8, <2>9, <2>10, <1>0, <1>u, SameChain DEF IInv
<1> QED
    BY <1>1, <1>2

LEMMA CancelHolds == ASSUME NEW s \in Sends PROVE IInv /\ Cancel(s) => IInv'
<1> SUFFICES ASSUME IInv, Cancel(s) PROVE IInv'
    OBVIOUS
<1>1. TypeOK /\ Fail(s) /\ Ends(s) /\ UNCHANGED <<chain, pool, reorgs, publishing, receiptChan>>
    BY DEF Cancel, l1Vars, IInv
<1>2. /\ waiting' \in [Sends -> SUBSET Txs] /\ \A u \in Sends : waiting'[u] \subseteq waiting[u]
      /\ fetched' \in [Sends -> SUBSET Receipts] /\ \A u \in Sends : fetched'[u] \subseteq fetched[u]
      /\ minedTxs' \in [Sends -> SUBSET Txs]
      /\ nonceTooLowCount' \in [Sends -> 0 .. SafeAbortNonceTooLowCount]
    BY <1>1, EndsTypes
<1> QED
    BY <1>1, <1>2, FailHolds

LEMMA ReturnHolds == ASSUME NEW s \in Sends PROVE IInv /\ Return(s) => IInv'
<1> SUFFICES ASSUME IInv, Return(s) PROVE IInv'
    OBVIOUS
<1>0. TypeOK /\ ChainInOrder /\ OwnTxs /\ OneNonce /\ ReceiptsFinal /\ DistinctNonces
    BY DEF IInv
<1>1. /\ phase[s] = "sending" /\ receiptChan[s] # None /\ Ends(s)
      /\ phase' = [phase EXCEPT ![s] = "receipt"]
      /\ UNCHANGED <<chain, pool, reorgs, nonce, tx, publishing, receiptChan>>
    BY DEF Return, l1Vars
<1>2. /\ waiting' \in [Sends -> SUBSET Txs] /\ \A u \in Sends : waiting'[u] \subseteq waiting[u]
      /\ fetched' \in [Sends -> SUBSET Receipts] /\ \A u \in Sends : fetched'[u] \subseteq fetched[u]
      /\ minedTxs' \in [Sends -> SUBSET Txs]
      /\ nonceTooLowCount' \in [Sends -> 0 .. SafeAbortNonceTooLowCount]
    BY <1>0, <1>1, EndsTypes
<1>3. TypeOK'
    BY <1>1, <1>2, <1>0 DEF TypeOK
<1>4. \A t \in Everywhere' : t \in Everywhere
    BY <1>1, <1>2, InEverywhere, InEverywhereNext
<1>5. OwnTxs' /\ OneNonce'
    BY <1>1, <1>2, <1>4, <1>0 DEF OwnTxs, OneNonce, SendTxs, TypeOK
<1>6. ReceiptsFinal' /\ DistinctNonces'
    <2>1. \A u \in Sends : /\ phase'[u] = "receipt" => phase[u] = "receipt" \/ u = s
                           /\ phase'[u] = "error" <=> phase[u] = "error"
                           /\ phase'[u] = "new" <=> phase[u] = "new"
        BY <1>1, <1>0 DEF TypeOK
    <2>2. ReceiptsFinal'
        BY <2>1, <1>1, <1>2, <1>0 DEF ReceiptsFinal, Stands
    <2>3. DistinctNonces'
        BY <2>1, <1>1, <1>0 DEF DistinctNonces
    <2> QED
        BY <2>2, <2>3
<1> QED
    BY <1>1, <1>3, <1>5, <1>6, <1>0, SameChain DEF IInv

LEMMA NextHolds == IInv /\ [Next]_vars => IInv'
<1> SUFFICES ASSUME IInv, [Next]_vars PROVE IInv'
    OBVIOUS
<1>1. CASE NewBlock
    BY <1>1, NewBlockHolds
<1>2. CASE Reorg
    BY <1>2, ReorgHolds
<1>3. ASSUME NEW s \in Sends,
             \/ TakeNonce(s) \/ CraftTx(s) \/ Publishes(s)
             \/ FetchesReceipt(s) \/ ReadsTip(s) \/ \E r \in fetched[s] : TipFails(s, r)
             \/ Resubmit(s) \/ Cancel(s) \/ Return(s)
      PROVE  IInv'
    BY <1>3, TakeNonceHolds, CraftTxHolds, PublishHolds, FetchReceiptHolds, TipHolds, ResubmitHolds,
       CancelHolds, ReturnHolds
       DEF Publishes, FetchesReceipt, ReadsTip
<1>4. CASE UNCHANGED vars
    <2>1. UNCHANGED <<chain, pool, reorgs, nonce, phase, tx, publishing, waiting, fetched, receiptChan, minedTxs, nonceTooLowCount>>
        BY <1>4 DEF vars, l1Vars, stateVars
    <2>2. Everywhere' = Everywhere /\ TypeOK' /\ ChainInOrder'
        BY <2>1 DEF IInv, TypeOK, ChainInOrder, Everywhere, ChainTxs, SendTxs
    <2> QED
        BY <2>1, <2>2 DEF IInv, OwnTxs, OneNonce, ReceiptsFinal, Stands, DistinctNonces, SendTxs
<1> QED
    BY <1>1, <1>2, <1>3, <1>4 DEF Next

LEMMA IInvInvariant == Spec => []IInv
BY InitHolds, NextHolds, PTL DEF Spec

-----------------------------------------------------------------------------
(* The receipt that Send returns is of one of its own transactions, and    *)
(* that transaction stays on L1 with NumConfirmations, unless a reorg took *)
(* it between the two requests of queryReceipt.                            *)
THEOREM ReceiptsAlwaysStand == Spec => []ReceiptStands
<1>1. ASSUME IInv PROVE ReceiptStands
    <2> SUFFICES ASSUME NEW s \in Sends, phase[s] = "receipt"
                 PROVE  /\ receiptChan[s].tx.send = s
                        /\ ~receiptChan[s].stale => /\ OnChain(receiptChan[s].tx)
                                                    /\ ConfirmationsOf(receiptChan[s].tx) = NumConfirmations
        BY DEF ReceiptStands
    <2>0. receiptChan[s] # None /\ receiptChan[s].tx.send = s
        BY <1>1 DEF IInv, ReceiptsFinal
    <2>1. ASSUME ~receiptChan[s].stale
          PROVE  OnChain(receiptChan[s].tx) /\ ConfirmationsOf(receiptChan[s].tx) = NumConfirmations
        <3>1. PICK i \in DOMAIN chain : chain[i].tx = receiptChan[s].tx /\ chain[i].confirmations = NumConfirmations
            BY <1>1, <2>0, <2>1 DEF IInv, ReceiptsFinal, Stands
        <3>2. \A j \in DOMAIN chain : chain[j].tx = receiptChan[s].tx => j = i
            <4>1. DOMAIN chain \subseteq Nat
                BY <1>1 DEF IInv, TypeOK
            <4>2. \A j \in DOMAIN chain : chain[j].tx.nonce = j - 1
                BY <1>1 DEF IInv, ChainInOrder
            <4> QED
                BY <4>1, <4>2, <3>1
        <3> QED
            BY <3>1, <3>2 DEF OnChain, ConfirmationsOf
    <2> QED
        BY <2>0, <2>1
<1> QED
    BY <1>1, IInvInvariant, PTL

LEMMA IInvSentOnce == IInv => SentOnce
<1> SUFFICES ASSUME IInv, NEW i \in DOMAIN chain, NEW j \in DOMAIN chain, chain[i].tx.send = chain[j].tx.send
             PROVE  i = j
    BY DEF SentOnce
<1>1. chain[i].tx \in Everywhere /\ chain[j].tx \in Everywhere
    BY InEverywhere
<1>2. chain[i].tx.nonce = chain[j].tx.nonce
    BY <1>1 DEF IInv, OneNonce
<1>3. i \in Nat /\ j \in Nat
    BY DEF IInv, TypeOK
<1>4. chain[i].tx.nonce = i - 1 /\ chain[j].tx.nonce = j - 1
    BY DEF IInv, ChainInOrder
<1>5. i - 1 = j - 1
    BY <1>2, <1>4
<1> QED
    BY <1>3, <1>5

(* Nothing is sent to L1 twice: all transactions of one send have the same *)
(* nonce (increaseGasPrice), and L1 uses a nonce once.                     *)
THEOREM AlwaysSentOnce == Spec => []SentOnce
BY IInvSentOnce, IInvInvariant, PTL

(* Overlapping calls of Send never take each other's nonce, as long as     *)
(* none of them fails (nextNonce).                                         *)
THEOREM NonceNeverTaken == Spec => []NonceNotTaken
<1>1. ASSUME IInv PROVE NonceNotTaken
    <2> SUFFICES ASSUME \A u \in Sends : phase[u] # "error", NEW s \in Sends, phase[s] # "new",
                        NEW i \in DOMAIN chain, chain[i].tx.nonce = tx[s].nonce
                 PROVE  chain[i].tx.send = s
        BY DEF NonceNotTaken
    <2> DEFINE u == chain[i].tx.send
    <2>1. chain[i].tx \in Everywhere
        BY InEverywhere
    <2>2. u \in Sends
        <3>1. chain[i] \in Blocks
            BY <1>1 DEF IInv, TypeOK
        <3> QED
            BY <3>1 DEF Blocks, Txs
    <2>3. phase[u] # "new"
        BY <2>1, <2>2, <1>1 DEF IInv, OwnTxs
    <2>4. tx[u] # None /\ tx[u] \in Everywhere /\ tx[u].send = u
        <3>1. tx[u] # None
            BY <2>2, <2>3, <1>1 DEF IInv, DistinctNonces
        <3>2. tx[u] \in SendTxs(u)
            BY <3>1 DEF SendTxs
        <3> QED
            BY <3>1, <3>2, <2>2, <1>1, InEverywhere DEF IInv, OwnTxs
    <2>5. tx[u].nonce = tx[s].nonce
        BY <2>1, <2>4, <1>1 DEF IInv, OneNonce
    <2> QED
        BY <2>2, <2>3, <2>5, <1>1 DEF IInv, DistinctNonces
<1> QED
    BY <1>1, IInvInvariant, PTL

-----------------------------------------------------------------------------
(* The manager implements what Send promises.                              *)

Promised == <<Outcome, SendsOnL1, Doubtful>>

(* A call becomes doubtful by a reorg only. *)
LEMMA StaysCertain ==
    ASSUME \A u \in Sends : \A q \in fetched'[u] : q.stale => \E r \in fetched[u] : r.stale,
           \A u \in Sends : receiptChan'[u] = receiptChan[u] \/ receiptChan'[u] \in fetched[u]
    PROVE  Doubtful' \subseteq Doubtful
BY DEF Doubtful

(* Steps of a send change its outcome, or nothing that its caller sees. *)
LEMMA SamePhases ==
    ASSUME UNCHANGED <<chain, phase>>, Doubtful' \subseteq Doubtful,
           \A u \in Sends : phase[u] = "receipt" => receiptChan'[u] = receiptChan[u]
    PROVE  [Sender!Next]_Promised
<1>1. Outcome' = Outcome /\ SendsOnL1' = SendsOnL1
    BY DEF Outcome, SendsOnL1
<1> QED
    BY <1>1 DEF Sender!Next, Sender!Settle

LEMMA PhaseStep ==
    ASSUME TypeOK, UNCHANGED <<chain, receiptChan>>, Doubtful' \subseteq Doubtful,
           NEW s \in Sends, phase[s] \in {"new", "crafting", "sending"},
           NEW p \in {"crafting", "sending", "error"}, phase' = [phase EXCEPT ![s] = p]
    PROVE  [Sender!Next]_Promised
<1>1. SendsOnL1' = SendsOnL1
    BY DEF SendsOnL1
<1>2. CASE p = "error"
    <2>1. Outcome[s] = "pending" /\ Outcome' = [Outcome EXCEPT ![s] = "error"]
        BY <1>2 DEF Outcome, TypeOK
    <2>2. Sender!Fail(s)
        BY <1>1, <2>1 DEF Sender!Fail, Sender!Settle
    <2> QED
        BY <2>2 DEF Sender!Next
<1>3. CASE p # "error"
    <2>1. Outcome' = Outcome
        BY <1>3 DEF Outcome, TypeOK
    <2> QED
        BY <1>1, <2>1 DEF Sender!Next, Sender!Settle
<1> QED
    BY <1>2, <1>3

LEMMA SendsOnL1Type ==
    ASSUME chain \in Seq(Blocks)
    PROVE  SendsOnL1 \in Seq(Sends) /\ Len(SendsOnL1) = Len(chain)
<1>1. Len(chain) \in Nat /\ DOMAIN chain = 1 .. Len(chain)
    OBVIOUS
<1>2. \A i \in 1 .. Len(chain) : chain[i].tx.send \in Sends
    <2> SUFFICES ASSUME NEW i \in 1 .. Len(chain) PROVE chain[i].tx.send \in Sends
        OBVIOUS
    <2>1. chain[i] \in Blocks
        BY <1>1
    <2> QED
        BY <2>1 DEF Blocks, Txs
<1>3. SendsOnL1 \in [1 .. Len(chain) -> Sends]
    BY <1>1, <1>2 DEF SendsOnL1
<1> QED
    BY <1>1, <1>3, FunctionIsSeq

LEMMA NewBlockImplements ==
    ASSUME IInv, IInv', NewBlock
    PROVE  [Sender!Next]_Promised
<1> DEFINE n == Len(chain)
<1>0. /\ chain \in Seq(Blocks) /\ n \in Nat /\ DOMAIN chain = 1 .. n
      /\ \A i \in DOMAIN chain : chain'[i].tx = chain[i].tx
    BY NewBlockChain DEF IInv, TypeOK
<1>1. Outcome' = Outcome
    BY DEF NewBlock, Outcome
<1>4. Doubtful' \subseteq Doubtful
    <2>1. UNCHANGED receiptChan
        BY DEF NewBlock
    <2> QED
        BY <2>1, NewBlockReceipts, StaysCertain DEF IInv
<1>2. CASE DOMAIN chain' = DOMAIN chain
    <2>1. SendsOnL1' = SendsOnL1
        BY <1>0, <1>2 DEF SendsOnL1
    <2> QED
        BY <1>1, <1>4, <2>1 DEF Sender!Next, Sender!Settle
<1>3. CASE DOMAIN chain' = 1 .. n + 1 /\ chain'[n + 1].tx \in pool
    <2> DEFINE s == chain'[n + 1].tx.send
    <2>1. s \in Sends
        BY <1>3 DEF IInv, TypeOK, Txs
    <2>2. SendsOnL1 \in Seq(Sends) /\ Len(SendsOnL1) = n
        BY <1>0, SendsOnL1Type
    <2>3. SendsOnL1' = Append(SendsOnL1, s)
        <3>1. SendsOnL1' = [i \in 1 .. n + 1 |-> chain'[i].tx.send]
            BY <1>3 DEF SendsOnL1
        <3>2. Append(SendsOnL1, s) = [i \in 1 .. n + 1 |-> IF i <= n THEN SendsOnL1[i] ELSE s]
            BY <1>0, <2>1, <2>2
        <3>3. \A i \in 1 .. n + 1 : chain'[i].tx.send = IF i <= n THEN SendsOnL1[i] ELSE s
            BY <1>0 DEF SendsOnL1
        <3> QED
            BY <3>1, <3>2, <3>3
    <2>4. s \notin Sender!Carried
        <3> SUFFICES ASSUME NEW i \in DOMAIN SendsOnL1, SendsOnL1[i] = s PROVE FALSE
            BY DEF Sender!Carried
        <3>1. i \in 1 .. n /\ chain'[i].tx.send = chain'[n + 1].tx.send
            BY <1>0 DEF SendsOnL1
        <3>2. SentOnce'
            BY IInvSentOnce, PTL
        <3>3. i = n + 1
            BY <3>1, <3>2, <1>0, <1>3 DEF SentOnce
        <3> QED
            BY <3>1, <3>3, <1>0
    <2>5. Sender!Include(s)
        BY <1>1, <1>4, <2>3, <2>4 DEF Sender!Include, Sender!Settle
    <2> QED
        BY <2>1, <2>5 DEF Sender!Next
<1> QED
    BY <1>2, <1>3, NewBlockChain DEF IInv

(* What has a receipt is below the blocks that a reorg takes. *)
LEMMA ReorgImplements ==
    ASSUME IInv, Reorg
    PROVE  [Sender!Next]_Promised
<1>0. /\ chain \in Seq(Blocks) /\ DOMAIN chain = 1 .. Len(chain) /\ Len(chain) \in Nat
      /\ SendsOnL1 \in Seq(Sends) /\ Len(SendsOnL1) = Len(chain)
    BY SendsOnL1Type DEF IInv, TypeOK
<1>1. PICK n \in 0 .. Len(chain) :
        /\ \A i \in DOMAIN chain : i <= n <=> chain[i].confirmations > ReorgDepth
        /\ chain' = SubSeq(chain, 1, n)
        /\ \A s \in Sends : \A q \in fetched'[s] : \E r \in fetched[s] :
             q.stale <=> r.stale \/ \E i \in n + 1 .. Len(chain) : r.tx = chain[i].tx
    BY ReorgReceipts DEF IInv
<1>2. Outcome' = Outcome
    BY DEF Reorg, Outcome
<1>3. SendsOnL1' = SubSeq(SendsOnL1, 1, n)
    <2>1. DOMAIN chain' = 1 .. n /\ \A i \in 1 .. n : chain'[i] = chain[i]
        BY <1>0, <1>1, SubSeqFacts
    <2>2. SendsOnL1' = [i \in 1 .. n |-> chain[i].tx.send]
        BY <2>1 DEF SendsOnL1
    <2>3. \A i \in 1 .. n : i \in DOMAIN chain /\ SendsOnL1[i] = chain[i].tx.send
        BY <1>0 DEF SendsOnL1
    <2>4. SubSeq(SendsOnL1, 1, n) = [i \in 1 .. n |-> SendsOnL1[i]]
        BY <1>0
    <2> QED
        BY <2>2, <2>3, <2>4
<1>4. \A i \in n + 1 .. Len(SendsOnL1) : Outcome[SendsOnL1[i]] # "receipt"
    <2> SUFFICES ASSUME NEW i \in n + 1 .. Len(chain), Outcome[SendsOnL1[i]] = "receipt" PROVE FALSE
        BY <1>0
    <2> DEFINE s == chain[i].tx.send
    <2>1. i \in DOMAIN chain /\ ~(i <= n) /\ s = SendsOnL1[i] /\ s \in Sends
        BY <1>0 DEF SendsOnL1
    <2>2. phase[s] = "receipt" /\ ~receiptChan[s].stale
        BY <2>1 DEF Outcome
    <2>3. PICK j \in DOMAIN chain : chain[j].tx.send = s /\ chain[j].confirmations = NumConfirmations
        BY <2>1, <2>2 DEF IInv, ReceiptsFinal, Stands
    <2>4. i = j
        BY <2>1, <2>3, IInvSentOnce DEF SentOnce
    <2>5. NumConfirmations > ReorgDepth
        BY Constants
    <2> QED
        BY <1>1, <2>1, <2>3, <2>4, <2>5
<1>6. Doubtful' \subseteq Doubtful \cup {SendsOnL1[i] : i \in n + 1 .. Len(SendsOnL1)}
    <2> SUFFICES ASSUME NEW s \in Doubtful', s \notin Doubtful
                 PROVE  \E i \in n + 1 .. Len(chain) : SendsOnL1[i] = s
        BY <1>0
    <2>1. s \in Sends /\ receiptChan' = receiptChan
        BY DEF Doubtful, Reorg
    <2>2. PICK q \in fetched'[s] : q.stale
        BY <2>1 DEF Doubtful
    <2>3. PICK r \in fetched[s] : q.stale <=> r.stale \/ \E i \in n + 1 .. Len(chain) : r.tx = chain[i].tx
        BY <1>1, <2>1, <2>2
    <2>4. ~r.stale
        BY <2>1, <2>3 DEF Doubtful
    <2>5. PICK i \in n + 1 .. Len(chain) : r.tx = chain[i].tx
        BY <2>2, <2>3, <2>4
    <2>6. r.tx.send = s
        BY <2>1, <2>3 DEF IInv, OwnTxs, SendTxs
    <2>7. i \in DOMAIN chain
        BY <1>0, <1>1, <2>5
    <2> QED
        BY <2>5, <2>6, <2>7 DEF SendsOnL1
<1>5. Sender!Undo(n)
    BY <1>2, <1>3, <1>4, <1>6 DEF Sender!Undo
<1> QED
    BY <1>0, <1>5 DEF Sender!Next

LEMMA SendImplements ==
    ASSUME IInv, NEW s \in Sends,
           \/ TakeNonce(s) \/ CraftTx(s) \/ Publishes(s)
           \/ FetchesReceipt(s) \/ ReadsTip(s) \/ \E r \in fetched[s] : TipFails(s, r)
           \/ Resubmit(s) \/ Cancel(s) \/ Return(s)
    PROVE  [Sender!Next]_Promised
<1>0. TypeOK /\ ReceiptsFinal
    BY DEF IInv
<1>e. Ends(s) => \A u \in Sends : fetched'[u] \subseteq fetched[u]
    BY <1>0, EndsTypes
<1>1. CASE TakeNonce(s)
    <2>1. \E p \in {"crafting", "error"} : phase' = [phase EXCEPT ![s] = p]
        BY <1>1 DEF TakeNonce, Fail
    <2>2. UNCHANGED <<chain, fetched, receiptChan>> /\ phase[s] = "new"
        BY <1>1 DEF TakeNonce, l1Vars
    <2>3. Doubtful' \subseteq Doubtful
        BY <2>2, StaysCertain
    <2> QED
        BY <1>0, <2>1, <2>2, <2>3, PhaseStep
<1>2. CASE CraftTx(s)
    <2>1. \E p \in {"sending", "error"} : phase' = [phase EXCEPT ![s] = p]
        BY <1>2 DEF CraftTx, Fail
    <2>2. UNCHANGED <<chain, fetched, receiptChan>> /\ phase[s] = "crafting"
        BY <1>2 DEF CraftTx, l1Vars
    <2>3. Doubtful' \subseteq Doubtful
        BY <2>2, StaysCertain
    <2> QED
        BY <1>0, <2>1, <2>2, <2>3, PhaseStep
<1>3. CASE Publishes(s)
    <2>1. UNCHANGED <<chain, phase, fetched, receiptChan>>
        BY <1>3 DEF Publishes, Publish
    <2>2. Doubtful' \subseteq Doubtful
        BY <2>1, StaysCertain
    <2> QED
        BY <2>1, <2>2, SamePhases
<1>4. CASE FetchesReceipt(s)
    <2>1. PICK t \in waiting[s] : FetchReceipt(s, t)
        BY <1>4 DEF FetchesReceipt
    <2>2. UNCHANGED <<chain, phase, receiptChan>>
        BY <2>1 DEF FetchReceipt, l1Vars
    <2>3. \A u \in Sends : \A q \in fetched'[u] : q \in fetched[u] \/ q.stale = FALSE
        <3>1. fetched' = fetched \/ \E c : fetched' = [fetched EXCEPT ![s] =
                                            @ \cup {[tx |-> t, depth |-> c, stale |-> FALSE]}]
            BY <2>1 DEF FetchReceipt
        <3>2. fetched \in [Sends -> SUBSET Receipts]
            BY <1>0 DEF TypeOK
        <3>3. ASSUME NEW c, fetched' = [fetched EXCEPT ![s] = @ \cup {[tx |-> t, depth |-> c, stale |-> FALSE]}],
                     NEW u \in Sends, NEW q \in fetched'[u], q \notin fetched[u]
              PROVE  q.stale = FALSE
            <4>1. q = [tx |-> t, depth |-> c, stale |-> FALSE]
                BY <3>2, <3>3
            <4> QED
                BY <4>1
        <3> QED
            BY <3>1, <3>3
    <2>4. Doubtful' \subseteq Doubtful
        BY <2>2, <2>3, StaysCertain
    <2> QED
        BY <2>2, <2>4, SamePhases
<1>5. CASE ReadsTip(s) \/ \E r \in fetched[s] : TipFails(s, r)
    <2>1. PICK r \in fetched[s] : ReadTip(s, r) \/ TipFails(s, r)
        BY <1>5 DEF ReadsTip
    <2>2. /\ UNCHANGED <<chain, phase>> /\ fetched' = [fetched EXCEPT ![s] = @ \ {r}]
          /\ \/ receiptChan' = receiptChan
             \/ receiptChan[s] = None /\ receiptChan' = [receiptChan EXCEPT ![s] = r]
        BY <2>1 DEF ReadTip, TipFails, AsksAgain, l1Vars
    <2>3. /\ \A u \in Sends : fetched'[u] \subseteq fetched[u]
          /\ \A u \in Sends : \/ receiptChan'[u] = receiptChan[u]
                              \/ receiptChan[u] = None /\ receiptChan'[u] \in fetched[u]
        <3>1. fetched \in [Sends -> SUBSET Receipts] /\ DOMAIN receiptChan = Sends
            BY <1>0 DEF TypeOK
        <3>2. \A u \in Sends : fetched'[u] \subseteq fetched[u]
            BY <2>2, <3>1
        <3>3. CASE receiptChan' = receiptChan
            BY <3>2, <3>3
        <3>4. CASE receiptChan[s] = None /\ receiptChan' = [receiptChan EXCEPT ![s] = r]
            BY <3>1, <3>2, <3>4
        <3> QED
            BY <2>2, <3>3, <3>4
    <2>4. Doubtful' \subseteq Doubtful
        BY <2>3, StaysCertain
    <2>5. \A u \in Sends : phase[u] = "receipt" => receiptChan'[u] = receiptChan[u]
        BY <2>3, <1>0 DEF ReceiptsFinal
    <2> QED
        BY <2>2, <2>4, <2>5, SamePhases
<1>6. CASE Resubmit(s)
    <2>1. /\ UNCHANGED <<chain, receiptChan>> /\ phase[s] = "sending"
          /\ \/ phase' = [phase EXCEPT ![s] = "error"] /\ Ends(s)
             \/ phase' = phase /\ fetched' = fetched
        BY <1>6 DEF Resubmit, Fail, l1Vars
    <2>2. Doubtful' \subseteq Doubtful
        BY <2>1, <1>e, StaysCertain
    <2>3. CASE phase' = [phase EXCEPT ![s] = "error"]
        BY <2>1, <2>2, <2>3, <1>0, PhaseStep
    <2>4. CASE phase' = phase
        BY <2>1, <2>2, <2>4, SamePhases
    <2> QED
        BY <2>1, <2>3, <2>4
<1>7. CASE Cancel(s)
    <2>1. /\ UNCHANGED <<chain, receiptChan>> /\ phase[s] = "sending" /\ Ends(s)
          /\ phase' = [phase EXCEPT ![s] = "error"]
        BY <1>7 DEF Cancel, Fail, l1Vars
    <2>2. Doubtful' \subseteq Doubtful
        BY <2>1, <1>e, StaysCertain
    <2> QED
        BY <2>1, <2>2, <1>0, PhaseStep
<1>8. CASE Return(s)
    <2>1. /\ phase[s] = "sending" /\ receiptChan[s] # None /\ UNCHANGED <<chain, receiptChan>>
          /\ phase' = [phase EXCEPT ![s] = "receipt"] /\ Ends(s)
        BY <1>8 DEF Return, l1Vars
    <2>2. SendsOnL1' = SendsOnL1
        BY <2>1 DEF SendsOnL1
    <2>3. Doubtful' \subseteq Doubtful
        BY <2>1, <1>e, StaysCertain
    <2>4. CASE receiptChan[s].stale
        <3>1. Outcome[s] = "pending" /\ Outcome' = [Outcome EXCEPT ![s] = "stale"]
            BY <1>0, <2>1, <2>4 DEF Outcome, TypeOK
        <3>2. s \in Doubtful
            BY <2>1, <2>4 DEF Doubtful
        <3>3. Sender!ReturnStale(s)
            BY <2>2, <2>3, <3>1, <3>2 DEF Sender!ReturnStale, Sender!Settle
        <3> QED
            BY <3>3 DEF Sender!Next
    <2>5. CASE ~receiptChan[s].stale
        <3>1. Outcome[s] = "pending" /\ Outcome' = [Outcome EXCEPT ![s] = "receipt"]
            BY <1>0, <2>1, <2>5 DEF Outcome, TypeOK
        <3>2. PICK i \in DOMAIN chain : chain[i].tx = receiptChan[s].tx /\ receiptChan[s].tx.send = s
            BY <2>1, <2>5, <1>0 DEF ReceiptsFinal, Stands
        <3>3. i \in DOMAIN SendsOnL1 /\ SendsOnL1[i] = s
            BY <3>2 DEF SendsOnL1
        <3>4. s \in Sender!Carried
            BY <3>3 DEF Sender!Carried
        <3>5. Sender!Return(s)
            BY <2>2, <2>3, <3>1, <3>4 DEF Sender!Return, Sender!Settle
        <3> QED
            BY <3>5 DEF Sender!Next
    <2> QED
        BY <2>4, <2>5
<1> QED
    BY <1>1, <1>2, <1>3, <1>4, <1>5, <1>6, <1>7, <1>8

(* For any number of sends, prices, confirmations and reorgs: every        *)
(* behaviour of the manager is one that Send promises its callers.         *)
THEOREM AlwaysImplementsSender == Spec => ImplementsSender
<1>1. ASSUME Init PROVE Sender!Init
    <2>1. Outcome = [s \in Sends |-> "pending"]
        BY <1>1 DEF Init, Outcome
    <2>2. SendsOnL1 = <<>>
        BY <1>1 DEF Init, SendsOnL1
    <2>3. Doubtful = {}
        BY <1>1 DEF Init, Doubtful
    <2> QED
        BY <2>1, <2>2, <2>3 DEF Sender!Init
<1>2. ASSUME IInv, IInv', [Next]_vars PROVE [Sender!Next]_Promised
    <2>1. CASE NewBlock
        BY <1>2, <2>1, NewBlockImplements
    <2>2. CASE Reorg
        BY <1>2, <2>2, ReorgImplements
    <2>3. CASE \E s \in Sends :
                \/ TakeNonce(s) \/ CraftTx(s) \/ Publishes(s)
                \/ FetchesReceipt(s) \/ ReadsTip(s) \/ \E r \in fetched[s] : TipFails(s, r)
                \/ Resubmit(s) \/ Cancel(s) \/ Return(s)
        BY <1>2, <2>3, SendImplements
    <2>4. CASE UNCHANGED vars
        BY <2>4 DEF vars, l1Vars, Promised, Outcome, SendsOnL1, Doubtful
    <2> QED
        BY <1>2, <2>1, <2>2, <2>3, <2>4 DEF Next
<1> QED
    BY <1>1, <1>2, IInvInvariant, PTL DEF Spec, ImplementsSender, Sender!Spec, Promised

-----------------------------------------------------------------------------
(* For all fees of 7 wei and more: when a price is raised at all, it is    *)
(* raised enough for the pool to take the new transaction in place of the  *)
(* old one (updateFees).                                                   *)
THEOREM BumpAlwaysReplaces == BumpReplaces(Nat, Nat)
<1> SUFFICES ASSUME NEW oldTip \in {f \in Nat : f >= 7}, NEW oldFeeCap \in {f \in Nat : f >= 7},
                    NEW newTip \in Nat, NEW newBaseFee \in Nat
             PROVE  LET old == [tip |-> oldTip, feeCap |-> oldFeeCap]
                        new == UpdateFees(oldTip, oldFeeCap, newTip, newBaseFee)
                    IN new = old \/ Replaces(old, new)
    BY DEF BumpReplaces, SmallestFee
<1> DEFINE old == [tip |-> oldTip, feeCap |-> oldFeeCap]
           new == UpdateFees(oldTip, oldFeeCap, newTip, newBaseFee)
<1>a. CASE oldTip >= newTip /\ oldFeeCap >= CalcGasFeeCap(newBaseFee, newTip)
    BY <1>a DEF UpdateFees
<1>b. CASE ~(oldTip >= newTip /\ oldFeeCap >= CalcGasFeeCap(newBaseFee, newTip))
    <2>1. \A x \in Nat : x >= 7 => /\ CalcThresholdValue(x) \in Nat /\ CalcThresholdValue(x) > x
                                  /\ CalcThresholdValue(x) >= (110 * x) \div 100
        BY DEF CalcThresholdValue
    <2>2. new.tip \in Nat /\ new.tip >= CalcThresholdValue(oldTip) /\ new.tip >= newTip
        BY <2>1, <1>b DEF UpdateFees
    <2>3. new.feeCap \in Nat /\ new.feeCap >= CalcThresholdValue(oldFeeCap)
        <3> DEFINE cap == CalcGasFeeCap(newBaseFee, new.tip)
        <3>1. cap \in Nat /\ CalcGasFeeCap(newBaseFee, newTip) \in Nat /\ cap >= CalcGasFeeCap(newBaseFee, newTip)
            BY <2>2 DEF CalcGasFeeCap
        <3>2. new.feeCap = IF CalcGasFeeCap(newBaseFee, newTip) >= CalcThresholdValue(oldFeeCap)
                           THEN cap ELSE CalcThresholdValue(oldFeeCap)
            BY <1>b DEF UpdateFees
        <3> HIDE DEF new, cap
        <3> QED
            BY <2>1, <3>1, <3>2
    <2>4. (110 * oldTip) \div 100 \in Nat /\ (110 * oldFeeCap) \div 100 \in Nat
        OBVIOUS
    <2>5. Replaces(old, new)
        <3>1. old.tip = oldTip /\ old.feeCap = oldFeeCap
            OBVIOUS
        <3> HIDE DEF new, old
        <3>2. new.tip > oldTip /\ new.tip >= (110 * oldTip) \div 100
            BY <2>1, <2>2, <2>4
        <3>3. new.feeCap > oldFeeCap /\ new.feeCap >= (110 * oldFeeCap) \div 100
            BY <2>1, <2>3, <2>4
        <3> QED
            BY <3>1, <3>2, <3>3 DEF Replaces
    <2> QED
        BY <2>5
<1> QED
    BY <1>a, <1>b
=============================================================================
