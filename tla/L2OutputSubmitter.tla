------------------------- MODULE L2OutputSubmitter -------------------------
(***************************************************************************)
(* op-proposer: its loop reads the next block number of the oracle and the *)
(* output of that block from its rollup node, and sends a proposal through *)
(* the transaction manager.                                                *)
(*                                                                         *)
(* Send may give up at any time, which leaves its transaction with the     *)
(* miners; the next one takes the same nonce, so that of the transactions  *)
(* in pending one at most is included.                                     *)
(***************************************************************************)
EXTENDS L2OutputOracle

CONSTANTS
    MaxBlock,             \* the last L2 block
    RootOf,               \* the output root of every L2 block
    MaxLag,               \* by how much CurrentL1 of the node may trail L1
    MaxFaults             \* proposals with the root of another chain

ASSUME SubmitterAssumption ==
    /\ {MaxBlock, MaxLag, MaxFaults} \subseteq Nat
    /\ StartingBlockNumber <= MaxBlock
    /\ RootOf \in [0 .. MaxBlock -> Roots]

VARIABLES
    l2Head,               \* the finalized head of the rollup node, or its safe head
    pending,              \* proposals with the miners
    faults

submitterVars == <<l2Head, pending, faults>>

PendingProposal == [outputRoot : Roots, l2BlockNumber : Nat, l1 : Nat \cup {None}]

InitSubmitter ==
    l2Head = StartingBlockNumber /\ pending = {} /\ faults = 0

(* The block after l2Head may be proposed already *)
SendProposal_Early(root, l1) ==
    LET n == NextBlockNumber
        proposal == [outputRoot |-> root, l2BlockNumber |-> n, l1 |-> l1]
    IN /\ n <= l2Head + 1
       /\ CanPropose(n, l1)
       /\ \/ root = RootOf[n] /\ UNCHANGED faults
          \/ root # RootOf[n] /\ faults < MaxFaults /\ faults' = faults + 1
       /\ pending' = pending \cup {proposal}
       /\ UNCHANGED <<l2Head, l2Outputs>>

(* CurrentL1 of the node, or none: the oracle lets the proposer leave the  *)
(* hash out when a proposal is held up for too long.                       *)
CurrentL1 == {n \in 0 .. timestamp : timestamp - n <= MaxLag} \cup {None}

(* FetchNextOutputInfo and the start of sendTransaction.  The node may be  *)
(* on another chain.  A proposal that the oracle would not take fails when *)
(* its gas is estimated, and is not sent.                                  *)
SendProposal(root, l1) ==
    LET n == NextBlockNumber
        proposal == [outputRoot |-> root, l2BlockNumber |-> n, l1 |-> l1]
    IN /\ n <= l2Head
       /\ CanPropose(n, l1)
       /\ \/ root = RootOf[n] /\ UNCHANGED faults
          \/ root # RootOf[n] /\ faults < MaxFaults /\ faults' = faults + 1
       /\ pending' = pending \cup {proposal}
       /\ UNCHANGED <<l2Head, l2Outputs>>

(* A transaction is included, and reverts when the oracle does not take it *)
IncludeProposal(p) ==
    /\ p \in pending
    /\ pending' = {}
    /\ \/ ProposeL2Output(p.outputRoot, p.l2BlockNumber, p.l1)
       \/ ~CanPropose(p.l2BlockNumber, p.l1) /\ UNCHANGED l2Outputs
    /\ UNCHANGED <<l2Head, faults>>

(* The rollup node derives a block, whose time has come *)
L2HeadAdvances ==
    /\ l2Head < MaxBlock /\ ComputeL2Timestamp(l2Head + 1) <= timestamp
    /\ l2Head' = l2Head + 1
    /\ UNCHANGED <<pending, faults, l2Outputs>>
=============================================================================
