-------------------------- MODULE MCBatchSubmitter --------------------------
(* Small instances of BatchSubmitter *)
EXTENDS BatchSubmitter

(* Two L2 blocks for each L1 block, the second of the larger ones *)
MCEpochOf(n) == (n + 1) \div 2
MCSizeOf(n) == IF n % 2 = 0 THEN 2 ELSE 1
=============================================================================
