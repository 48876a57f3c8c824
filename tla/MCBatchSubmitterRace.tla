------------------------ MODULE MCBatchSubmitterRace ------------------------
(* A small instance of BatchSubmitterRace *)
EXTENDS BatchSubmitterRace

MCEpochOf(n) == (n + 1) \div 2
MCSizeOf(n) == IF n % 2 = 0 THEN 2 ELSE 1
=============================================================================
