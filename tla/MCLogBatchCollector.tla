------------------------ MODULE MCLogBatchCollector ------------------------
(* Small instances of LogBatchCollector for TLC.                           *)
EXTENDS LogBatchCollector, TLC

PushSymmetry == Permutations(Pushes)

=============================================================================
