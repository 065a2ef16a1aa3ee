----------------------------- MODULE MCFileStore -----------------------------
(* The file store, and the queues its purges go through, on their own: a   *)
(* behaviour is one of the store or one of the queues.                     *)
EXTENDS FileStore, TaskQueue, TLC

VARIABLE side

MCSymmetry == Permutations(Requests)

AllInit == Init /\ QueueInit /\ side \in {"files", "queues"}
AllNext == /\ \/ side = "files" /\ Next /\ UNCHANGED queueVars
              \/ side = "queues" /\ QueueNext /\ UNCHANGED vars
           /\ UNCHANGED side
AllSpec == AllInit /\ [][AllNext]_<<vars, queueVars, side>>

=============================================================================
