---------------------------- MODULE MCTaskQueues ----------------------------
(* Small instance of TaskQueues: three queues and tasks due at once or later. *)
EXTENDS TaskQueues, TLC

CONSTANTS p1, q1, r1

AnyQueue == Permutations(Queues)
=============================================================================
