--------------------------- MODULE MCSchedulerLife ---------------------------
(* The scheduler with symmetric user tasks. *)
EXTENDS SchedulerLife, TLC

Perms == Permutations(UserTask)
=============================================================================
