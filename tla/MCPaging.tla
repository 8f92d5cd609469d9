------------------------------- MODULE MCPaging -------------------------------
(***************************************************************************)
(* An instance of Paging for TLC: every sequence of at most CALL_BOUND     *)
(* calls and, once some task is torn, of at most TORN_BOUND.  Without      *)
(* these bounds the permutations of frames over the pages are too many to  *)
(* enumerate.                                                              *)
(***************************************************************************)
EXTENDS Paging, TLC

CONSTANTS CALL_BOUND, TORN_BOUND

VARIABLE calls

MCInit == Init /\ calls = 0

MCNext ==
  /\ calls < IF torn = {} THEN CALL_BOUND ELSE TORN_BOUND
  /\ calls' = calls + 1
  /\ Next

MCSpec == MCInit /\ [][MCNext]_<<vars, calls>>

Perms == Permutations(Task)
=============================================================================
