------------------------------ MODULE TaskLife -------------------------------
(***************************************************************************)
(* What the scheduler owes its ring-3 tasks, without its list, its queue   *)
(* and its own two tasks: the stages of a task's life and the steps that   *)
(* lead from one to the next.                                              *)
(*                                                                         *)
(*   none -> ready <-> running -> waiting -> ready                         *)
(*                     running -> dead -> none      waiting -> lost        *)
(*                                                                         *)
(* One task at most waits for the next line; another one that comes to     *)
(* wait makes it lost, which is for ever.  The CPU may be lost as well,    *)
(* for ever, but only when no task is ready.                               *)
(***************************************************************************)
CONSTANTS
  Task,
  Kernel     \* no task: stands for idle and the reaper as holders of the CPU

Stage == {"none", "ready", "running", "waiting", "lost", "dead"}

VARIABLES
  life,      \* the stage of each task
  hung       \* the CPU is lost

vars == <<life, hung>>

(* The tasks' stages once the running task, if there is one, is off the CPU. *)
Left(fate) ==
  [t \in Task |->
     IF life[t] = "running" THEN fate
     ELSE IF fate = "waiting" /\ life[t] = "waiting" THEN "lost"
     ELSE life[t]]

(* Dead tasks are freed all at once. *)
Reaped == [t \in Task |-> IF life[t] = "dead" THEN "none" ELSE life[t]]

(* The CPU goes to n, a task that was ready before the step or the kernel. *)
Runs(n, after) ==
  /\ n \in Task => life[n] = "ready"
  /\ life' = [t \in Task |-> IF t = n THEN "running" ELSE after[t]]
  /\ UNCHANGED hung

-----------------------------------------------------------------------------
Init ==
  /\ life = [t \in Task |-> "none"]
  /\ hung = FALSE

Create ==
  /\ \E t \in Task : life[t] = "none" /\ life' = [life EXCEPT ![t] = "ready"]
  /\ UNCHANGED hung

LineTyped ==
  /\ \E t \in Task : life[t] = "waiting" /\ life' = [life EXCEPT ![t] = "ready"]
  /\ UNCHANGED hung

(* The CPU changes hands: the quantum is used up, or it was the kernel's. *)
Preempt == \E n \in Task \cup {Kernel} : Runs(n, Left("ready"))

Wait ==
  /\ \E t \in Task : life[t] = "running"
  /\ \E n \in Task \cup {Kernel} : Runs(n, Left("waiting"))

Exit ==
  /\ \E t \in Task : life[t] = "running"
  /\ \E n \in Task \cup {Kernel} : Runs(n, Left("dead"))

(* The reaper works only while it has the CPU. *)
Reap ==
  /\ \A t \in Task : life[t] # "running"
  /\ \E n \in Task \cup {Kernel} : Runs(n, Reaped)

(* The CPU is lost looking for a ready task, at the end of a step whose other *)
(* effects are there or, for an exit, are not. *)
Hang ==
  /\ \A t \in Task : life[t] # "ready"
  /\ life' \in {life, Left("waiting"), Reaped}
  /\ hung' = TRUE

Next == ~hung /\ (Create \/ LineTyped \/ Preempt \/ Wait \/ Exit \/ Reap \/ Hang)

Spec == Init /\ [][Next]_vars
=============================================================================
