---------------------------- MODULE SchedulerLife ----------------------------
(***************************************************************************)
(* The scheduler implements TaskLife, and how long a ready task is passed  *)
(* over.  The mapping reads a task's stage off its status, the dead queue  *)
(* and awaiting_stdin.                                                     *)
(***************************************************************************)
EXTENDS Scheduler

LifeOf(t) ==
  CASE status[t] = "FREE" -> "none"
    [] t \in DeadSet -> "dead"
    [] status[t] = "TASK_READY" -> "ready"
    [] status[t] = "TASK_SLEEP" -> IF awaiting_stdin = t THEN "waiting" ELSE "lost"
    [] OTHER -> "running"

Life == INSTANCE TaskLife WITH
  Task <- UserTask, Kernel <- NULL,
  life <- [t \in UserTask |-> LifeOf(t)],
  hung <- cpu = "spinning"

(* The scheduler gives every task the life TaskLife promises: the CPU goes to  *)
(* ready tasks only and to one at a time, a task is freed only after it died,  *)
(* a reader comes back only with a line, and the CPU is lost only when no task *)
(* is ready (scheduler.c:46-150, 207-293). *)
ImplementsTaskLife == Life!Spec

-----------------------------------------------------------------------------
VARIABLE passed   \* history: for each ready task, the tasks that got the CPU
                  \* since it became ready

(* The user task that a step gives the CPU to, if it does. *)
Given == IF current_task' = current_task THEN {} ELSE {current_task'} \cap UserTask

TurnInit == Init /\ passed = [t \in UserTask |-> {}]

TurnNext ==
  /\ Next
  /\ passed' = [t \in UserTask |->
                  IF status[t] = "TASK_READY" /\ status'[t] = "TASK_READY"
                  THEN passed[t] \cup Given ELSE {}]

TurnSpec == TurnInit /\ [][TurnNext]_<<vars, passed>>

(* While a task is ready no other task gets the CPU twice: the place where     *)
(* enqueue_task puts a new task (scheduler.c:210-217) and the order in which   *)
(* next_task looks (scheduler.c:48-52) make the scheduler round-robin also     *)
(* when tasks come, sleep, are woken and die between two turns. *)
OneTurnEach ==
  [][\A t \in UserTask : status[t] = "TASK_READY" => Given \cap passed[t] = {}]_<<vars, passed>>
=============================================================================
