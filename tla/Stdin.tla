-------------------------------- MODULE Stdin --------------------------------
(***************************************************************************)
(* The read system call from end to end: Scheduler and Tty composed over   *)
(* awaiting_stdin and the status of the tasks, which they share.           *)
(*                                                                         *)
(* A read that finds no line saves its task with eip moved back onto the   *)
(* int 0x80 and the registers as they are (scheduler.c:80-90): the task    *)
(* makes the same call again, and nothing else, when it next runs.  Here   *)
(* programs neither write nor turn echo on, so the cursor stays.           *)
(***************************************************************************)
EXTENDS Scheduler, Integers, Sequences

CONSTANTS Char, NL, NUL, SIZE, LEN_BOUND, TYPED_BOUND    \* as in Tty

NONE == -1

VARIABLES
  stdin_buffer, buffer_head, buffer_tail, accepted, delivered,
  want,        \* the length of the read call each task is in, or NONE
  robbed       \* history: since the task last went to sleep another task's
               \* read has returned

T == INSTANCE Tty WITH
  Reader <- UserTask,
  asleep <- {t \in UserTask : status[t] = "TASK_SLEEP"},
  echo <- FALSE, terminal_row <- 0, terminal_column <- 0,
  WIDTH <- 1, HEIGHT <- 1, ROW_BOUND <- 0, Text <- {}

buffer == <<stdin_buffer, buffer_head, buffer_tail, accepted, delivered>>
calls == <<want, robbed>>
allvars == <<vars, buffer, calls>>

-----------------------------------------------------------------------------
StdinInit ==
  /\ Init
  /\ stdin_buffer = [i \in 0 .. SIZE - 1 |-> NUL]
  /\ buffer_head = 0 /\ buffer_tail = 0
  /\ accepted = <<>> /\ delivered = <<>>
  /\ want = [t \in UserTask |-> NONE]
  /\ robbed = [t \in UserTask |-> FALSE]

(* keyboard_interrupt_handler for `t', and for every other key. *)
key_t ==
  /\ cpu = "running"
  /\ enqueue_task
  /\ UNCHANGED <<buffer, calls>>

key_char ==
  /\ cpu = "running"
  /\ \E c \in Char :
       /\ IF c = NL /\ awaiting_stdin # NULL THEN wake_stdin_task ELSE UNCHANGED vars
       /\ T!store_and_wake(c)
  /\ UNCHANGED calls

(* The SYS_READ case of syscall_handler for len bytes. *)
sys_read(len) ==
  \/ /\ ~T!stdin_buffer_has_line
     /\ await_stdin
     /\ want' = [want EXCEPT ![current_task] = len]
     /\ robbed' = [robbed EXCEPT ![current_task] = FALSE]
     /\ UNCHANGED buffer
  \/ /\ T!stdin_buffer_has_line
     /\ T!tty_read(len)
     /\ want' = [want EXCEPT ![current_task] = NONE]
     /\ robbed' = [t \in UserTask |-> t # current_task]
     /\ UNCHANGED <<vars, stdin_buffer, accepted>>

(* The task t on the CPU reads, or reads again. *)
read(t) ==
  /\ cpu = "running"
  /\ current_task = t
  /\ \E len \in 0 .. LEN_BOUND : want[t] \in {NONE, len} /\ sys_read(len)

(* The system call exit, or a page fault in ring 3. *)
exit ==
  /\ cpu = "running"
  /\ current_task \in UserTask
  /\ want[current_task] = NONE
  /\ task_exit
  /\ UNCHANGED <<buffer, calls>>

timer == timer_interrupt_handler /\ UNCHANGED <<buffer, calls>>
reaper == reaper_task_loop /\ UNCHANGED <<buffer, calls>>

StdinNext == key_t \/ key_char \/ (\E t \in UserTask : read(t)) \/ exit \/ timer \/ reaper

StdinSpec == StdinInit /\ [][StdinNext]_allvars

(***************************************************************************)
(* Fairness.  The PIT interrupts for ever.  load_context gives a task a    *)
(* whole quantum: the reaper needs a few instructions of it to reach its   *)
(* cli, and a task in the middle of a read one, to make the call again.    *)
(* So whoever of them is dispatched again and again takes its step.        *)
(***************************************************************************)
StdinFairSpec ==
  /\ StdinSpec
  /\ WF_allvars(timer)
  /\ SF_allvars(reaper)
  /\ \A t \in UserTask : SF_allvars(want[t] # NONE /\ read(t))
-----------------------------------------------------------------------------
(* The composition implements the terminal on its own: under this scheduler    *)
(* the terminal's callers do what Tty assumes of them, and so its properties   *)
(* hold here (idt.c:52-54, scheduler.c:80-99, tty.c:131-172). *)
ImplementsTty == T!Spec

(* A woken reader's call comes back with what was typed, unless another task   *)
(* reads the line first or the scheduler hangs. *)
WokenReturns ==
  \A t \in UserTask :
    (want[t] # NONE /\ status[t] = "TASK_READY" /\ T!stdin_buffer_has_line)
      ~> (want[t] = NONE \/ robbed[t] \/ cpu = "spinning")
=============================================================================
