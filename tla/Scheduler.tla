------------------------------ MODULE Scheduler ------------------------------
(***************************************************************************)
(* The round-robin scheduler of the kernel (kernel/scheduler/scheduler.c)  *)
(* with the four ways into it: the timer interrupt (kernel/timer.c), the   *)
(* keyboard interrupt (drivers/keyboard.c, kernel/tty.c), the system calls *)
(* and the page-fault handler (kernel/idt/idt.c), and the reaper task.     *)
(*                                                                         *)
(* The machine has one CPU and every gate of the IDT is an interrupt gate  *)
(* (idt.c:90-97), so a handler runs with interrupts off until it returns   *)
(* or restores another task: each handler is one action.  What interleaves *)
(* is their order.  Interrupts are on in ring-3 code, in the idle loop and *)
(* in the few instructions the reaper executes before its cli.             *)
(*                                                                         *)
(* The task list is modelled as the code has it, by `next' pointers that   *)
(* the run ring and the dead queue share.                                  *)
(*                                                                         *)
(* An operator named Slip_... is the definition after it with one          *)
(* plausible slip.  It is no part of the specification: it shows that the  *)
(* property PROJECT.json pairs it with notices the slip.                   *)
(***************************************************************************)
EXTENDS Naturals, FiniteSets

CONSTANTS
  UserTask,   \* the addresses kmalloc can return for the task_t of a ring-3 task
  Idle,       \* idle_task, the task with pid IDLE_PID
  Reaper,     \* reaper_task
  NULL,
  QUANTUM     \* SCHEDULER_QUANTUM

Task == UserTask \cup {Idle, Reaper}

ASSUME TaskAssumption ==
  /\ Idle # Reaper
  /\ Idle \notin UserTask
  /\ Reaper \notin UserTask
  /\ NULL \notin Task
  /\ QUANTUM \in Nat \ {0}
  /\ IsFiniteSet(UserTask)

VARIABLES
  current_task,
  next,            \* task_t.next of every task
  status,          \* task_t.status; "FREE" for memory that holds no task_t
  dead_queue,
  awaiting_stdin,
  task_total,
  quantum_tick,
  cpu,             \* "running", or "spinning" for ever in next_task
  busy_enqueue     \* history: a task was enqueued while idle was not current

ring == <<current_task, next, status, dead_queue>>
vars == <<current_task, next, status, dead_queue, awaiting_stdin, task_total,
          quantum_tick, cpu, busy_enqueue>>

(* enum task_status, and the mark of a task_t that is not allocated. *)
Status == {"TASK_SCHEDULER_IDLE", "TASK_READY", "TASK_RUNNING", "TASK_SLEEP"}

Live == {t \in Task : status[t] # "FREE"}

-----------------------------------------------------------------------------
(***************************************************************************)
(* Walking the list.  Walk(s, nx, stop) is the set of tasks a loop visits  *)
(* that starts at s, follows nx, and ends at the first task in stop: the   *)
(* least set that holds s and the successor of each member not in stop.    *)
(* A loop that never meets stop goes round for ever.                       *)
(***************************************************************************)
Walk(s, nx, stop) ==
  {t \in Task : \A S \in SUBSET Task :
     (s \in S /\ \A u \in S \ stop : nx[u] \in S) => t \in S}

Slip_Runnable(st) == {t \in Task : st[t] = "TASK_READY"}

(* The statuses that end the loop of next_task. *)
Runnable(st) == {t \in Task : st[t] \in {"TASK_READY", "TASK_SCHEDULER_IDLE"}}

Slip_next_task(c, nx, st) == Walk(nx[Idle], nx, Runnable(st)) \cap Runnable(st)

(* What next_task returns from the list nx and the statuses st when c is    *)
(* current: the first ready or idle task after c, c itself last.  Empty when *)
(* there is none: the code has no exit from its loop then.                  *)
next_task(c, nx, st) == Walk(nx[c], nx, Runnable(st)) \cap Runnable(st)

Slip_Predecessor(c) == c

(* The task whose next pointer is c (scheduler.c:139 and :211). *)
Predecessor(c) == CHOOSE p \in Walk(c, next, {u \in Task : next[u] = c}) : next[p] = c

(* The tasks on the dead queue, which pop_dead_queue returns one after the    *)
(* other, and its last one (scheduler.c:110-114). *)
Queued(head, nx) ==
  IF head = NULL THEN {} ELSE Walk(head, nx, {u \in Task : nx[u] = NULL})

DeadSet == Queued(dead_queue, next)

DeadTail == CHOOSE t \in DeadSet : next[t] = NULL

-----------------------------------------------------------------------------
(***************************************************************************)
(* Statuses as the helpers of the scheduler rewrite them.                  *)
(***************************************************************************)
wake_idle_task(st) == [st EXCEPT ![Idle] = "TASK_SCHEDULER_IDLE"]

sleep_idle_task(st) == [st EXCEPT ![Idle] = "TASK_SLEEP"]

Slip_wake_reaper_task(st) == st

wake_reaper_task(st) == [st EXCEPT ![Reaper] = "TASK_READY"]

sleep_reaper_task(st) == [st EXCEPT ![Reaper] = "TASK_SLEEP"]

(* load_context marks the task it picked as running, unless it is idle. *)
Picked(st, n) == IF n = Idle THEN st ELSE [st EXCEPT ![n] = "TASK_RUNNING"]

(* The end of load_context, and restore_task_context: the CPU goes to n with a *)
(* new quantum. *)
switch_to(n, st) ==
  /\ current_task' = n
  /\ status' = Picked(st, n)
  /\ quantum_tick' = 0
  /\ UNCHANGED cpu

(* load_context from the list nx and the statuses st: next_task returns a     *)
(* task and the CPU goes to it, or next_task never returns. *)
load_context(nx, st) ==
  \/ /\ next_task(current_task, nx, st) = {}
     /\ status' = st
     /\ cpu' = "spinning"
     /\ UNCHANGED <<current_task, quantum_tick>>
  \/ \E n \in next_task(current_task, nx, st) : switch_to(n, st)

-----------------------------------------------------------------------------
(* init_scheduler: idle and reaper make up the ring, and kernel_main goes on *)
(* as the idle task. *)
Init ==
  /\ current_task = Idle
  /\ next = [t \in Task |-> IF t = Idle THEN Reaper ELSE IF t = Reaper THEN Idle ELSE NULL]
  /\ status = [t \in Task |-> IF t = Idle THEN "TASK_SCHEDULER_IDLE"
                              ELSE IF t = Reaper THEN "TASK_SLEEP" ELSE "FREE"]
  /\ dead_queue = NULL
  /\ awaiting_stdin = NULL
  /\ task_total = 0
  /\ quantum_tick = 0
  /\ cpu = "running"
  /\ busy_enqueue = FALSE

Slip_enqueue_task ==
  \E t \in UserTask :
    /\ status[t] = "FREE"
    /\ next' = [next EXCEPT ![Predecessor(current_task)] = t, ![t] = current_task]
    /\ status' = sleep_idle_task([status EXCEPT ![t] = "TASK_READY"])
    /\ busy_enqueue' = (busy_enqueue \/ current_task # Idle)
    /\ UNCHANGED <<current_task, dead_queue, awaiting_stdin, task_total, quantum_tick, cpu>>

(***************************************************************************)
(* enqueue_task with create_task: a new ready task goes in front of the    *)
(* current one, which is the end of the round, and idle is put to sleep    *)
(* whether or not it is the task that was interrupted.                     *)
(***************************************************************************)
enqueue_task ==
  \E t \in UserTask :
    /\ status[t] = "FREE"
    /\ next' = [next EXCEPT ![Predecessor(current_task)] = t, ![t] = current_task]
    /\ status' = sleep_idle_task([status EXCEPT ![t] = "TASK_READY"])
    /\ task_total' = task_total + 1
    /\ busy_enqueue' = (busy_enqueue \/ current_task # Idle)
    /\ UNCHANGED <<current_task, dead_queue, awaiting_stdin, quantum_tick, cpu>>

Slip_wake_stdin_task ==
  /\ awaiting_stdin # NULL
  /\ status' = [status EXCEPT ![awaiting_stdin] = "TASK_READY"]
  /\ UNCHANGED <<current_task, next, dead_queue, awaiting_stdin, task_total,
                 quantum_tick, cpu, busy_enqueue>>

Slip_wake_every_reader ==
  /\ awaiting_stdin # NULL
  /\ status' = [t \in Task |-> IF t \in UserTask /\ status[t] = "TASK_SLEEP"
                               THEN "TASK_READY" ELSE status[t]]
  /\ awaiting_stdin' = NULL
  /\ UNCHANGED <<current_task, next, dead_queue, task_total, quantum_tick, cpu, busy_enqueue>>

(* wake_stdin_task, reached from write_tty_buffer when a newline is typed    *)
(* while some task waits for one. *)
wake_stdin_task ==
  /\ awaiting_stdin # NULL
  /\ status' = [status EXCEPT ![awaiting_stdin] = "TASK_READY"]
  /\ awaiting_stdin' = NULL
  /\ UNCHANGED <<current_task, next, dead_queue, task_total, quantum_tick, cpu, busy_enqueue>>

(* keyboard_interrupt_handler: `t' starts a task, a newline may end a wait;  *)
(* other keys do not reach the scheduler. *)
keyboard_interrupt_handler ==
  /\ cpu = "running"
  /\ \/ enqueue_task
     \/ wake_stdin_task

Slip_await_stdin ==
  LET asleep == [status EXCEPT ![current_task] = "TASK_SLEEP"]
      st     == IF task_total = 1 THEN wake_idle_task(asleep) ELSE asleep
  IN /\ awaiting_stdin' = IF awaiting_stdin = NULL THEN current_task ELSE awaiting_stdin
     /\ load_context(next, st)
     /\ UNCHANGED <<next, dead_queue, task_total, busy_enqueue>>

(***************************************************************************)
(* await_stdin, from a read system call that found no line.  idle is woken *)
(* only when the reader is the one task there is, and awaiting_stdin holds *)
(* one waiter: a second reader takes the place of the first.               *)
(***************************************************************************)
await_stdin ==
  LET asleep == [status EXCEPT ![current_task] = "TASK_SLEEP"]
      st     == IF task_total = 1 THEN wake_idle_task(asleep) ELSE asleep
  IN /\ awaiting_stdin' = current_task
     /\ load_context(next, st)
     /\ UNCHANGED <<next, dead_queue, task_total, busy_enqueue>>

Slip_push_dead_queue(nx, task) == [nx EXCEPT ![task] = NULL]

(* push_dead_queue on the list nx that the task has already left. *)
push_dead_queue(nx, task) ==
  IF dead_queue = NULL THEN [nx EXCEPT ![task] = NULL]
  ELSE [nx EXCEPT ![task] = NULL, ![DeadTail] = task]

(***************************************************************************)
(* task_exit: the current task leaves the ring, another one is loaded, and *)
(* only then is the dead task queued and the reaper woken.  When no task   *)
(* can be loaded the last two steps are never reached.                     *)
(***************************************************************************)
task_exit ==
  LET unlinked == [next EXCEPT ![Predecessor(current_task)] = next[current_task]]
      st == IF task_total - 1 = 0 THEN wake_idle_task(status) ELSE status
  IN /\ task_total' = task_total - 1
     /\ \/ /\ next_task(current_task, unlinked, st) = {}
           /\ cpu' = "spinning"
           /\ next' = unlinked
           /\ status' = st
           /\ UNCHANGED <<current_task, dead_queue, quantum_tick>>
        \/ \E n \in next_task(current_task, unlinked, st) :
             /\ current_task' = n
             /\ status' = wake_reaper_task(Picked(st, n))
             /\ next' = push_dead_queue(unlinked, current_task)
             /\ dead_queue' = IF dead_queue = NULL THEN current_task ELSE dead_queue
             /\ quantum_tick' = 0
             /\ UNCHANGED cpu
     /\ UNCHANGED <<awaiting_stdin, busy_enqueue>>

(* A ring-3 task traps: it exits, or reads when there is no complete line.   *)
(* The other system calls, and a read that finds a line, leave the scheduler *)
(* as it is. *)
syscall_handler ==
  /\ cpu = "running"
  /\ current_task \in UserTask
  /\ \/ task_exit
     \/ await_stdin

(* A ring-3 task faults: exception_handler ends it. *)
exception_handler ==
  /\ cpu = "running"
  /\ current_task \in UserTask
  /\ task_exit

Slip_scheduler_tick ==
  LET st == IF task_total = 0 THEN wake_idle_task(status) ELSE status
  IN /\ \E n \in next_task(current_task, next, st) : switch_to(n, st)
     /\ UNCHANGED <<next, dead_queue, awaiting_stdin, task_total, busy_enqueue>>

(* scheduler_tick: leave the current task for the next ready one, if there   *)
(* is another.  A task that runs is not ready, so with no other task ready   *)
(* and idle asleep next_task does not return.  load_context walks the list a  *)
(* second time and finds the same task: only the current one, which the walk  *)
(* reaches last, has changed. *)
scheduler_tick ==
  LET st == IF task_total = 0 THEN wake_idle_task(status) ELSE status
      requeued == IF st[current_task] # "TASK_SCHEDULER_IDLE"
                  THEN [st EXCEPT ![current_task] = "TASK_READY"] ELSE st
  IN /\ \/ /\ next_task(current_task, next, st) = {}
           /\ status' = st
           /\ cpu' = "spinning"
           /\ quantum_tick' = 0
           /\ UNCHANGED current_task
        \/ /\ next_task(current_task, next, st) = {current_task}
           /\ status' = st
           /\ quantum_tick' = 0
           /\ UNCHANGED <<current_task, cpu>>
        \/ \E n \in next_task(current_task, next, st) \ {current_task} :
             switch_to(n, requeued)
     /\ UNCHANGED <<next, dead_queue, awaiting_stdin, task_total, busy_enqueue>>

(* timer_interrupt_handler *)
timer_interrupt_handler ==
  /\ cpu = "running"
  /\ \/ /\ quantum_tick + 1 < QUANTUM
        /\ quantum_tick' = quantum_tick + 1
        /\ UNCHANGED <<ring, awaiting_stdin, task_total, cpu, busy_enqueue>>
     \/ /\ quantum_tick + 1 >= QUANTUM
        /\ scheduler_tick

(***************************************************************************)
(* One round of reaper_task_loop, from its cli to the next task: every     *)
(* dead task is freed, the reaper sleeps, and since load_context saves no  *)
(* context the reaper starts again at its entry when it is next woken.     *)
(***************************************************************************)
reaper_task_loop ==
  LET freed == [t \in Task |-> IF t \in DeadSet THEN "FREE" ELSE status[t]]
      nx    == [t \in Task |-> IF t \in DeadSet THEN NULL ELSE next[t]]
  IN /\ cpu = "running"
     /\ current_task = Reaper
     /\ dead_queue' = NULL
     /\ next' = nx
     /\ load_context(nx, sleep_reaper_task(freed))
     /\ UNCHANGED <<awaiting_stdin, task_total, busy_enqueue>>

Next ==
  \/ timer_interrupt_handler
  \/ keyboard_interrupt_handler
  \/ syscall_handler
  \/ exception_handler
  \/ reaper_task_loop

Spec == Init /\ [][Next]_vars
-----------------------------------------------------------------------------
TypeOK ==
  /\ current_task \in Task
  /\ next \in [Task -> Task \cup {NULL}]
  /\ status \in [Task -> Status \cup {"FREE"}]
  /\ dead_queue \in Task \cup {NULL}
  /\ awaiting_stdin \in UserTask \cup {NULL}
  /\ task_total \in Nat
  /\ quantum_tick \in 0 .. QUANTUM - 1
  /\ cpu \in {"running", "spinning"}
  /\ busy_enqueue \in BOOLEAN

(* The tasks on the run ring: what the scheduler can reach from the current one. *)
RingSet == Walk(current_task, next, {})

(* The run ring is one cycle: from every task on it the scheduler's walk     *)
(* comes to every other one, and idle and the reaper never leave it.  The    *)
(* searches for a predecessor in enqueue_task and task_exit (scheduler.c:139 *)
(* and :211) end because of this. *)
RingIsCycle ==
  cpu = "running" =>
    /\ {Idle, Reaper} \subseteq RingSet
    /\ \A t \in RingSet : Walk(t, next, {}) = RingSet

(* Every task_t is in exactly one place: on the ring or on the dead queue.   *)
(* So the reaper frees no task that can still be scheduled (scheduler.c:246), *)
(* and no task that was created is lost. *)
LiveAccounted ==
  cpu = "running" =>
    /\ RingSet \cap DeadSet = {}
    /\ RingSet \cup DeadSet = Live

(* awaiting_stdin never points to a task that died, was freed or runs:       *)
(* wake_stdin_task (scheduler.c:96) writes through it from an interrupt.     *)
WaiterIsAsleep ==
  (cpu = "running" /\ awaiting_stdin # NULL) =>
    /\ awaiting_stdin \in RingSet
    /\ status[awaiting_stdin] = "TASK_SLEEP"
    /\ awaiting_stdin # current_task

(* Only the task on the CPU is marked running, and a ring-3 task on the CPU  *)
(* is; next_task would otherwise pass over a task that could run.            *)
OnlyCurrentRuns ==
  cpu = "running" =>
    /\ \A t \in RingSet : status[t] = "TASK_RUNNING" => t = current_task
    /\ current_task \in UserTask => status[current_task] = "TASK_RUNNING"

(* task_total, which decides when idle is woken (scheduler.c:86 and :133),   *)
(* is the number of ring-3 tasks on the ring. *)
TotalIsExact == cpu = "running" => task_total = Cardinality(RingSet \cap UserTask)

(* While a dead task is queued the reaper is ready or running: task_exit's   *)
(* wake_reaper_task is never undone by the sleep_reaper_task of a round that *)
(* did not see the task. *)
ReaperHasDuty ==
  (cpu = "running" /\ dead_queue # NULL) => status[Reaper] # "TASK_SLEEP"

(* next_task spins for ever only if at some time a task was enqueued while   *)
(* idle was not on the CPU.  sleep_idle_task in enqueue_task then takes idle *)
(* out of the round for good; when idle itself is current, scheduler_tick    *)
(* makes it ready again. *)
SpinNeedsBusyEnqueue == cpu = "spinning" => busy_enqueue

(* A reader that a second reader displaced from awaiting_stdin is never      *)
(* scheduled again: it sleeps, and no step of the kernel wakes it.           *)
Stranded(t) == status[t] = "TASK_SLEEP" /\ awaiting_stdin # t

StrandedForEver == [][\A t \in UserTask : Stranded(t) => Stranded(t)']_vars

(* A ready task gets the CPU, unless the scheduler hangs. *)
ReadyRuns ==
  \A t \in UserTask : status[t] = "TASK_READY" ~> (current_task = t \/ cpu = "spinning")

(* Dead tasks are freed, all that are queued in one round of the reaper,      *)
(* unless the scheduler hangs. *)
DeadAreReaped == dead_queue # NULL ~> (dead_queue = NULL \/ cpu = "spinning")
=============================================================================
