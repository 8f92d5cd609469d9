--------------------------- MODULE SchedulerProofs ---------------------------
(***************************************************************************)
(* Proofs about Scheduler, for any finite set of tasks and any quantum.    *)
(*                                                                         *)
(* The inductive invariant says what the scheduler's pointers look like    *)
(* while the CPU is not lost in next_task: the live tasks that are not on  *)
(* the dead queue form one cycle under `next'.  A cycle is described       *)
(* without counting: it is closed, `next' is one-to-one on it, and no part *)
(* of it is closed on its own.  In this form insertion, removal and the    *)
(* walks of the code are matters of choosing the right set.                *)
(*                                                                         *)
(* From it follow the safety properties, the refinement of TaskLife, and   *)
(* with a history of who had the CPU that the scheduler is round-robin.    *)
(* At the end the read system call, composed of the scheduler and the      *)
(* terminal (Stdin), is shown to implement both.                           *)
(***************************************************************************)
EXTENDS SchedulerLife, Stdin, FiniteSetTheorems, TLAPS

Cycle(R, nx) ==
  /\ R \subseteq Task
  /\ \A u \in R : nx[u] \in R
  /\ \A u, v \in R : nx[u] = nx[v] => u = v
  /\ \A S \in SUBSET R : (S # {} /\ \A u \in S : nx[u] \in S) => S = R

Links == [Task -> Task \cup {NULL}]

-----------------------------------------------------------------------------
(* A closed part of a cycle that is not empty is all of it. *)
LEMMA CycleWhole ==
  ASSUME NEW R, NEW nx, Cycle(R, nx),
         NEW S, S \subseteq R, S # {}, \A u \in S : nx[u] \in S
  PROVE  S = R
  BY DEF Cycle

(* A walk stays in any set that holds its start and is closed under the step. *)
LEMMA WalkWithin ==
  ASSUME NEW s, NEW nx, NEW stop, NEW R \in SUBSET Task,
         s \in R, \A u \in R \ stop : nx[u] \in R
  PROVE  Walk(s, nx, stop) \subseteq R
  BY DEF Walk

(* A walk that never leaves Task holds its start and takes every step. *)
LEMMA WalkSteps ==
  ASSUME NEW s \in Task, NEW nx, NEW stop
  PROVE  /\ s \in Walk(s, nx, stop)
         /\ \A u \in Walk(s, nx, stop) \ stop :
              nx[u] \in Task => nx[u] \in Walk(s, nx, stop)
  BY DEF Walk

(* On a cycle a walk without a stop visits everything. *)
LEMMA WalkIsCycle ==
  ASSUME NEW nx, NEW R, Cycle(R, nx), NEW s \in R
  PROVE  Walk(s, nx, {}) = R
<1>1. Walk(s, nx, {}) \subseteq R
  BY WalkWithin DEF Cycle
<1>2. ASSUME NEW S \in SUBSET Task, s \in S, \A u \in S \ {} : nx[u] \in S
      PROVE  R \subseteq S
  <2>1. \A u \in S \cap R : nx[u] \in S \cap R
    BY <1>2 DEF Cycle
  <2>2. S \cap R # {}
    BY <1>2
  <2>3. S \cap R = R
    BY <2>1, <2>2, CycleWhole
  <2> QED BY <2>3
<1>3. R \subseteq Walk(s, nx, {})
  BY <1>2 DEF Walk, Cycle
<1> QED BY <1>1, <1>3

(* The tasks next_task may return are runnable ones of any closed set that   *)
(* holds the successor of the current task. *)
LEMMA NextTaskInRing ==
  ASSUME NEW c, NEW nx, NEW st, NEW R \in SUBSET Task,
         nx[c] \in R, \A u \in R : nx[u] \in R
  PROVE  next_task(c, nx, st) \subseteq R \cap Runnable(st)
  BY WalkWithin DEF next_task

(* On a cycle next_task returns if any task of the cycle is runnable. *)
LEMMA NextTaskFinds ==
  ASSUME NEW c, NEW nx, NEW st, NEW R, Cycle(R, nx), nx[c] \in R,
         NEW r \in R, r \in Runnable(st)
  PROVE  next_task(c, nx, st) # {}
<1> SUFFICES ASSUME next_task(c, nx, st) = {} PROVE FALSE
  OBVIOUS
<1> DEFINE W == Walk(nx[c], nx, Runnable(st))
<1>1. W \subseteq R
  BY WalkWithin DEF Cycle
<1>2. nx[c] \in W /\ \A u \in W \ Runnable(st) : nx[u] \in Task => nx[u] \in W
  BY WalkSteps DEF Cycle
<1>3. W \cap Runnable(st) = {}
  BY DEF next_task
<1> HIDE DEF W
<1>4. \A u \in W : nx[u] \in W
  BY <1>1, <1>2, <1>3 DEF Cycle
<1>5. W = R
  BY <1>1, <1>2, <1>4, CycleWhole
<1> QED BY <1>3, <1>5

(* On a cycle the search for the predecessor of a task ends at the one task   *)
(* of the cycle that points to it. *)
LEMMA PredecessorInRing ==
  ASSUME NEW R, Cycle(R, next), NEW c \in R
  PROVE  Predecessor(c) \in R /\ next[Predecessor(c)] = c
<1> DEFINE stop == {u \in Task : next[u] = c}
           W == Walk(c, next, stop)
<1>1. W \subseteq R
  BY WalkWithin DEF Cycle
<1>2. c \in W /\ \A u \in W \ stop : next[u] \in Task => next[u] \in W
  BY WalkSteps DEF Cycle
<1>3. \E p \in W : next[p] = c
  <2> SUFFICES ASSUME \A p \in W : next[p] # c PROVE FALSE
    OBVIOUS
  <2> HIDE DEF W
  <2>1. \A u \in W : next[u] \in W
    BY <1>1, <1>2 DEF Cycle
  <2>2. W = R
    BY <1>1, <1>2, <2>1, CycleWhole
  <2>3. \A u \in R \ {c} : next[u] \in R \ {c}
    BY <2>2 DEF Cycle
  <2>4. next[c] \in R \ {c}
    BY <2>2 DEF Cycle
  <2>5. R \ {c} = R
    BY <2>3, <2>4, CycleWhole
  <2> QED BY <2>5
<1>4. Predecessor(c) \in W /\ next[Predecessor(c)] = c
  BY <1>3 DEF Predecessor
<1> QED BY <1>1, <1>4

-----------------------------------------------------------------------------
(* enqueue_task puts a new task between the predecessor of c and c: the cycle *)
(* grows by that task. *)
LEMMA CycleInsert ==
  ASSUME NEW R, NEW nx \in Links, Cycle(R, nx), NEW c \in R, NEW p \in R, nx[p] = c,
         NEW n \in Task \ R
  PROVE  Cycle(R \cup {n}, [nx EXCEPT ![p] = n, ![n] = c])
<1> DEFINE nx2 == [nx EXCEPT ![p] = n, ![n] = c]
<1>0. /\ p \in Task /\ n \in Task /\ p # n
      /\ nx2[p] = n /\ nx2[n] = c
      /\ \A u \in Task : u # p /\ u # n => nx2[u] = nx[u]
  BY DEF Cycle, Links
<1> HIDE DEF nx2
<1>1. R \cup {n} \subseteq Task
  BY DEF Cycle
<1>2. \A u \in R \cup {n} : nx2[u] \in R \cup {n}
  BY <1>0 DEF Cycle
<1>3. \A u, v \in R \cup {n} : nx2[u] = nx2[v] => u = v
  BY <1>0 DEF Cycle
<1>4. ASSUME NEW S \in SUBSET (R \cup {n}), S # {}, \A u \in S : nx2[u] \in S
      PROVE  S = R \cup {n}
  <2> DEFINE U == S \ {n}
  <2>1. U # {}
    BY <1>4, <1>0
  <2>2. U \in SUBSET R
    OBVIOUS
  <2>3. p \in S
    <3> SUFFICES ASSUME p \notin S PROVE FALSE
      OBVIOUS
    <3>1. \A u \in U : nx[u] \in U
      BY <1>4, <1>0 DEF Cycle
    <3>2. U = R
      BY <2>1, <2>2, <3>1, CycleWhole
    <3> QED BY <3>2
  <2>4. n \in S /\ c \in S
    BY <2>3, <1>4, <1>0
  <2>5. \A u \in U : nx[u] \in U
    BY <1>4, <1>0, <2>4 DEF Cycle
  <2>6. U = R
    BY <2>1, <2>2, <2>5, CycleWhole
  <2> QED BY <2>4, <2>6
<1> QED BY <1>1, <1>2, <1>3, <1>4 DEF Cycle, nx2

(* task_exit takes c out between its predecessor and its successor: the       *)
(* cycle shrinks by c, provided it holds another task. *)
LEMMA CycleRemove ==
  ASSUME NEW R, NEW nx \in Links, Cycle(R, nx), NEW c \in R, NEW p \in R, nx[p] = c,
         NEW d \in R, d # c
  PROVE  /\ Cycle(R \ {c}, [nx EXCEPT ![p] = nx[c]])
         /\ p # c
         /\ nx[c] \in R \ {c}
<1>1. p # c /\ nx[c] \in R \ {c}
  <2>1. nx[c] # c
    <3> SUFFICES ASSUME nx[c] = c PROVE FALSE
      OBVIOUS
    <3>1. {c} \subseteq R /\ {c} # {} /\ \A u \in {c} : nx[u] \in {c}
      OBVIOUS
    <3>2. {c} = R
      BY <3>1, CycleWhole
    <3> QED BY <3>2
  <2> QED BY <2>1 DEF Cycle
<1> DEFINE nx2 == [nx EXCEPT ![p] = nx[c]]
<1>2. /\ p \in Task /\ nx2[p] = nx[c]
      /\ \A u \in Task : u # p => nx2[u] = nx[u]
  BY DEF Cycle, Links
<1> HIDE DEF nx2
<1>3. R \ {c} \subseteq Task
  BY DEF Cycle
<1>4. \A u \in R \ {c} : nx2[u] \in R \ {c}
  BY <1>1, <1>2 DEF Cycle
<1>5. \A u, v \in R \ {c} : nx2[u] = nx2[v] => u = v
  BY <1>1, <1>2 DEF Cycle
<1>6. ASSUME NEW S \in SUBSET (R \ {c}), S # {}, \A u \in S : nx2[u] \in S
      PROVE  S = R \ {c}
  <2>1. p \in S
    <3> SUFFICES ASSUME p \notin S PROVE FALSE
      OBVIOUS
    <3>1. \A u \in S : nx[u] \in S
      BY <1>6, <1>2 DEF Cycle
    <3>2. S = R
      BY <1>6, <3>1, CycleWhole
    <3> QED BY <3>2
  <2>2. \A u \in S \cup {c} : nx[u] \in S \cup {c}
    BY <1>6, <1>2, <2>1 DEF Cycle
  <2>3. S \cup {c} \subseteq R /\ S \cup {c} # {}
    OBVIOUS
  <2>4. S \cup {c} = R
    BY <2>2, <2>3, CycleWhole
  <2> QED BY <2>4
<1> QED BY <1>1, <1>3, <1>4, <1>5, <1>6 DEF Cycle, nx2

(* What the cycle is depends only on the links of its own tasks. *)
LEMMA CycleFrame ==
  ASSUME NEW R, NEW nx, NEW nx2, Cycle(R, nx), \A u \in R : nx2[u] = nx[u]
  PROVE  Cycle(R, nx2)
  BY DEF Cycle

-----------------------------------------------------------------------------
(* The dead queue holds its head and follows the links to the NULL. *)
LEMMA QueueSteps ==
  ASSUME NEW head \in Task, NEW nx \in Links
  PROVE  /\ head \in Queued(head, nx)
         /\ Queued(head, nx) \subseteq Task
         /\ \A u \in Queued(head, nx) : nx[u] # NULL => nx[u] \in Queued(head, nx)
<1> DEFINE stop == {u \in Task : nx[u] = NULL}
<1>1. Queued(head, nx) = Walk(head, nx, stop)
  BY TaskAssumption DEF Queued
<1>2. Walk(head, nx, stop) \subseteq Task
  BY DEF Walk
<1>3. /\ head \in Walk(head, nx, stop)
      /\ \A u \in Walk(head, nx, stop) \ stop :
           nx[u] \in Task => nx[u] \in Walk(head, nx, stop)
  BY WalkSteps
<1> QED BY <1>1, <1>2, <1>3 DEF Links

(* The queue is the least set with that property. *)
LEMMA QueueWithin ==
  ASSUME NEW head \in Task, NEW nx \in Links, NEW S \in SUBSET Task,
         head \in S, \A u \in S : nx[u] # NULL => nx[u] \in S
  PROVE  Queued(head, nx) \subseteq S
<1> DEFINE stop == {u \in Task : nx[u] = NULL}
<1>1. Queued(head, nx) = Walk(head, nx, stop)
  BY TaskAssumption DEF Queued
<1>2. \A u \in S \ stop : nx[u] \in S
  OBVIOUS
<1> QED BY <1>1, <1>2, WalkWithin

(* The queue depends only on the links of its own tasks. *)
LEMMA QueueFrame ==
  ASSUME NEW head \in Task \cup {NULL}, NEW nx \in Links, NEW nx2 \in Links,
         \A u \in Queued(head, nx) : nx2[u] = nx[u]
  PROVE  Queued(head, nx2) = Queued(head, nx)
<1>1. CASE head = NULL
  BY <1>1 DEF Queued
<1>2. CASE head \in Task
  <2> DEFINE D == Queued(head, nx)
             E == Queued(head, nx2)
  <2>1. /\ head \in D /\ D \subseteq Task
        /\ \A u \in D : nx[u] # NULL => nx[u] \in D
    BY <1>2, QueueSteps
  <2>2. /\ head \in E /\ E \subseteq Task
        /\ \A u \in E : nx2[u] # NULL => nx2[u] \in E
    BY <1>2, QueueSteps
  <2>3. \A u \in D : nx2[u] = nx[u]
    OBVIOUS
  <2>4. E \subseteq D
    BY <1>2, <2>1, <2>3, QueueWithin
  <2> HIDE DEF E
  <2>5. D \subseteq E
    BY <1>2, <2>2, <2>3, <2>4, QueueWithin
  <2> QED BY <2>4, <2>5 DEF E
<1> QED BY <1>1, <1>2

(* push_dead_queue on an empty queue. *)
LEMMA QueueSingle ==
  ASSUME NEW c \in Task, NEW nx \in Links, nx[c] = NULL
  PROVE  Queued(c, nx) = {c}
<1>1. c \in Queued(c, nx)
  BY QueueSteps
<1>2. {c} \in SUBSET Task /\ c \in {c} /\ \A u \in {c} : nx[u] # NULL => nx[u] \in {c}
  OBVIOUS
<1>3. Queued(c, nx) \subseteq {c}
  BY <1>2, QueueWithin
<1> QED BY <1>1, <1>3

(* push_dead_queue on a queue with a last task: the queue grows by c. *)
LEMMA QueuePush ==
  ASSUME NEW head \in Task, NEW nx \in Links, NEW nx2 \in Links, NEW c \in Task,
         c \notin Queued(head, nx),
         NEW tail \in Queued(head, nx), nx[tail] = NULL,
         nx2[c] = NULL, nx2[tail] = c,
         \A u \in Queued(head, nx) : u # tail => nx2[u] = nx[u]
  PROVE  Queued(head, nx2) = Queued(head, nx) \cup {c}
<1> DEFINE D == Queued(head, nx)
           E == Queued(head, nx2)
<1>1. /\ head \in D /\ D \subseteq Task
      /\ \A u \in D : nx[u] # NULL => nx[u] \in D
  BY QueueSteps
<1>2. /\ head \in E /\ E \subseteq Task
      /\ \A u \in E : nx2[u] # NULL => nx2[u] \in E
  BY QueueSteps
<1>3. c \notin D /\ tail \in D /\ \A u \in D : u # tail => nx2[u] = nx[u]
  OBVIOUS
<1> HIDE DEF D, E
<1>4. E \subseteq D \cup {c}
  <2>1. /\ D \cup {c} \in SUBSET Task /\ head \in D \cup {c}
        /\ \A u \in D \cup {c} : nx2[u] # NULL => nx2[u] \in D \cup {c}
    BY <1>1, <1>3
  <2> QED BY <2>1, QueueWithin DEF E
<1>5. D \subseteq E
  <2>1. /\ D \cap E \in SUBSET Task /\ head \in D \cap E
        /\ \A u \in D \cap E : nx[u] # NULL => nx[u] \in D \cap E
    BY <1>1, <1>2, <1>3
  <2>2. D \subseteq D \cap E
    BY <2>1, QueueWithin DEF D
  <2> QED BY <2>2
<1>6. c \in E
  BY <1>2, <1>3, <1>5, TaskAssumption
<1> QED BY <1>4, <1>5, <1>6 DEF D, E

-----------------------------------------------------------------------------
(***************************************************************************)
(* The inductive invariant.  Ring is the run ring, described from outside: *)
(* the live tasks that are not queued as dead.                             *)
(***************************************************************************)
Ring == Live \ DeadSet

RingInv ==
  /\ Cycle(Ring, next)
  /\ current_task \in Ring
  /\ Idle \in Ring
  /\ Reaper \in Ring

QueueInv ==
  /\ DeadSet \subseteq UserTask
  /\ DeadSet \subseteq Live
  /\ dead_queue # NULL => \E t \in DeadSet : next[t] = NULL

RunInv ==
  /\ \A t \in Ring : status[t] = "TASK_RUNNING" => t = current_task
  /\ current_task \in UserTask => status[current_task] = "TASK_RUNNING"

DeadInv == \A t \in DeadSet : status[t] = "TASK_RUNNING"

WaiterInv ==
  awaiting_stdin # NULL =>
    awaiting_stdin \in Ring /\ status[awaiting_stdin] = "TASK_SLEEP"

ReaperInv == dead_queue # NULL => status[Reaper] # "TASK_SLEEP"

(* Until a task is enqueued behind idle's back, idle can be picked, or it is  *)
(* current and the new task that put it to sleep is ready. *)
IdleInv ==
  \/ busy_enqueue
  \/ status[Idle] \in {"TASK_READY", "TASK_SCHEDULER_IDLE"}
  \/ current_task = Idle /\ \E u \in Ring : u # Idle /\ status[u] = "TASK_READY"

CountInv == task_total = Cardinality(Ring \cap UserTask)

Running ==
  /\ RingInv /\ QueueInv /\ CountInv
  /\ RunInv /\ DeadInv /\ WaiterInv /\ ReaperInv /\ IdleInv

IInv ==
  /\ TypeOK
  /\ cpu = "running" => Running
  /\ SpinNeedsBusyEnqueue

(* The properties that the runs check follow from the invariant. *)
LEMMA RingSetIsRing ==
  ASSUME IInv, cpu = "running"
  PROVE  RingSet = Ring
  BY WalkIsCycle DEF RingSet, IInv, Running, RingInv

(* The inductive invariant implies each of the properties of the runs. *)
LEMMA InvImplies ==
  ASSUME IInv
  PROVE  /\ TypeOK /\ RingIsCycle /\ LiveAccounted /\ WaiterIsAsleep /\ OnlyCurrentRuns
         /\ TotalIsExact /\ ReaperHasDuty /\ SpinNeedsBusyEnqueue
<1>1. CASE cpu # "running"
  BY <1>1 DEF IInv, TypeOK, RingIsCycle, LiveAccounted, WaiterIsAsleep,
              OnlyCurrentRuns, TotalIsExact, ReaperHasDuty
<1>2. CASE cpu = "running"
  <2>1. RingSet = Ring
    BY <1>2, RingSetIsRing
  <2>2. Running
    BY <1>2 DEF IInv
  <2>3. RingIsCycle
    BY <2>1, <2>2, WalkIsCycle DEF RingIsCycle, Running, RingInv
  <2>4. LiveAccounted
    BY <2>1, <2>2 DEF LiveAccounted, Running, QueueInv, Ring
  <2>5. WaiterIsAsleep
    BY <2>1, <2>2 DEF WaiterIsAsleep, Running, WaiterInv, RunInv, IInv, TypeOK
  <2>6. OnlyCurrentRuns /\ TotalIsExact /\ ReaperHasDuty
    BY <2>1, <2>2 DEF OnlyCurrentRuns, TotalIsExact, ReaperHasDuty, Running,
                      RunInv, CountInv, ReaperInv
  <2> QED BY <2>3, <2>4, <2>5, <2>6 DEF IInv
<1> QED BY <1>1, <1>2

-----------------------------------------------------------------------------
(* init_scheduler establishes the invariant. *)
LEMMA InitInv == Init => IInv
<1> SUFFICES ASSUME Init PROVE IInv
  OBVIOUS
<1> USE TaskAssumption
<1>1. TypeOK
  <2>1. next \in [Task -> Task \cup {NULL}]
    BY DEF Init, Task
  <2>2. status \in [Task -> Status \cup {"FREE"}]
    BY DEF Init, Status
  <2>3. task_total \in Nat /\ quantum_tick \in 0 .. QUANTUM - 1
    BY DEF Init
  <2> QED BY <2>1, <2>2, <2>3 DEF Init, TypeOK, Task
<1>2. DeadSet = {} /\ Live = {Idle, Reaper} /\ Ring = {Idle, Reaper}
  BY DEF Init, DeadSet, Queued, Live, Ring, Task
<1>3. next[Idle] = Reaper /\ next[Reaper] = Idle
  BY DEF Init, Task
<1>4. Cycle({Idle, Reaper}, next)
  BY <1>3 DEF Cycle, Task
<1>5. RingInv
  BY <1>2, <1>4 DEF RingInv, Init
<1>6. CountInv
  <2>1. Ring \cap UserTask = {}
    BY <1>2
  <2> QED BY <2>1, FS_EmptySet DEF CountInv, Init
<1>7. QueueInv /\ RunInv /\ DeadInv /\ WaiterInv /\ ReaperInv /\ IdleInv
  BY <1>2 DEF QueueInv, RunInv, DeadInv, WaiterInv, ReaperInv, IdleInv, Init, Task
<1> QED BY <1>1, <1>5, <1>6, <1>7 DEF IInv, Running, SpinNeedsBusyEnqueue, Init

-----------------------------------------------------------------------------
(* A step that leaves the links, the dead queue and the set of live tasks    *)
(* alone leaves the ring alone. *)
LEMMA SameList ==
  ASSUME Running, UNCHANGED <<next, dead_queue, task_total>>, Live' = Live,
         current_task' \in Ring
  PROVE  /\ DeadSet' = DeadSet /\ DeadSet \cap Ring = {} /\ DeadSet \subseteq Task
         /\ Ring' = Ring
         /\ RingInv' /\ QueueInv' /\ CountInv'
<1>1. DeadSet' = DeadSet
  BY DEF DeadSet
<1>2. Ring' = Ring
  BY <1>1 DEF Ring
<1> QED BY <1>1, <1>2 DEF Running, RingInv, QueueInv, CountInv, Ring, Live

(* In a running state idle, or the task that put it to sleep, lets next_task *)
(* return; st may differ from status in that idle or the reader changed. *)
LEMMA NextTaskReturns ==
  ASSUME IInv, cpu = "running", ~busy_enqueue, NEW st,
         \/ st[Idle] \in {"TASK_READY", "TASK_SCHEDULER_IDLE"}
         \/ \E u \in Ring : st[u] = "TASK_READY"
  PROVE  next_task(current_task, next, st) # {}
<1>1. Cycle(Ring, next) /\ next[current_task] \in Ring /\ Idle \in Ring
  BY DEF IInv, Running, RingInv, Cycle
<1>2. \E r \in Ring : r \in Runnable(st)
  BY <1>1 DEF Runnable, Cycle
<1> QED BY <1>1, <1>2, NextTaskFinds

(* scheduler_tick preserves the invariant. *)
LEMMA SchedulerTickInv ==
  ASSUME IInv, cpu = "running", scheduler_tick
  PROVE  IInv'
<1> DEFINE st == IF task_total = 0 THEN wake_idle_task(status) ELSE status
           requeued == IF st[current_task] # "TASK_SCHEDULER_IDLE"
                       THEN [st EXCEPT ![current_task] = "TASK_READY"] ELSE st
           found == next_task(current_task, next, st)
<1> USE TaskAssumption
<1>1. TypeOK /\ Running
  BY DEF IInv
<1>2. Ring \subseteq Live /\ Ring \subseteq Task /\ Idle \in Task /\ Reaper \in Task
  BY DEF Ring, Live, Task
<1>3. /\ st \in [Task -> Status \cup {"FREE"}]
      /\ \A t \in Task : t # Idle => st[t] = status[t]
      /\ st[Idle] \in {status[Idle], "TASK_SCHEDULER_IDLE"}
  BY <1>1, <1>2 DEF TypeOK, wake_idle_task, Status
<1>4. found \subseteq Ring \cap Runnable(st)
  BY <1>1, <1>2, NextTaskInRing DEF Running, RingInv, Cycle
<1>5. busy_enqueue \/ found # {}
  <2> SUFFICES ASSUME ~busy_enqueue PROVE found # {}
    OBVIOUS
  <2>1. \/ st[Idle] \in {"TASK_READY", "TASK_SCHEDULER_IDLE"}
        \/ \E u \in Ring : st[u] = "TASK_READY"
    BY <1>1, <1>2, <1>3 DEF Running, IdleInv
  <2> QED BY <2>1, NextTaskReturns
<1>6. /\ \/ /\ found = {}
            /\ status' = st
            /\ cpu' = "spinning"
            /\ quantum_tick' = 0
            /\ UNCHANGED current_task
         \/ /\ found = {current_task}
            /\ status' = st
            /\ quantum_tick' = 0
            /\ UNCHANGED <<current_task, cpu>>
         \/ \E n \in found \ {current_task} : switch_to(n, requeued)
      /\ UNCHANGED <<next, dead_queue, awaiting_stdin, task_total, busy_enqueue>>
  BY DEF scheduler_tick
<1>7. current_task \in Ring /\ current_task \in Live /\ Idle \in Live
  BY <1>1, <1>2 DEF Running, RingInv
<1> HIDE DEF st, found
<1>8. CASE found = {} /\ status' = st /\ cpu' = "spinning" /\ quantum_tick' = 0
           /\ UNCHANGED current_task
  <2>1. TypeOK'
    BY <1>1, <1>3, <1>6, <1>8 DEF TypeOK
  <2> QED BY <2>1, <1>5, <1>6, <1>8 DEF IInv, SpinNeedsBusyEnqueue
<1>9. CASE found = {current_task} /\ status' = st /\ quantum_tick' = 0
           /\ UNCHANGED <<current_task, cpu>>
  <2>1. TypeOK'
    BY <1>1, <1>3, <1>6, <1>9 DEF TypeOK
  <2>2. Live' = Live
    BY <1>3, <1>7, <1>9 DEF Live
  <2>3. Ring' = Ring /\ RingInv' /\ QueueInv' /\ CountInv'
        /\ DeadSet' = DeadSet /\ DeadSet \cap Ring = {} /\ DeadSet \subseteq Task
    BY <1>1, <1>6, <1>7, <1>9, <2>2, SameList
  <2>4. current_task \in Runnable(st)
    BY <1>4, <1>9
  <2>5. RunInv' /\ WaiterInv' /\ ReaperInv'
    BY <1>1, <1>2, <1>3, <1>6, <1>7, <1>9, <2>3
       DEF Running, RunInv, WaiterInv, ReaperInv, TypeOK
  <2>7. DeadInv'
    BY <1>1, <1>2, <1>3, <1>7, <1>9, <2>3 DEF Running, RingInv, DeadInv
  <2>6. IdleInv'
    BY <1>1, <1>2, <1>3, <1>6, <1>9, <2>3 DEF Running, IdleInv
  <2> QED BY <1>9, <2>1, <2>3, <2>5, <2>6, <2>7 DEF IInv, Running, SpinNeedsBusyEnqueue
<1>10. ASSUME NEW n \in found \ {current_task}, switch_to(n, requeued)
       PROVE  IInv'
  <2>1. n \in Ring /\ n \in Task /\ st[n] \in {"TASK_READY", "TASK_SCHEDULER_IDLE"}
    BY <1>2, <1>4 DEF Runnable
  <2>2. /\ requeued \in [Task -> Status \cup {"FREE"}]
        /\ \A t \in Task : t # current_task => requeued[t] = st[t]
        /\ requeued[current_task] \in {"TASK_READY", "TASK_SCHEDULER_IDLE"}
    BY <1>1, <1>3 DEF TypeOK, Status
  <2> HIDE DEF requeued
  <2>3. /\ status' \in [Task -> Status \cup {"FREE"}]
        /\ \A t \in Task : t # n => status'[t] = requeued[t]
        /\ IF n = Idle THEN status'[n] = requeued[n] ELSE status'[n] = "TASK_RUNNING"
    BY <1>10, <2>1, <2>2 DEF switch_to, Picked, Status
  <2>4. current_task' = n /\ quantum_tick' = 0 /\ UNCHANGED cpu
    BY <1>10 DEF switch_to
  <2>5. TypeOK'
    BY <1>1, <1>6, <2>1, <2>3, <2>4 DEF TypeOK
  <2>6. Live' = Live
    BY <1>2, <1>3, <1>7, <2>1, <2>2, <2>3 DEF Live
  <2>7. Ring' = Ring /\ RingInv' /\ QueueInv' /\ CountInv'
        /\ DeadSet' = DeadSet /\ DeadSet \cap Ring = {} /\ DeadSet \subseteq Task
    BY <1>1, <1>6, <2>1, <2>4, <2>6, SameList
  <2>8. RunInv'
    BY <1>1, <1>2, <1>3, <2>1, <2>2, <2>3, <2>4, <2>7 DEF Running, RunInv
  <2>9. WaiterInv' /\ ReaperInv'
    BY <1>1, <1>2, <1>3, <1>6, <2>1, <2>2, <2>3, <2>4, <2>7
       DEF Running, RunInv, WaiterInv, ReaperInv, TypeOK
  <2>11. DeadInv'
    BY <1>1, <1>2, <1>3, <1>7, <2>1, <2>2, <2>3, <2>7 DEF Running, RingInv, DeadInv
  <2>10. IdleInv'
    BY <1>1, <1>2, <1>3, <1>6, <2>1, <2>2, <2>3, <2>4, <2>7 DEF Running, IdleInv
  <2> QED BY <2>4, <2>5, <2>7, <2>8, <2>9, <2>10, <2>11 DEF IInv, Running, SpinNeedsBusyEnqueue
<1> QED BY <1>6, <1>8, <1>9, <1>10

(* enqueue_task preserves the invariant. *)
LEMMA EnqueueInv ==
  ASSUME IInv, cpu = "running", enqueue_task
  PROVE  IInv' /\ DeadSet' = DeadSet
<1> USE TaskAssumption
<1>1. TypeOK /\ Running
  BY DEF IInv
<1>2. PICK t \in UserTask :
        /\ status[t] = "FREE"
        /\ next' = [next EXCEPT ![Predecessor(current_task)] = t, ![t] = current_task]
        /\ status' = sleep_idle_task([status EXCEPT ![t] = "TASK_READY"])
        /\ task_total' = task_total + 1
        /\ busy_enqueue' = (busy_enqueue \/ current_task # Idle)
        /\ UNCHANGED <<current_task, dead_queue, awaiting_stdin, quantum_tick, cpu>>
  BY DEF enqueue_task
<1> DEFINE p == Predecessor(current_task)
<1>3. /\ Ring \subseteq Live /\ Live \subseteq Task /\ DeadSet \subseteq Live
      /\ Idle \in Task /\ Reaper \in Task /\ t \in Task
      /\ t \notin Live /\ Idle \in Ring /\ current_task \in Ring /\ Reaper \in Ring
      /\ Cycle(Ring, next)
      /\ next \in Links
  BY <1>1, <1>2 DEF Ring, Live, Task, Running, RingInv, QueueInv, TypeOK, Links
<1>4. p \in Ring /\ next[p] = current_task /\ p # t
  BY <1>3, PredecessorInRing
<1> HIDE DEF p
<1>5. /\ next' \in Links
      /\ next'[p] = t /\ next'[t] = current_task
      /\ \A u \in Task : u # p /\ u # t => next'[u] = next[u]
  BY <1>2, <1>3, <1>4 DEF Links, p
<1>6. /\ status' \in [Task -> Status \cup {"FREE"}]
      /\ status'[Idle] = "TASK_SLEEP" /\ status'[t] = "TASK_READY"
      /\ \A u \in Task : u # Idle /\ u # t => status'[u] = status[u]
  BY <1>1, <1>2, <1>3 DEF TypeOK, sleep_idle_task, Status
<1>7. TypeOK'
  <2>1. busy_enqueue' \in BOOLEAN
    BY <1>2
  <2>2. task_total' \in Nat
    BY <1>1, <1>2 DEF TypeOK
  <2> QED BY <1>1, <1>2, <1>5, <1>6, <2>1, <2>2 DEF TypeOK, Links
<1>8. DeadSet' = DeadSet
  <2>1. \A u \in DeadSet : next'[u] = next[u]
    BY <1>3, <1>4, <1>5 DEF Ring
  <2> QED BY <1>1, <1>2, <1>3, <1>5, <2>1, QueueFrame DEF DeadSet, TypeOK
<1>9. Live' = Live \cup {t}
  BY <1>3, <1>6 DEF Live
<1>10. Ring' = Ring \cup {t}
  BY <1>3, <1>8, <1>9 DEF Ring
<1>11. RingInv'
  <2>1. t \in Task \ Ring
    BY <1>3
  <2>2. Cycle(Ring \cup {t}, next')
    BY <1>2, <1>3, <1>4, <2>1, CycleInsert DEF p
  <2> QED BY <1>2, <1>3, <1>10, <2>2 DEF RingInv
<1>12. QueueInv'
  BY <1>1, <1>2, <1>3, <1>4, <1>5, <1>8, <1>9 DEF Running, QueueInv, Ring
<1>13. RunInv' /\ WaiterInv' /\ ReaperInv'
  BY <1>1, <1>2, <1>3, <1>6, <1>10 DEF Running, RunInv, WaiterInv, ReaperInv, TypeOK
<1>16. DeadInv'
  BY <1>1, <1>3, <1>6, <1>8 DEF Running, DeadInv, Ring
<1>14. IdleInv'
  BY <1>2, <1>3, <1>6, <1>10 DEF IdleInv
<1>15. CountInv'
  <2>1. Ring' \cap UserTask = (Ring \cap UserTask) \cup {t} /\ t \notin Ring \cap UserTask
    BY <1>3, <1>10
  <2>2. IsFiniteSet(Ring \cap UserTask)
    BY FS_Subset
  <2>3. Cardinality((Ring \cap UserTask) \cup {t}) = Cardinality(Ring \cap UserTask) + 1
    BY <2>1, <2>2, FS_AddElement
  <2> QED BY <1>1, <1>2, <2>1, <2>3 DEF Running, CountInv
<1> QED BY <1>2, <1>7, <1>8, <1>11, <1>12, <1>13, <1>14, <1>15, <1>16
        DEF IInv, Running, SpinNeedsBusyEnqueue

(* wake_stdin_task preserves the invariant. *)
LEMMA WakeStdinInv ==
  ASSUME IInv, cpu = "running", wake_stdin_task
  PROVE  IInv'
<1> USE TaskAssumption
<1> DEFINE w == awaiting_stdin
<1>1. TypeOK /\ Running
  BY DEF IInv
<1>2. w \in Ring /\ w \in UserTask /\ status[w] = "TASK_SLEEP" /\ current_task \in Ring
  BY <1>1 DEF wake_stdin_task, Running, WaiterInv, RingInv, TypeOK
<1>3. Ring \subseteq Live /\ Live \subseteq Task /\ Idle \in Task /\ Reaper \in Task
  BY DEF Ring, Live, Task
<1>4. /\ status' \in [Task -> Status \cup {"FREE"}]
      /\ status'[w] = "TASK_READY"
      /\ \A u \in Task : u # w => status'[u] = status[u]
  BY <1>1, <1>2, <1>3 DEF wake_stdin_task, TypeOK, Status
<1>5. UNCHANGED <<current_task, next, dead_queue, task_total, quantum_tick, cpu, busy_enqueue>>
      /\ awaiting_stdin' = NULL
  BY DEF wake_stdin_task
<1>6. TypeOK'
  BY <1>1, <1>4, <1>5 DEF TypeOK
<1>7. Live' = Live
  BY <1>2, <1>3, <1>4 DEF Live
<1>8. Ring' = Ring /\ RingInv' /\ QueueInv' /\ CountInv'
        /\ DeadSet' = DeadSet /\ DeadSet \cap Ring = {} /\ DeadSet \subseteq Task
  BY <1>1, <1>2, <1>5, <1>7, SameList
<1>9. RunInv' /\ WaiterInv' /\ ReaperInv'
  BY <1>1, <1>2, <1>3, <1>4, <1>5, <1>8 DEF Running, RunInv, WaiterInv, ReaperInv, TypeOK
<1>11. DeadInv'
  BY <1>1, <1>2, <1>4, <1>8 DEF Running, DeadInv
<1>10. IdleInv'
  BY <1>1, <1>2, <1>3, <1>4, <1>5, <1>8 DEF Running, IdleInv
<1> QED BY <1>5, <1>6, <1>8, <1>9, <1>10, <1>11 DEF IInv, Running, SpinNeedsBusyEnqueue

(* await_stdin preserves the invariant. *)
LEMMA AwaitStdinInv ==
  ASSUME IInv, cpu = "running", current_task \in UserTask, await_stdin
  PROVE  IInv'
<1> USE TaskAssumption
<1> DEFINE asleep == [status EXCEPT ![current_task] = "TASK_SLEEP"]
           st == IF task_total = 1 THEN wake_idle_task(asleep) ELSE asleep
           found == next_task(current_task, next, st)
<1>1. TypeOK /\ Running
  BY DEF IInv
<1>2. /\ Ring \subseteq Live /\ Live \subseteq Task /\ Idle \in Task /\ Reaper \in Task
      /\ current_task \in Ring /\ Idle \in Ring /\ current_task # Idle
  BY <1>1 DEF Ring, Live, Task, Running, RingInv
<1>3. /\ st \in [Task -> Status \cup {"FREE"}]
      /\ st[current_task] = "TASK_SLEEP"
      /\ st[Idle] \in {status[Idle], "TASK_SCHEDULER_IDLE"}
      /\ \A u \in Task : u # current_task /\ u # Idle => st[u] = status[u]
  BY <1>1, <1>2 DEF TypeOK, wake_idle_task, Status
<1>4. found \subseteq Ring \cap Runnable(st)
  <2>1. Ring \in SUBSET Task /\ next[current_task] \in Ring /\ \A u \in Ring : next[u] \in Ring
    BY <1>1, <1>2 DEF Running, RingInv, Cycle
  <2> QED BY <2>1, NextTaskInRing
<1>5. busy_enqueue \/ found # {}
  <2> SUFFICES ASSUME ~busy_enqueue PROVE found # {}
    OBVIOUS
  <2>1. st[Idle] \in {"TASK_READY", "TASK_SCHEDULER_IDLE"}
    BY <1>1, <1>2, <1>3 DEF Running, IdleInv
  <2> QED BY <2>1, NextTaskReturns
<1>6. /\ awaiting_stdin' = current_task
      /\ \/ found = {} /\ status' = st /\ cpu' = "spinning"
            /\ UNCHANGED <<current_task, quantum_tick>>
         \/ \E n \in found : switch_to(n, st)
      /\ UNCHANGED <<next, dead_queue, task_total, busy_enqueue>>
  BY DEF await_stdin, load_context
<1> HIDE DEF st, found
<1>7. CASE found = {} /\ status' = st /\ cpu' = "spinning"
           /\ UNCHANGED <<current_task, quantum_tick>>
  <2>1. TypeOK'
    BY <1>1, <1>3, <1>6, <1>7 DEF TypeOK
  <2> QED BY <2>1, <1>5, <1>6, <1>7 DEF IInv, SpinNeedsBusyEnqueue
<1>8. ASSUME NEW n \in found, switch_to(n, st)
      PROVE  IInv'
  <2>1. n \in Ring /\ n \in Task /\ st[n] \in {"TASK_READY", "TASK_SCHEDULER_IDLE"}
        /\ n # current_task
    BY <1>2, <1>3, <1>4 DEF Runnable
  <2>2. /\ status' \in [Task -> Status \cup {"FREE"}]
        /\ \A t \in Task : t # n => status'[t] = st[t]
        /\ IF n = Idle THEN status'[n] = st[n] ELSE status'[n] = "TASK_RUNNING"
    BY <1>3, <1>8, <2>1 DEF switch_to, Picked, Status
  <2>3. current_task' = n /\ quantum_tick' = 0 /\ UNCHANGED cpu
    BY <1>8 DEF switch_to
  <2>4. TypeOK'
    BY <1>1, <1>6, <2>1, <2>2, <2>3 DEF TypeOK
  <2>5. Live' = Live
    BY <1>2, <1>3, <2>1, <2>2 DEF Live
  <2>6. Ring' = Ring /\ RingInv' /\ QueueInv' /\ CountInv'
        /\ DeadSet' = DeadSet /\ DeadSet \cap Ring = {} /\ DeadSet \subseteq Task
    BY <1>1, <1>6, <2>1, <2>3, <2>5, SameList
  <2>7. RunInv'
    BY <1>1, <1>2, <1>3, <2>1, <2>2, <2>3, <2>6 DEF Running, RunInv
  <2>8. WaiterInv'
    BY <1>2, <1>3, <1>6, <2>1, <2>2, <2>6 DEF WaiterInv
  <2>9. ReaperInv'
    BY <1>1, <1>2, <1>3, <1>6, <2>1, <2>2 DEF Running, ReaperInv, TypeOK
  <2>11. DeadInv'
    BY <1>1, <1>2, <1>3, <2>1, <2>2, <2>6 DEF Running, DeadInv
  <2>10. IdleInv'
    BY <1>1, <1>2, <1>3, <1>6, <2>1, <2>2 DEF Running, IdleInv
  <2> QED BY <2>3, <2>4, <2>6, <2>7, <2>8, <2>9, <2>10, <2>11
          DEF IInv, Running, SpinNeedsBusyEnqueue
<1> QED BY <1>6, <1>7, <1>8

(* task_exit preserves the invariant. *)
LEMMA TaskExitInv ==
  ASSUME IInv, cpu = "running", current_task \in UserTask, task_exit
  PROVE  /\ IInv'
         /\ cpu' = "running" => DeadSet' = DeadSet \cup {current_task}
         /\ cpu' = "spinning" => DeadSet' = DeadSet
<1> USE TaskAssumption
<1> DEFINE c == current_task
           p == Predecessor(current_task)
           unlinked == [next EXCEPT ![p] = next[current_task]]
           st == IF task_total - 1 = 0 THEN wake_idle_task(status) ELSE status
           found == next_task(current_task, unlinked, st)
<1>1. TypeOK /\ Running
  BY DEF IInv
<1>2. /\ Ring \subseteq Live /\ Live \subseteq Task /\ Idle \in Task /\ Reaper \in Task
      /\ c \in Ring /\ c \in Task /\ Idle \in Ring /\ Reaper \in Ring /\ c # Idle /\ c # Reaper
      /\ DeadSet \subseteq Live /\ c \notin DeadSet
      /\ Cycle(Ring, next) /\ next \in Links
  BY <1>1 DEF Ring, Live, Task, Running, RingInv, QueueInv, TypeOK, Links
<1>3. p \in Ring /\ next[p] = c
  BY <1>2, PredecessorInRing
<1>4. Cycle(Ring \ {c}, unlinked) /\ p # c /\ next[c] \in Ring \ {c}
  BY <1>2, <1>3, CycleRemove
<1>5. /\ unlinked \in Links /\ unlinked[c] = next[c]
      /\ \A u \in Task : u # p => unlinked[u] = next[u]
  BY <1>2, <1>3, <1>4 DEF Links
<1>6. /\ st \in [Task -> Status \cup {"FREE"}]
      /\ st[Idle] \in {status[Idle], "TASK_SCHEDULER_IDLE"}
      /\ \A u \in Task : u # Idle => st[u] = status[u]
  BY <1>1, <1>2 DEF TypeOK, wake_idle_task, Status
<1>7. found \subseteq (Ring \ {c}) \cap Runnable(st)
  <2> DEFINE R == Ring \ {c}
  <2>1. R \in SUBSET Task /\ unlinked[c] \in R /\ \A u \in R : unlinked[u] \in R
    BY <1>4, <1>5 DEF Cycle
  <2> HIDE DEF R, unlinked, st
  <2>2. found \subseteq R \cap Runnable(st)
    BY <2>1, NextTaskInRing
  <2> QED BY <2>2 DEF R
<1>8. busy_enqueue \/ found # {}
  <2> SUFFICES ASSUME ~busy_enqueue PROVE found # {}
    OBVIOUS
  <2>1. Idle \in Ring \ {c} /\ Idle \in Runnable(st)
    BY <1>1, <1>2, <1>6 DEF Running, IdleInv, Runnable
  <2> QED BY <1>4, <1>5, <2>1, NextTaskFinds
<1>9. /\ \/ /\ found = {}
            /\ cpu' = "spinning"
            /\ next' = unlinked
            /\ status' = st
            /\ UNCHANGED <<current_task, dead_queue, quantum_tick>>
         \/ \E n \in found :
              /\ current_task' = n
              /\ status' = wake_reaper_task(Picked(st, n))
              /\ next' = push_dead_queue(unlinked, current_task)
              /\ dead_queue' = IF dead_queue = NULL THEN current_task ELSE dead_queue
              /\ quantum_tick' = 0
              /\ UNCHANGED cpu
      /\ task_total' = task_total - 1
      /\ UNCHANGED <<awaiting_stdin, busy_enqueue>>
  BY DEF task_exit
<1>10. task_total' = Cardinality((Ring \ {c}) \cap UserTask) /\ task_total' \in Nat
  <2>1. (Ring \ {c}) \cap UserTask = (Ring \cap UserTask) \ {c} /\ c \in Ring \cap UserTask
    BY <1>2
  <2>2. IsFiniteSet(Ring \cap UserTask)
    BY FS_Subset
  <2>3. /\ Cardinality((Ring \cap UserTask) \ {c}) = Cardinality(Ring \cap UserTask) - 1
        /\ IsFiniteSet((Ring \cap UserTask) \ {c})
    BY <2>1, <2>2, FS_RemoveElement
  <2>4. Cardinality((Ring \cap UserTask) \ {c}) \in Nat
    BY <2>3, FS_CardinalityType
  <2> QED BY <1>1, <1>9, <2>1, <2>3, <2>4 DEF Running, CountInv
<1> HIDE DEF p, unlinked, st, found
<1>11. CASE /\ found = {} /\ cpu' = "spinning" /\ next' = unlinked /\ status' = st
            /\ UNCHANGED <<current_task, dead_queue, quantum_tick>>
  <2>1. TypeOK'
    BY <1>1, <1>5, <1>6, <1>9, <1>10, <1>11 DEF TypeOK, Links
  <2>2. DeadSet' = DeadSet
    <3>1. \A u \in DeadSet : next'[u] = next[u]
      BY <1>2, <1>3, <1>5, <1>11 DEF Ring
    <3> QED BY <1>1, <1>2, <1>5, <1>11, <3>1, QueueFrame DEF DeadSet, TypeOK
  <2> QED BY <2>1, <2>2, <1>8, <1>9, <1>11 DEF IInv, SpinNeedsBusyEnqueue
<1>12. ASSUME NEW n \in found,
              /\ current_task' = n
              /\ status' = wake_reaper_task(Picked(st, n))
              /\ next' = push_dead_queue(unlinked, current_task)
              /\ dead_queue' = IF dead_queue = NULL THEN current_task ELSE dead_queue
              /\ quantum_tick' = 0
              /\ UNCHANGED cpu
       PROVE  IInv' /\ DeadSet' = DeadSet \cup {c}
  <2>1. n \in Ring /\ n \in Task /\ st[n] \in {"TASK_READY", "TASK_SCHEDULER_IDLE"} /\ n # c
    BY <1>2, <1>7 DEF Runnable
  <2>2. /\ status' \in [Task -> Status \cup {"FREE"}]
        /\ status'[Reaper] = "TASK_READY"
        /\ \A t \in Task : t # n /\ t # Reaper => status'[t] = st[t]
        /\ n = Idle => status'[n] = st[n]
        /\ n # Idle /\ n # Reaper => status'[n] = "TASK_RUNNING"
    BY <1>2, <1>6, <1>12, <2>1 DEF Picked, wake_reaper_task, Status
  <2>3. dead_queue # NULL => DeadTail \in DeadSet /\ next[DeadTail] = NULL
    BY <1>1 DEF Running, QueueInv, DeadTail
  <2>4. /\ next' \in Links /\ next'[c] = NULL
        /\ dead_queue # NULL => next'[DeadTail] = c
        /\ \A u \in Task : u # c /\ (dead_queue = NULL \/ u # DeadTail) => next'[u] = unlinked[u]
    BY <1>2, <1>5, <1>12, <2>3 DEF push_dead_queue, Links
  <2>5. TypeOK'
    BY <1>1, <1>2, <1>9, <1>10, <1>12, <2>1, <2>2, <2>4 DEF TypeOK, Links
  <2>6. Live' = Live
    BY <1>2, <1>6, <2>1, <2>2 DEF Live
  <2>7. DeadSet' = DeadSet \cup {c}
    <3>1. CASE dead_queue = NULL
      <4>1. DeadSet = {} /\ dead_queue' = c
        BY <3>1, <1>12 DEF DeadSet, Queued
      <4>2. Queued(c, next') = {c}
        BY <1>2, <2>4, QueueSingle
      <4> QED BY <4>1, <4>2 DEF DeadSet
    <3>2. CASE dead_queue # NULL
      <4>1. dead_queue \in Task /\ dead_queue' = dead_queue
        BY <3>2, <1>1, <1>12 DEF TypeOK
      <4>2. \A u \in DeadSet : u # DeadTail => next'[u] = next[u]
        BY <1>2, <1>3, <1>5, <2>4 DEF Ring
      <4>3. Queued(dead_queue, next') = Queued(dead_queue, next) \cup {c}
        BY <3>2, <1>2, <2>3, <2>4, <4>1, <4>2, QueuePush DEF DeadSet
      <4> QED BY <4>1, <4>3 DEF DeadSet
    <3> QED BY <3>1, <3>2
  <2>8. Ring' = Ring \ {c}
    BY <1>2, <2>6, <2>7 DEF Ring
  <2>9. RingInv'
    <3>1. \A u \in Ring \ {c} : next'[u] = unlinked[u]
      BY <1>2, <2>3, <2>4 DEF Ring
    <3>2. Cycle(Ring \ {c}, next')
      BY <1>4, <3>1, CycleFrame
    <3> QED BY <3>2, <1>2, <1>12, <2>1, <2>8 DEF RingInv
  <2>10. QueueInv'
    BY <1>1, <1>2, <2>4, <2>6, <2>7 DEF Running, QueueInv
  <2>11. CountInv'
    BY <1>10, <2>8 DEF CountInv
  <2>12. RunInv'
    BY <1>1, <1>2, <1>6, <1>12, <2>1, <2>2, <2>8 DEF Running, RunInv
  <2>13. WaiterInv'
    BY <1>1, <1>2, <1>6, <1>9, <2>1, <2>2, <2>8 DEF Running, RunInv, WaiterInv, TypeOK
  <2>15. DeadInv'
    BY <1>1, <1>2, <1>6, <2>1, <2>2, <2>7 DEF Running, RunInv, DeadInv, Ring
  <2>14. ReaperInv' /\ IdleInv'
    BY <1>1, <1>2, <1>6, <1>9, <2>1, <2>2 DEF Running, ReaperInv, IdleInv
  <2> QED BY <1>12, <2>5, <2>7, <2>9, <2>10, <2>11, <2>12, <2>13, <2>14, <2>15
          DEF IInv, Running, SpinNeedsBusyEnqueue
<1> QED BY <1>9, <1>11, <1>12

(* reaper_task_loop preserves the invariant. *)
LEMMA ReaperLoopInv ==
  ASSUME IInv, reaper_task_loop
  PROVE  IInv'
<1> USE TaskAssumption
<1> DEFINE freed == [t \in Task |-> IF t \in DeadSet THEN "FREE" ELSE status[t]]
           nx == [t \in Task |-> IF t \in DeadSet THEN NULL ELSE next[t]]
           st == sleep_reaper_task(freed)
           found == next_task(current_task, nx, st)
<1>1. TypeOK /\ Running /\ cpu = "running" /\ current_task = Reaper
  BY DEF IInv, reaper_task_loop
<1>2. /\ Ring \subseteq Live /\ Live \subseteq Task /\ Idle \in Task /\ Reaper \in Task
      /\ Idle \in Ring /\ Reaper \in Ring
      /\ DeadSet \subseteq Live /\ DeadSet \cap Ring = {}
      /\ Cycle(Ring, next)
  BY <1>1 DEF Ring, Live, Task, Running, RingInv, QueueInv
<1>3. /\ nx \in Links
      /\ \A u \in Ring : nx[u] = next[u]
  BY <1>1, <1>2 DEF TypeOK, Links
<1>4. Cycle(Ring, nx)
  BY <1>2, <1>3, CycleFrame
<1>5. /\ st \in [Task -> Status \cup {"FREE"}]
      /\ st[Reaper] = "TASK_SLEEP"
      /\ \A u \in Task : u # Reaper => st[u] = IF u \in DeadSet THEN "FREE" ELSE status[u]
  BY <1>1, <1>2 DEF TypeOK, sleep_reaper_task, Status
<1>6. found \subseteq Ring \cap Runnable(st)
  <2>1. Ring \in SUBSET Task /\ nx[current_task] \in Ring /\ \A u \in Ring : nx[u] \in Ring
    BY <1>1, <1>2, <1>4 DEF Cycle
  <2> QED BY <2>1, NextTaskInRing
<1>7. busy_enqueue \/ found # {}
  <2> SUFFICES ASSUME ~busy_enqueue PROVE found # {}
    OBVIOUS
  <2>1. Idle \in Runnable(st)
    BY <1>1, <1>2, <1>5 DEF Running, IdleInv, Runnable
  <2>2. nx[current_task] \in Ring
    BY <1>1, <1>2, <1>4 DEF Cycle
  <2> QED BY <1>2, <1>4, <2>1, <2>2, NextTaskFinds
<1>8. /\ dead_queue' = NULL
      /\ next' = nx
      /\ \/ found = {} /\ status' = st /\ cpu' = "spinning"
            /\ UNCHANGED <<current_task, quantum_tick>>
         \/ \E n \in found : switch_to(n, st)
      /\ UNCHANGED <<awaiting_stdin, task_total, busy_enqueue>>
  BY DEF reaper_task_loop, load_context
<1> HIDE DEF nx, st, found
<1>9. CASE found = {} /\ status' = st /\ cpu' = "spinning"
           /\ UNCHANGED <<current_task, quantum_tick>>
  <2>1. TypeOK'
    BY <1>1, <1>3, <1>5, <1>8, <1>9 DEF TypeOK, Links
  <2> QED BY <2>1, <1>7, <1>8, <1>9 DEF IInv, SpinNeedsBusyEnqueue
<1>10. ASSUME NEW n \in found, switch_to(n, st)
       PROVE  IInv'
  <2>1. n \in Ring /\ n \in Task /\ st[n] \in {"TASK_READY", "TASK_SCHEDULER_IDLE"}
        /\ n # Reaper
    BY <1>2, <1>5, <1>6 DEF Runnable
  <2>2. /\ status' \in [Task -> Status \cup {"FREE"}]
        /\ \A t \in Task : t # n => status'[t] = st[t]
        /\ IF n = Idle THEN status'[n] = st[n] ELSE status'[n] = "TASK_RUNNING"
    BY <1>5, <1>10, <2>1 DEF switch_to, Picked, Status
  <2>3. current_task' = n /\ quantum_tick' = 0 /\ UNCHANGED cpu
    BY <1>10 DEF switch_to
  <2>4. TypeOK'
    BY <1>1, <1>3, <1>8, <2>1, <2>2, <2>3 DEF TypeOK, Links
  <2>5. DeadSet' = {}
    BY <1>8 DEF DeadSet, Queued
  <2>6. Live' = Ring
    BY <1>2, <1>5, <2>1, <2>2 DEF Live, Ring
  <2>7. Ring' = Ring
    BY <2>5, <2>6 DEF Ring
  <2>8. RingInv' /\ QueueInv' /\ CountInv'
    BY <1>1, <1>2, <1>4, <1>8, <2>1, <2>3, <2>5, <2>7
       DEF RingInv, QueueInv, CountInv, Running
  <2>9. RunInv'
    BY <1>1, <1>2, <1>5, <2>1, <2>2, <2>3, <2>7 DEF Running, RunInv
  <2>10. WaiterInv'
    BY <1>1, <1>2, <1>5, <1>8, <2>1, <2>2, <2>7 DEF Running, WaiterInv, TypeOK
  <2>12. DeadInv'
    BY <2>5 DEF DeadInv
  <2>11. ReaperInv' /\ IdleInv'
    BY <1>1, <1>2, <1>5, <1>8, <2>1, <2>2 DEF Running, ReaperInv, IdleInv
  <2> QED BY <1>1, <2>3, <2>4, <2>8, <2>9, <2>10, <2>11, <2>12 DEF IInv, Running, SpinNeedsBusyEnqueue
<1> QED BY <1>8, <1>9, <1>10

-----------------------------------------------------------------------------
(* Every step keeps the invariant. *)
LEMMA NextInv == IInv /\ [Next]_vars => IInv'
<1> SUFFICES ASSUME IInv, [Next]_vars PROVE IInv'
  OBVIOUS
<1>1. CASE timer_interrupt_handler
  <2>1. CASE scheduler_tick
    BY <1>1, <2>1, SchedulerTickInv DEF timer_interrupt_handler
  <2>2. CASE quantum_tick + 1 < QUANTUM /\ quantum_tick' = quantum_tick + 1
             /\ UNCHANGED <<ring, awaiting_stdin, task_total, cpu, busy_enqueue>>
    <3>1. quantum_tick' \in 0 .. QUANTUM - 1
      BY <2>2, TaskAssumption DEF IInv, TypeOK
    <3>2. TypeOK'
      BY <2>2, <3>1 DEF IInv, TypeOK, ring
    <3>3. Live' = Live /\ DeadSet' = DeadSet /\ Ring' = Ring
      BY <2>2 DEF Live, DeadSet, Ring, ring
    <3>4. Running => Running'
      BY <2>2, <3>3 DEF Running, RingInv, QueueInv, RunInv, DeadInv, WaiterInv, ReaperInv,
                        IdleInv, CountInv, ring
    <3> QED BY <2>2, <3>2, <3>4 DEF IInv, SpinNeedsBusyEnqueue
  <2> QED BY <1>1, <2>1, <2>2 DEF timer_interrupt_handler
<1>2. CASE keyboard_interrupt_handler
  BY <1>2, EnqueueInv, WakeStdinInv DEF keyboard_interrupt_handler
<1>3. CASE syscall_handler
  BY <1>3, TaskExitInv, AwaitStdinInv DEF syscall_handler
<1>4. CASE exception_handler
  BY <1>4, TaskExitInv DEF exception_handler
<1>5. CASE reaper_task_loop
  BY <1>5, ReaperLoopInv
<1>6. CASE UNCHANGED vars
  <2>1. Live' = Live /\ DeadSet' = DeadSet /\ Ring' = Ring
    BY <1>6 DEF Live, DeadSet, Ring, vars
  <2>2. TypeOK'
    BY <1>6 DEF IInv, TypeOK, vars
  <2>3. Running => Running'
    BY <1>6, <2>1 DEF Running, RingInv, QueueInv, RunInv, DeadInv, WaiterInv, ReaperInv,
                      IdleInv, CountInv, vars
  <2> QED BY <1>6, <2>2, <2>3 DEF IInv, SpinNeedsBusyEnqueue, vars
<1> QED BY <1>1, <1>2, <1>3, <1>4, <1>5, <1>6 DEF Next

(* The inductive invariant holds in every reachable state. *)
LEMMA InvAlways == Spec => []IInv
  BY InitInv, NextInv, PTL DEF Spec

(* The kernel's scheduler state keeps its types; in particular task_total      *)
(* never goes below zero (scheduler.c:132) and quantum_tick stays below the    *)
(* quantum (timer.c:24). *)
THEOREM TypeCorrect == Spec => []TypeOK
<1>1. IInv => TypeOK
  BY DEF IInv
<1> QED BY <1>1, InvAlways, PTL

(* The run ring stays one cycle through idle and the reaper, whatever tasks   *)
(* are enqueued, sleep, exit and are freed (scheduler.c:138-142, :210-214).   *)
THEOREM RingStaysCycle == Spec => []RingIsCycle
<1>1. IInv => RingIsCycle
  BY InvImplies
<1> QED BY <1>1, InvAlways, PTL

(* No task is lost and none is both schedulable and queued to be freed        *)
(* (scheduler.c:101-127, :246). *)
THEOREM TasksAccounted == Spec => []LiveAccounted
<1>1. IInv => LiveAccounted
  BY InvImplies
<1> QED BY <1>1, InvAlways, PTL

(* The keyboard interrupt never writes through a stale awaiting_stdin         *)
(* (scheduler.c:92-99). *)
THEOREM WaiterSleeps == Spec => []WaiterIsAsleep
<1>1. IInv => WaiterIsAsleep
  BY InvImplies
<1> QED BY <1>1, InvAlways, PTL

(* At most the current task is marked running (scheduler.c:73, :281-286). *)
THEOREM CurrentRunsAlone == Spec => []OnlyCurrentRuns
<1>1. IInv => OnlyCurrentRuns
  BY InvImplies
<1> QED BY <1>1, InvAlways, PTL

(* task_total counts the ring-3 tasks on the ring (scheduler.c:132, :218). *)
THEOREM TotalExact == Spec => []TotalIsExact
<1>1. IInv => TotalIsExact
  BY InvImplies
<1> QED BY <1>1, InvAlways, PTL

(* The reaper is awake while a dead task waits for it (scheduler.c:149, :249). *)
THEOREM ReaperAwake == Spec => []ReaperHasDuty
<1>1. IInv => ReaperHasDuty
  BY InvImplies
<1> QED BY <1>1, InvAlways, PTL

(* As long as every task is started from idle, next_task always returns       *)
(* (scheduler.c:46-55, :217). *)
THEOREM SpinOnlyAfterBusyEnqueue == Spec => []SpinNeedsBusyEnqueue
<1>1. IInv => SpinNeedsBusyEnqueue
  BY DEF IInv
<1> QED BY <1>1, InvAlways, PTL

(* A reader displaced from awaiting_stdin sleeps for ever (scheduler.c:80-99). *)
THEOREM StrandedStays == Spec => StrandedForEver
<1>1. IInv /\ [Next]_vars => [\A t \in UserTask : Stranded(t) => Stranded(t)']_vars
  <2> SUFFICES ASSUME IInv, Next, NEW t \in UserTask, Stranded(t)
               PROVE  Stranded(t)'
    BY DEF vars
  <2> USE TaskAssumption
  <2>1. TypeOK /\ cpu = "running" /\ Running
    BY DEF IInv, Next, timer_interrupt_handler, keyboard_interrupt_handler,
           syscall_handler, exception_handler, reaper_task_loop
  <2>2. /\ t \in Task /\ t # Idle /\ t # Reaper /\ t # current_task
        /\ status[t] = "TASK_SLEEP" /\ awaiting_stdin # t
    BY <2>1 DEF Stranded, Running, RunInv, Task
  <2>3. t \notin DeadSet /\ status \in [Task -> Status \cup {"FREE"}]
    BY <2>1, <2>2 DEF Running, DeadInv, TypeOK
  <2>4. ASSUME NEW n, NEW st, switch_to(n, st), n \in Runnable(st),
               st \in [Task -> Status \cup {"FREE"}], st[t] = "TASK_SLEEP"
        PROVE  status'[t] = "TASK_SLEEP"
    BY <2>2, <2>4 DEF switch_to, Picked, Runnable
  <2>5. ASSUME NEW nx, NEW st, load_context(nx, st),
               st \in [Task -> Status \cup {"FREE"}], st[t] = "TASK_SLEEP"
        PROVE  status'[t] = "TASK_SLEEP"
    BY <2>4, <2>5 DEF load_context, next_task
  <2>6. CASE timer_interrupt_handler
    <3>1. CASE UNCHANGED <<ring, awaiting_stdin, task_total, cpu, busy_enqueue>>
      BY <2>2, <3>1 DEF Stranded, ring
    <3>2. CASE scheduler_tick
      <4> DEFINE st == IF task_total = 0 THEN wake_idle_task(status) ELSE status
                 requeued == IF st[current_task] # "TASK_SCHEDULER_IDLE"
                             THEN [st EXCEPT ![current_task] = "TASK_READY"] ELSE st
      <4>1. st[t] = "TASK_SLEEP" /\ requeued[t] = "TASK_SLEEP"
        BY <2>2, <2>3 DEF wake_idle_task
      <4>2. \A n : n \in Runnable(st) => n # t
        BY <4>1 DEF Runnable
      <4>3. \A n : n # t => Picked(requeued, n)[t] = "TASK_SLEEP"
        BY <2>2, <2>3, <4>1 DEF Picked, wake_idle_task
      <4> QED BY <2>2, <3>2, <4>1, <4>2, <4>3
              DEF scheduler_tick, switch_to, next_task, Stranded
    <3> QED BY <2>6, <3>1, <3>2 DEF timer_interrupt_handler
  <2>7. CASE enqueue_task
    BY <2>2, <2>3, <2>7 DEF enqueue_task, sleep_idle_task, Stranded
  <2>8. CASE wake_stdin_task
    BY <2>2, <2>3, <2>8 DEF wake_stdin_task, Stranded
  <2>9. CASE await_stdin
    <3> DEFINE asleep == [status EXCEPT ![current_task] = "TASK_SLEEP"]
               st == IF task_total = 1 THEN wake_idle_task(asleep) ELSE asleep
    <3>1. st \in [Task -> Status \cup {"FREE"}] /\ st[t] = "TASK_SLEEP"
      BY <2>1, <2>2, <2>3 DEF wake_idle_task, Status, TypeOK
    <3>2. load_context(next, st) /\ awaiting_stdin' = current_task
      BY <2>9 DEF await_stdin
    <3> HIDE DEF st
    <3> QED BY <2>2, <2>5, <3>1, <3>2 DEF Stranded
  <2>10. CASE task_exit
    <3> DEFINE unlinked == [next EXCEPT ![Predecessor(current_task)] = next[current_task]]
               st == IF task_total - 1 = 0 THEN wake_idle_task(status) ELSE status
    <3>1. st \in [Task -> Status \cup {"FREE"}] /\ st[t] = "TASK_SLEEP"
      BY <2>2, <2>3 DEF wake_idle_task, Status
    <3>2. \/ status' = st
          \/ \E n \in Runnable(st) : status' = wake_reaper_task(Picked(st, n))
      BY <2>10 DEF task_exit, next_task
    <3>3. awaiting_stdin' = awaiting_stdin
      BY <2>10 DEF task_exit
    <3> HIDE DEF st
    <3> QED BY <2>2, <3>1, <3>2, <3>3 DEF Stranded, Picked, wake_reaper_task, Runnable
  <2>11. CASE reaper_task_loop
    <3> DEFINE freed == [u \in Task |-> IF u \in DeadSet THEN "FREE" ELSE status[u]]
               nx == [u \in Task |-> IF u \in DeadSet THEN NULL ELSE next[u]]
               st == sleep_reaper_task(freed)
    <3>1. st \in [Task -> Status \cup {"FREE"}] /\ st[t] = "TASK_SLEEP"
      BY <2>2, <2>3 DEF sleep_reaper_task, Status
    <3>2. load_context(nx, st) /\ awaiting_stdin' = awaiting_stdin
      BY <2>11 DEF reaper_task_loop
    <3> HIDE DEF st, nx
    <3> QED BY <2>2, <2>5, <3>1, <3>2 DEF Stranded
  <2> QED BY <2>6, <2>7, <2>8, <2>9, <2>10, <2>11
          DEF Next, keyboard_interrupt_handler, syscall_handler, exception_handler
<1> QED BY <1>1, InvAlways, PTL DEF Spec, StrandedForEver

-----------------------------------------------------------------------------
(* If next_task does not return, no task of the ring is runnable. *)
LEMMA NoneRunnable ==
  ASSUME NEW c, NEW nx, NEW st, NEW R, Cycle(R, nx), nx[c] \in R,
         next_task(c, nx, st) = {}
  PROVE  \A r \in R : st[r] # "TASK_READY"
<1>1. \A r \in R : r \notin Runnable(st)
  BY NextTaskFinds
<1> QED BY <1>1 DEF Runnable, Cycle

(***************************************************************************)
(* The life of a task under the refinement mapping, read off the           *)
(* scheduler's own state.                                                  *)
(***************************************************************************)
life == [t \in UserTask |-> LifeOf(t)]

(* Only idle ever has the idle status. *)
UserInv == \A t \in UserTask : status[t] # "TASK_SCHEDULER_IDLE"

(* load_context gives no ring-3 task the idle status. *)
LEMMA LoadKeepsUser ==
  ASSUME NEW nx, NEW st, DOMAIN st = Task, load_context(nx, st),
         \A t \in UserTask : st[t] # "TASK_SCHEDULER_IDLE"
  PROVE  UserInv'
  BY DEF load_context, switch_to, Picked, UserInv, Task

(* No step gives a ring-3 task the idle status. *)
LEMMA UserInvStep == IInv /\ UserInv /\ [Next]_vars => UserInv'
<1> SUFFICES ASSUME IInv, UserInv, [Next]_vars PROVE UserInv'
  OBVIOUS
<1> USE TaskAssumption
<1>1. status \in [Task -> Status \cup {"FREE"}] /\ current_task \in Task
  BY DEF IInv, TypeOK
<1>2. CASE scheduler_tick
  <2> DEFINE st == IF task_total = 0 THEN wake_idle_task(status) ELSE status
             requeued == IF st[current_task] # "TASK_SCHEDULER_IDLE"
                         THEN [st EXCEPT ![current_task] = "TASK_READY"] ELSE st
  <2>1. /\ \A t \in UserTask : st[t] # "TASK_SCHEDULER_IDLE" /\ requeued[t] # "TASK_SCHEDULER_IDLE"
        /\ DOMAIN requeued = Task
    BY <1>1 DEF UserInv, wake_idle_task, Task
  <2>2. status' = st \/ \E n : status' = Picked(requeued, n)
    BY <1>2 DEF scheduler_tick, switch_to
  <2> HIDE DEF st, requeued
  <2> QED BY <2>1, <2>2 DEF UserInv, Picked, Task
<1>3. CASE enqueue_task
  BY <1>1, <1>3 DEF enqueue_task, sleep_idle_task, UserInv, Task
<1>4. CASE wake_stdin_task
  BY <1>1, <1>4 DEF wake_stdin_task, UserInv, Task
<1>5. CASE await_stdin
  <2> DEFINE asleep == [status EXCEPT ![current_task] = "TASK_SLEEP"]
             st == IF task_total = 1 THEN wake_idle_task(asleep) ELSE asleep
  <2>1. DOMAIN st = Task /\ \A t \in UserTask : st[t] # "TASK_SCHEDULER_IDLE"
    BY <1>1 DEF UserInv, wake_idle_task, Task
  <2>2. load_context(next, st)
    BY <1>5 DEF await_stdin
  <2> HIDE DEF st
  <2> QED BY <2>1, <2>2, LoadKeepsUser
<1>6. CASE task_exit
  <2> DEFINE st == IF task_total - 1 = 0 THEN wake_idle_task(status) ELSE status
  <2>1. DOMAIN st = Task /\ \A t \in UserTask : st[t] # "TASK_SCHEDULER_IDLE"
    BY <1>1 DEF UserInv, wake_idle_task, Task
  <2>2. status' = st \/ \E n : status' = wake_reaper_task(Picked(st, n))
    BY <1>6 DEF task_exit
  <2> HIDE DEF st
  <2> QED BY <2>1, <2>2 DEF UserInv, Picked, wake_reaper_task, Task
<1>7. CASE reaper_task_loop
  <2> DEFINE freed == [t \in Task |-> IF t \in DeadSet THEN "FREE" ELSE status[t]]
             nx == [t \in Task |-> IF t \in DeadSet THEN NULL ELSE next[t]]
             st == sleep_reaper_task(freed)
  <2>1. DOMAIN st = Task /\ \A t \in UserTask : st[t] # "TASK_SCHEDULER_IDLE"
    BY <1>1 DEF UserInv, sleep_reaper_task, Task
  <2>2. load_context(nx, st)
    BY <1>7 DEF reaper_task_loop
  <2> HIDE DEF st, nx
  <2> QED BY <2>1, <2>2, LoadKeepsUser
<1>8. CASE UNCHANGED status
  BY <1>8 DEF UserInv
<1> QED BY <1>2, <1>3, <1>4, <1>5, <1>6, <1>7, <1>8
        DEF Next, timer_interrupt_handler, keyboard_interrupt_handler, syscall_handler,
            exception_handler, ring, vars

(* In a state that satisfies the invariant the running task is the current one, *)
(* dead tasks are the queued ones, and the one waiting task is awaiting_stdin. *)
LEMMA LifeStages ==
  ASSUME IInv, UserInv, cpu = "running", NEW t \in UserTask
  PROVE  /\ life[t] = "running" <=> t = current_task
         /\ life[t] = "dead" <=> t \in DeadSet
         /\ life[t] = "none" <=> status[t] = "FREE"
         /\ life[t] = "ready" <=> status[t] = "TASK_READY"
         /\ life[t] = "waiting" <=> awaiting_stdin = t
         /\ life[t] = "lost" <=> status[t] = "TASK_SLEEP" /\ awaiting_stdin # t
         /\ life[t] \in Life!Stage
<1> USE TaskAssumption
<1>1. /\ TypeOK /\ t \in Task /\ status[t] \in Status \cup {"FREE"}
      /\ RingInv /\ QueueInv /\ RunInv /\ DeadInv /\ WaiterInv
  BY DEF IInv, TypeOK, Task, Running
<1>2. t \in Ring \/ t \in DeadSet \/ status[t] = "FREE"
  BY <1>1 DEF Ring, Live
<1>3. t \in DeadSet => status[t] = "TASK_RUNNING" /\ t # current_task /\ awaiting_stdin # t
  BY <1>1 DEF DeadInv, RingInv, Ring, WaiterInv
<1>4. t = current_task => status[t] = "TASK_RUNNING"
  BY <1>1 DEF RunInv
<1>5. awaiting_stdin = t => status[t] = "TASK_SLEEP"
  BY <1>1 DEF WaiterInv
<1>6. status[t] = "TASK_RUNNING" /\ t \notin DeadSet => t = current_task
  BY <1>1, <1>2 DEF RunInv
<1>7. status[t] # "TASK_SCHEDULER_IDLE"
  BY DEF UserInv
<1> QED BY <1>1, <1>3, <1>4, <1>5, <1>6, <1>7 DEF life, LifeOf, Status, Life!Stage

-----------------------------------------------------------------------------
(* How the next state's stage of a task is read off its status. *)
LEMMA LifeAfter ==
  ASSUME NEW t \in UserTask
  PROVE  /\ status'[t] = "FREE" /\ t \notin DeadSet' => life'[t] = "none"
         /\ status'[t] = "TASK_RUNNING" /\ t \in DeadSet' => life'[t] = "dead"
         /\ status'[t] = "TASK_READY" /\ t \notin DeadSet' => life'[t] = "ready"
         /\ status'[t] = "TASK_RUNNING" /\ t \notin DeadSet' => life'[t] = "running"
         /\ status'[t] = "TASK_SLEEP" /\ t \notin DeadSet' =>
              life'[t] = IF awaiting_stdin' = t THEN "waiting" ELSE "lost"
         /\ /\ status'[t] = status[t]
            /\ t \in DeadSet' <=> t \in DeadSet
            /\ awaiting_stdin' = t <=> awaiting_stdin = t
            => life'[t] = life[t]
<1>1. life'[t] = LifeOf(t)' /\ life[t] = LifeOf(t)
  BY DEF life
<1>2. /\ status'[t] = status[t]
      /\ t \in DeadSet' <=> t \in DeadSet
      /\ awaiting_stdin' = t <=> awaiting_stdin = t
      => LifeOf(t)' = LifeOf(t)
  BY SMT DEF LifeOf
<1> HIDE DEF life
<1>3. status'[t] = "FREE" /\ t \notin DeadSet' => LifeOf(t)' = "none"
  BY DEF LifeOf
<1>4. status'[t] = "TASK_RUNNING" /\ t \in DeadSet' => LifeOf(t)' = "dead"
  BY DEF LifeOf
<1>5. status'[t] = "TASK_READY" /\ t \notin DeadSet' => LifeOf(t)' = "ready"
  BY DEF LifeOf
<1>6. status'[t] = "TASK_RUNNING" /\ t \notin DeadSet' => LifeOf(t)' = "running"
  BY DEF LifeOf
<1>7. status'[t] = "TASK_SLEEP" /\ t \notin DeadSet' =>
        LifeOf(t)' = IF awaiting_stdin' = t THEN "waiting" ELSE "lost"
  BY DEF LifeOf
<1> QED BY <1>1, <1>2, <1>3, <1>4, <1>5, <1>6, <1>7

(* enqueue_task is TaskLife's Create. *)
LEMMA EnqueueIsCreate ==
  ASSUME IInv, UserInv, cpu = "running", enqueue_task
  PROVE  Life!Create
<1> USE TaskAssumption
<1>1. status \in [Task -> Status \cup {"FREE"}] /\ DeadSet' = DeadSet /\ QueueInv
  BY EnqueueInv DEF IInv, TypeOK, Running
<1>2. PICK t \in UserTask :
        /\ status[t] = "FREE"
        /\ status' = sleep_idle_task([status EXCEPT ![t] = "TASK_READY"])
        /\ UNCHANGED <<awaiting_stdin, cpu>>
  BY DEF enqueue_task
<1>3. /\ status'[t] = "TASK_READY" /\ t \notin DeadSet
      /\ \A u \in UserTask : u # t => status'[u] = status[u]
  BY <1>1, <1>2 DEF sleep_idle_task, Task, QueueInv, Live
<1>4. life[t] = "none"
  BY <1>2, LifeStages
<1>5. life' = [life EXCEPT ![t] = "ready"]
  <2>1. life'[t] = "ready"
    BY <1>1, <1>3, LifeAfter
  <2>2. \A u \in UserTask : u # t => life'[u] = life[u]
    BY <1>1, <1>2, <1>3, LifeAfter
  <2>3. life = [u \in UserTask |-> life[u]] /\ life' = [u \in UserTask |-> life'[u]]
    BY DEF life
  <2> HIDE DEF life
  <2> QED BY <2>1, <2>2, <2>3
<1> QED BY <1>2, <1>4, <1>5 DEF Life!Create, life

(* wake_stdin_task is TaskLife's LineTyped. *)
LEMMA WakeIsLineTyped ==
  ASSUME IInv, UserInv, cpu = "running", wake_stdin_task
  PROVE  Life!LineTyped
<1> USE TaskAssumption
<1> DEFINE w == awaiting_stdin
<1>1. /\ status \in [Task -> Status \cup {"FREE"}] /\ DeadSet' = DeadSet
      /\ w \in UserTask /\ w \notin DeadSet
  BY DEF IInv, TypeOK, Running, WaiterInv, wake_stdin_task, DeadSet, Ring
<1>2. /\ status'[w] = "TASK_READY" /\ awaiting_stdin' = NULL
      /\ \A u \in UserTask : u # w => status'[u] = status[u]
      /\ UNCHANGED cpu
  BY <1>1 DEF wake_stdin_task, Task
<1>3. life[w] = "waiting"
  BY <1>1, LifeStages
<1>4. life' = [life EXCEPT ![w] = "ready"]
  <2>1. life'[w] = "ready"
    BY <1>1, <1>2, LifeAfter
  <2>2. \A u \in UserTask : u # w => life'[u] = life[u]
    BY <1>1, <1>2, LifeAfter DEF Task
  <2>3. life = [u \in UserTask |-> life[u]] /\ life' = [u \in UserTask |-> life'[u]]
    BY DEF life
  <2> HIDE DEF life
  <2> QED BY <2>1, <2>2, <2>3
<1> QED BY <1>1, <1>2, <1>3, <1>4 DEF Life!LineTyped, life

(* The CPU going from the current task to n, in TaskLife's words. *)
LEMMA HandOver ==
  ASSUME NEW n \in Task, NEW after, UNCHANGED cpu,
         n \in UserTask => life[n] = "ready" /\ life'[n] = "running",
         \A t \in UserTask : t # n => life'[t] = after[t]
  PROVE  \E m \in UserTask \cup {NULL} : Life!Runs(m, after)
<1> USE TaskAssumption
<1>1. life' = [u \in UserTask |-> life'[u]]
  BY DEF life
<1>2. CASE n \in UserTask
  <2>1. life' = [t \in UserTask |-> IF t = n THEN "running" ELSE after[t]]
    BY <1>1, <1>2
  <2>2. Life!Runs(n, after)
    BY <1>2, <2>1 DEF Life!Runs, life
  <2> QED BY <1>2, <2>2
<1>3. CASE n \notin UserTask
  <2>1. life' = [t \in UserTask |-> IF t = NULL THEN "running" ELSE after[t]]
    BY <1>1, <1>3 DEF Task
  <2>2. Life!Runs(NULL, after)
    BY <2>1 DEF Life!Runs, life, Task
  <2> QED BY <2>2
<1> QED BY <1>2, <1>3

(* What TaskLife's operators are under the mapping. *)
LEMMA LeftAndReaped ==
  /\ \A fate : Life!Left(fate) =
       [t \in UserTask |-> IF life[t] = "running" THEN fate
                           ELSE IF fate = "waiting" /\ life[t] = "waiting" THEN "lost"
                           ELSE life[t]]
  /\ Life!Reaped = [t \in UserTask |-> IF life[t] = "dead" THEN "none" ELSE life[t]]
  BY DEF Life!Left, Life!Reaped, life

(* scheduler_tick hands the CPU over, keeps it, or loses it when no task is ready. *)
LEMMA TickIsPreempt ==
  ASSUME IInv, UserInv, cpu = "running", scheduler_tick
  PROVE  Life!Preempt \/ Life!Hang \/ UNCHANGED Life!vars
<1> USE TaskAssumption
<1> DEFINE c == current_task
           st == IF task_total = 0 THEN wake_idle_task(status) ELSE status
           requeued == IF st[c] # "TASK_SCHEDULER_IDLE"
                       THEN [st EXCEPT ![c] = "TASK_READY"] ELSE st
           found == next_task(c, next, st)
<1>1. /\ status \in [Task -> Status \cup {"FREE"}] /\ DeadSet' = DeadSet
      /\ UNCHANGED awaiting_stdin
      /\ c \in Ring /\ Ring \subseteq Task /\ Ring \cap DeadSet = {}
      /\ Cycle(Ring, next) /\ next[c] \in Ring
  BY DEF IInv, TypeOK, Running, RingInv, scheduler_tick, DeadSet, Ring, Live, Cycle
<1>2. /\ \A t \in UserTask : st[t] = status[t]
      /\ \A t \in UserTask : requeued[t] = IF t = c THEN "TASK_READY" ELSE status[t]
      /\ DOMAIN requeued = Task
      /\ \A t \in UserTask : status[t] # "TASK_SCHEDULER_IDLE"
  BY <1>1 DEF wake_idle_task, Task, UserInv
<1>3. found \subseteq Ring \cap Runnable(st)
  BY <1>1, NextTaskInRing DEF Cycle
<1>4. \/ found = {} /\ status' = st /\ cpu' = "spinning"
      \/ status' = st /\ UNCHANGED cpu
      \/ \E n \in found \ {c} : switch_to(n, requeued)
  BY DEF scheduler_tick
<1> HIDE DEF st, requeued, found, c
<1>5. CASE found = {} /\ status' = st /\ cpu' = "spinning"
  <2>1. \A t \in UserTask : life[t] # "ready"
    <3> SUFFICES ASSUME NEW t \in UserTask, life[t] = "ready" PROVE FALSE
      OBVIOUS
    <3>1. status[t] = "TASK_READY" /\ t \notin DeadSet
      BY LifeStages
    <3>2. t \in Ring
      BY <3>1 DEF Ring, Live, Task
    <3> QED BY <1>1, <1>2, <1>5, <3>1, <3>2, NoneRunnable DEF found
  <2>2. life' = life
    BY <1>1, <1>2, <1>5, LifeAfter DEF life
  <2> QED BY <1>5, <2>1, <2>2 DEF Life!Hang, life
<1>6. CASE status' = st /\ UNCHANGED cpu
  <2>1. life' = life
    BY <1>1, <1>2, <1>6, LifeAfter DEF life
  <2> QED BY <1>6, <2>1 DEF Life!vars, life
<1>7. ASSUME NEW n \in found \ {c}, switch_to(n, requeued)
      PROVE  Life!Preempt
  <2>1. n \in Task /\ n \in Ring /\ n \in Runnable(st) /\ UNCHANGED cpu
        /\ n \notin DeadSet /\ c \notin DeadSet
    BY <1>1, <1>3, <1>7 DEF switch_to
  <2>2. /\ n \in UserTask => status'[n] = "TASK_RUNNING" /\ status[n] = "TASK_READY"
        /\ \A t \in UserTask : t # n =>
             status'[t] = IF t = c THEN "TASK_READY" ELSE status[t]
    BY <1>2, <1>7, <2>1 DEF switch_to, Picked, Runnable
  <2>3. n \in UserTask => life[n] = "ready" /\ life'[n] = "running"
    BY <1>1, <2>1, <2>2, LifeStages, LifeAfter
  <2>4. ASSUME NEW t \in UserTask, t # n
        PROVE  life'[t] = Life!Left("ready")[t]
    <3>1. CASE t = c
      BY <1>1, <2>1, <2>2, <2>4, <3>1, LifeStages, LifeAfter, LeftAndReaped DEF c
    <3>2. CASE t # c
      BY <1>1, <2>2, <2>4, <3>2, LifeStages, LifeAfter, LeftAndReaped DEF c
    <3> QED BY <3>1, <3>2
  <2>5. \E m \in UserTask \cup {NULL} : Life!Runs(m, Life!Left("ready"))
    BY <2>1, <2>3, <2>4, HandOver
  <2> QED BY <2>5 DEF Life!Preempt
<1> QED BY <1>4, <1>5, <1>6, <1>7

(* await_stdin is TaskLife's Wait, or loses the CPU when no task is ready. *)
LEMMA AwaitIsWait ==
  ASSUME IInv, UserInv, cpu = "running", current_task \in UserTask, await_stdin
  PROVE  Life!Wait \/ Life!Hang
<1> USE TaskAssumption
<1> DEFINE c == current_task
           asleep == [status EXCEPT ![c] = "TASK_SLEEP"]
           st == IF task_total = 1 THEN wake_idle_task(asleep) ELSE asleep
           found == next_task(c, next, st)
<1>1. /\ status \in [Task -> Status \cup {"FREE"}] /\ DeadSet' = DeadSet
      /\ awaiting_stdin' = c
      /\ c \in Ring /\ Ring \subseteq Task /\ Ring \cap DeadSet = {}
      /\ Cycle(Ring, next) /\ next[c] \in Ring
  BY DEF IInv, TypeOK, Running, RingInv, await_stdin, DeadSet, Ring, Live, Cycle
<1>2. /\ \A t \in UserTask : st[t] = IF t = c THEN "TASK_SLEEP" ELSE status[t]
      /\ DOMAIN st = Task
      /\ \A t \in UserTask : status[t] # "TASK_SCHEDULER_IDLE"
  BY <1>1 DEF wake_idle_task, Task, UserInv
<1>3. found \subseteq Ring \cap Runnable(st)
  BY <1>1, NextTaskInRing DEF Cycle
<1>4. \/ found = {} /\ status' = st /\ cpu' = "spinning"
      \/ \E n \in found : switch_to(n, st)
  BY DEF await_stdin, load_context
<1>5. life[c] = "running" /\ c \in UserTask
  BY LifeStages
<1>6. ASSUME NEW t \in UserTask, status'[t] = st[t]
      PROVE  life'[t] = Life!Left("waiting")[t]
  <2>1. CASE t = c
    BY <1>1, <1>2, <1>5, <1>6, <2>1, LifeAfter, LeftAndReaped
  <2>2. CASE t # c /\ awaiting_stdin = t
    <3>1. life[t] = "waiting" /\ t \notin DeadSet /\ status[t] = "TASK_SLEEP"
      BY <2>2, LifeStages DEF IInv, Running, WaiterInv, Ring, Task
    <3> QED BY <1>1, <1>2, <1>6, <2>2, <3>1, LifeAfter, LeftAndReaped
  <2>3. CASE t # c /\ awaiting_stdin # t
    <3>1. life[t] # "waiting" /\ life[t] # "running"
      BY <2>3, LifeStages
    <3> QED BY <1>1, <1>2, <1>6, <2>3, <3>1, LifeAfter, LeftAndReaped
  <2> QED BY <2>1, <2>2, <2>3
<1> HIDE DEF st, found, c
<1>7. CASE found = {} /\ status' = st /\ cpu' = "spinning"
  <2>1. \A t \in UserTask : life[t] # "ready"
    <3> SUFFICES ASSUME NEW t \in UserTask, life[t] = "ready" PROVE FALSE
      OBVIOUS
    <3>1. status[t] = "TASK_READY" /\ t \notin DeadSet /\ t # c
      BY <1>5, LifeStages DEF c
    <3>2. t \in Ring
      BY <3>1 DEF Ring, Live, Task
    <3> QED BY <1>1, <1>2, <1>7, <3>1, <3>2, NoneRunnable DEF found
  <2>2. life' = Life!Left("waiting")
    BY <1>6, <1>7, LeftAndReaped DEF life
  <2> QED BY <1>7, <2>1, <2>2 DEF Life!Hang, life
<1>8. ASSUME NEW n \in found, switch_to(n, st)
      PROVE  Life!Wait
  <2>1. n \in Task /\ n \in Ring /\ n \in Runnable(st) /\ UNCHANGED cpu
        /\ n \notin DeadSet
    BY <1>1, <1>3, <1>8 DEF switch_to
  <2>2. /\ n \in UserTask => status'[n] = "TASK_RUNNING" /\ status[n] = "TASK_READY"
        /\ \A t \in UserTask : t # n => status'[t] = st[t]
    BY <1>2, <1>8, <2>1 DEF switch_to, Picked, Runnable
  <2>3. n \in UserTask => life[n] = "ready" /\ life'[n] = "running"
    BY <1>1, <2>1, <2>2, LifeStages, LifeAfter
  <2>4. \E m \in UserTask \cup {NULL} : Life!Runs(m, Life!Left("waiting"))
    BY <1>6, <2>1, <2>2, <2>3, HandOver
  <2> QED BY <1>5, <2>4 DEF Life!Wait, life
<1> QED BY <1>4, <1>7, <1>8

(* task_exit is TaskLife's Exit, or loses the CPU when no task is ready. *)
LEMMA ExitIsExit ==
  ASSUME IInv, UserInv, cpu = "running", current_task \in UserTask, task_exit
  PROVE  Life!Exit \/ Life!Hang
<1> USE TaskAssumption
<1> DEFINE c == current_task
           p == Predecessor(c)
           unlinked == [next EXCEPT ![p] = next[c]]
           st == IF task_total - 1 = 0 THEN wake_idle_task(status) ELSE status
           found == next_task(c, unlinked, st)
<1>1. /\ status \in [Task -> Status \cup {"FREE"}] /\ next \in Links
      /\ UNCHANGED awaiting_stdin
      /\ c \in Ring /\ Idle \in Ring /\ c # Idle /\ c \in Task
      /\ Ring \subseteq Task /\ Ring \cap DeadSet = {}
      /\ Cycle(Ring, next)
  BY DEF IInv, TypeOK, Running, RingInv, task_exit, Ring, Live, Cycle, Links, Task
<1>2. p \in Ring /\ next[p] = c
  BY <1>1, PredecessorInRing
<1>3. Cycle(Ring \ {c}, unlinked) /\ unlinked[c] = next[c] /\ next[c] \in Ring \ {c}
  <2>1. Cycle(Ring \ {c}, unlinked) /\ p # c /\ next[c] \in Ring \ {c}
    BY <1>1, <1>2, CycleRemove
  <2> QED BY <1>1, <2>1 DEF Links
<1>4. /\ \A t \in UserTask : st[t] = status[t]
      /\ DOMAIN st = Task
      /\ \A t \in UserTask : status[t] # "TASK_SCHEDULER_IDLE"
  BY <1>1 DEF wake_idle_task, Task, UserInv
<1>5. \/ found = {} /\ status' = st /\ cpu' = "spinning"
      \/ \E n \in found : /\ status' = wake_reaper_task(Picked(st, n))
                          /\ UNCHANGED cpu
  BY DEF task_exit
<1>6. life[c] = "running" /\ c \in UserTask /\ c \notin DeadSet
      /\ status[c] = "TASK_RUNNING"
  BY <1>1, LifeStages DEF IInv, Running, RunInv
<1>7. /\ cpu' = "running" => DeadSet' = DeadSet \cup {c}
      /\ cpu' = "spinning" => DeadSet' = DeadSet
  BY TaskExitInv
<1> HIDE DEF p, unlinked, st, found, c
<1>8. CASE found = {} /\ status' = st /\ cpu' = "spinning"
  <2>1. \A t \in UserTask : life[t] # "ready"
    <3> SUFFICES ASSUME NEW t \in UserTask, life[t] = "ready" PROVE FALSE
      OBVIOUS
    <3>1. status[t] = "TASK_READY" /\ t \notin DeadSet /\ t # c
      BY <1>6, LifeStages DEF c
    <3>2. t \in Ring \ {c}
      BY <3>1 DEF Ring, Live, Task
    <3> QED BY <1>3, <1>4, <1>8, <3>1, <3>2, NoneRunnable DEF found
  <2>2. life' = life
    BY <1>1, <1>4, <1>7, <1>8, LifeAfter DEF life
  <2> QED BY <1>8, <2>1, <2>2 DEF Life!Hang, life
<1>9. ASSUME NEW n \in found, status' = wake_reaper_task(Picked(st, n)), UNCHANGED cpu
      PROVE  Life!Exit
  <2>1. n \in Task /\ n \in Ring \ {c} /\ n \in Runnable(st)
    <3>1. found \subseteq (Ring \ {c}) \cap Runnable(st)
      BY <1>1, <1>3, NextTaskInRing DEF Cycle, found
    <3> QED BY <1>1, <3>1
  <2>2. /\ n \in UserTask => status'[n] = "TASK_RUNNING" /\ status[n] = "TASK_READY"
        /\ \A t \in UserTask : t # n => status'[t] = status[t]
    BY <1>4, <1>9, <2>1 DEF wake_reaper_task, Picked, Runnable, Task
  <2>3. DeadSet' = DeadSet \cup {c}
    BY <1>7, <1>9
  <2>4. n \in UserTask => life[n] = "ready" /\ life'[n] = "running"
    BY <1>1, <2>1, <2>2, <2>3, LifeStages, LifeAfter
  <2>5. ASSUME NEW t \in UserTask, t # n
        PROVE  life'[t] = Life!Left("dead")[t]
    <3>1. CASE t = c
      BY <1>6, <2>2, <2>3, <2>5, <3>1, LifeAfter, LeftAndReaped
    <3>2. CASE t # c
      <4>1. life[t] # "running"
        BY <3>2, LifeStages DEF c
      <4> QED BY <1>1, <2>2, <2>3, <2>5, <3>2, <4>1, LifeAfter, LeftAndReaped
    <3> QED BY <3>1, <3>2
  <2>6. \E m \in UserTask \cup {NULL} : Life!Runs(m, Life!Left("dead"))
    BY <1>9, <2>1, <2>4, <2>5, HandOver
  <2> QED BY <1>6, <2>6 DEF Life!Exit, life
<1> QED BY <1>5, <1>8, <1>9

(* A round of the reaper is TaskLife's Reap, or loses the CPU when no task is ready. *)
LEMMA ReaperIsReap ==
  ASSUME IInv, UserInv, reaper_task_loop
  PROVE  Life!Reap \/ Life!Hang
<1> USE TaskAssumption
<1> DEFINE freed == [t \in Task |-> IF t \in DeadSet THEN "FREE" ELSE status[t]]
           nx == [t \in Task |-> IF t \in DeadSet THEN NULL ELSE next[t]]
           st == sleep_reaper_task(freed)
           found == next_task(current_task, nx, st)
<1>1. /\ status \in [Task -> Status \cup {"FREE"}] /\ cpu = "running"
      /\ UNCHANGED awaiting_stdin /\ DeadSet' = {}
      /\ current_task = Reaper /\ Reaper \in Ring
      /\ Ring \subseteq Task /\ Ring \cap DeadSet = {} /\ DeadSet \subseteq UserTask
      /\ Cycle(Ring, next)
  BY DEF IInv, TypeOK, Running, RingInv, QueueInv, reaper_task_loop, Ring, Live, DeadSet, Queued
<1>2. Cycle(Ring, nx) /\ nx[current_task] \in Ring
  <2>1. \A u \in Ring : nx[u] = next[u]
    BY <1>1
  <2>2. Cycle(Ring, nx)
    BY <1>1, <2>1, CycleFrame
  <2> QED BY <1>1, <2>2 DEF Cycle
<1>3. /\ \A t \in UserTask : st[t] = IF t \in DeadSet THEN "FREE" ELSE status[t]
      /\ DOMAIN st = Task
      /\ \A t \in UserTask : status[t] # "TASK_SCHEDULER_IDLE"
  BY <1>1 DEF sleep_reaper_task, Task, UserInv
<1>4. \/ found = {} /\ status' = st /\ cpu' = "spinning"
      \/ \E n \in found : switch_to(n, st)
  BY DEF reaper_task_loop, load_context
<1>5. ASSUME NEW t \in UserTask, status'[t] = st[t]
      PROVE  life'[t] = Life!Reaped[t]
  <2>1. CASE t \in DeadSet
    BY <1>1, <1>3, <1>5, <2>1, LifeStages, LifeAfter, LeftAndReaped
  <2>2. CASE t \notin DeadSet
    <3>1. life[t] # "dead"
      BY <1>1, <2>2, LifeStages
    <3> QED BY <1>1, <1>3, <1>5, <2>2, <3>1, LifeAfter, LeftAndReaped
  <2> QED BY <2>1, <2>2
<1> HIDE DEF st, nx, found
<1>6. CASE found = {} /\ status' = st /\ cpu' = "spinning"
  <2>1. \A t \in UserTask : life[t] # "ready"
    <3> SUFFICES ASSUME NEW t \in UserTask, life[t] = "ready" PROVE FALSE
      OBVIOUS
    <3>1. status[t] = "TASK_READY" /\ t \notin DeadSet
      BY <1>1, LifeStages
    <3>2. t \in Ring
      BY <3>1 DEF Ring, Live, Task
    <3> QED BY <1>2, <1>3, <1>6, <3>1, <3>2, NoneRunnable DEF found
  <2>2. life' = Life!Reaped
    BY <1>5, <1>6, LeftAndReaped DEF life
  <2> QED BY <1>6, <2>1, <2>2 DEF Life!Hang, life
<1>7. ASSUME NEW n \in found, switch_to(n, st)
      PROVE  Life!Reap
  <2>1. n \in Task /\ n \in Ring /\ n \in Runnable(st) /\ n \notin DeadSet /\ UNCHANGED cpu
    <3>1. found \subseteq Ring \cap Runnable(st)
      BY <1>1, <1>2, NextTaskInRing DEF Cycle, found
    <3> QED BY <1>1, <1>7, <3>1 DEF switch_to
  <2>2. /\ n \in UserTask => status'[n] = "TASK_RUNNING" /\ status[n] = "TASK_READY"
        /\ \A t \in UserTask : t # n => status'[t] = st[t]
    BY <1>3, <1>7, <2>1 DEF switch_to, Picked, Runnable
  <2>3. n \in UserTask => life[n] = "ready" /\ life'[n] = "running"
    BY <1>1, <2>1, <2>2, LifeStages, LifeAfter
  <2>4. \E m \in UserTask \cup {NULL} : Life!Runs(m, Life!Reaped)
    BY <1>5, <2>1, <2>2, <2>3, HandOver
  <2>5. \A t \in UserTask : life[t] # "running"
    BY <1>1, LifeStages
  <2> QED BY <2>4, <2>5 DEF Life!Reap, life
<1> QED BY <1>4, <1>6, <1>7

(* The scheduler gives every task the life TaskLife promises, for any number  *)
(* of tasks: each handler is one of TaskLife's steps (scheduler.c:46-150,     *)
(* 207-293), and where next_task does not return it is Hang, which TaskLife   *)
(* allows only while no task is ready. *)
THEOREM LifeImplemented == Spec => ImplementsTaskLife
<1> USE TaskAssumption
<1>1. Init => Life!Init
  <2> SUFFICES ASSUME Init PROVE Life!Init
    OBVIOUS
  <2>1. \A t \in UserTask : LifeOf(t) = "none"
    BY DEF Init, LifeOf, DeadSet, Queued, Task
  <2> QED BY <2>1 DEF Init, Life!Init
<1>2. Init => UserInv
  BY DEF Init, UserInv, Task
<1>3. IInv /\ UserInv /\ [Next]_vars => [Life!Next]_(Life!vars)
  <2> SUFFICES ASSUME IInv, UserInv, [Next]_vars PROVE [Life!Next]_(Life!vars)
    OBVIOUS
  <2>1. CASE UNCHANGED <<next, status, dead_queue, awaiting_stdin, cpu>>
    BY <2>1 DEF Life!vars, LifeOf, DeadSet
  <2>2. CASE cpu = "running" /\ scheduler_tick
    BY <2>2, TickIsPreempt DEF Life!Next
  <2>3. CASE keyboard_interrupt_handler
    BY <2>3, EnqueueIsCreate, WakeIsLineTyped DEF keyboard_interrupt_handler, Life!Next
  <2>4. CASE syscall_handler
    BY <2>4, AwaitIsWait, ExitIsExit DEF syscall_handler, Life!Next
  <2>5. CASE exception_handler
    BY <2>5, ExitIsExit DEF exception_handler, Life!Next
  <2>6. CASE reaper_task_loop
    <3>1. cpu = "running"
      BY <2>6 DEF reaper_task_loop
    <3> QED BY <2>6, <3>1, ReaperIsReap DEF Life!Next
  <2> QED BY <2>1, <2>2, <2>3, <2>4, <2>5, <2>6
          DEF Next, timer_interrupt_handler, ring, vars
<1> QED BY <1>1, <1>2, <1>3, InvAlways, UserInvStep, PTL DEF Spec, ImplementsTaskLife, Life!Spec

-----------------------------------------------------------------------------
(***************************************************************************)
(* Round-robin.  Segment(c, t, nx) is what lies between the current task c *)
(* and a ready task t: the tasks that can get the CPU before t does.  The  *)
(* tasks that had their turn since t became ready are never on it.         *)
(***************************************************************************)
Segment(c, t, nx) == Walk(nx[c], nx, {t})

(* A segment holds the successor of its start, follows the links up to its    *)
(* end, stays on the cycle, and does not come back to its start. *)
LEMMA SegmentShape ==
  ASSUME NEW R, NEW nx, Cycle(R, nx), NEW c \in R, NEW t \in R, c # t
  PROVE  /\ nx[c] \in Segment(c, t, nx)
         /\ \A u \in Segment(c, t, nx) : u # t => nx[u] \in Segment(c, t, nx)
         /\ Segment(c, t, nx) \subseteq R
         /\ c \notin Segment(c, t, nx)
<1> DEFINE B == Segment(c, t, nx)
           A == Walk(t, nx, {c})
<1>1. R \in SUBSET Task /\ \A u \in R : nx[u] \in R
  BY DEF Cycle
<1>2. B \subseteq R /\ A \subseteq R
  BY <1>1, WalkWithin DEF Segment
<1>3. /\ nx[c] \in B /\ \A u \in B : u # t => nx[u] \in B
      /\ t \in A /\ \A u \in A : u # c => nx[u] \in A
  BY <1>1, <1>2, WalkSteps DEF Segment
<1>4. \A S \in SUBSET Task : (t \in S /\ \A u \in S \ {c} : nx[u] \in S) => A \subseteq S
  BY WalkWithin
<1>5. \A S \in SUBSET Task : (nx[c] \in S /\ \A u \in S \ {t} : nx[u] \in S) => B \subseteq S
  BY WalkWithin DEF Segment
<1> HIDE DEF A, B
<1>6. c \in A
  <2> SUFFICES ASSUME c \notin A PROVE FALSE
    OBVIOUS
  <2>1. A = R
    BY <1>2, <1>3, CycleWhole
  <2> QED BY <2>1
<1>7. \A a \in A : a # t => \E p \in A : p # c /\ nx[p] = a
  <2> SUFFICES ASSUME NEW a \in A, a # t, \A p \in A : p # c => nx[p] # a
               PROVE  FALSE
    OBVIOUS
  <2>1. A \ {a} \in SUBSET Task /\ t \in A \ {a} /\ \A u \in (A \ {a}) \ {c} : nx[u] \in A \ {a}
    BY <1>1, <1>2, <1>3
  <2>2. A \subseteq A \ {a}
    BY <1>4, <2>1
  <2> QED BY <2>2
<1>8. \A u \in R : nx[u] \in A => nx[u] = t \/ (u \in A /\ u # c)
  BY <1>2, <1>7 DEF Cycle
<1>9. B \subseteq (R \ A) \cup {t}
  <2> DEFINE S == (R \ A) \cup {t}
  <2>1. S \in SUBSET Task /\ nx[c] \in S /\ \A u \in S \ {t} : nx[u] \in S
    BY <1>1, <1>8
  <2> QED BY <1>5, <2>1
<1> QED BY <1>2, <1>3, <1>6, <1>9 DEF B

(* A task on the segment is nearer to the end of it. *)
LEMMA SegmentShrinks ==
  ASSUME NEW R, NEW nx, Cycle(R, nx), NEW c \in R, NEW t \in R, c # t,
         NEW n \in Segment(c, t, nx), n # t
  PROVE  Segment(n, t, nx) \subseteq Segment(c, t, nx) \ {n}
<1> DEFINE B == Segment(c, t, nx)
<1>1. n \in R /\ nx[n] \in B /\ B \subseteq R /\ \A u \in B : u # t => nx[u] \in B
  BY SegmentShape
<1>2. n \notin Segment(n, t, nx)
  BY <1>1, SegmentShape
<1>3. B \in SUBSET Task
  BY <1>1 DEF Cycle
<1> HIDE DEF B
<1>4. Segment(n, t, nx) \subseteq B
  BY <1>1, <1>3, WalkWithin DEF Segment
<1> QED BY <1>2, <1>4 DEF B

(* Links that change behind c, where enqueue_task and task_exit change them,  *)
(* put no task on the segment in front of c. *)
LEMMA SegmentFrame ==
  ASSUME NEW R, NEW nx, Cycle(R, nx), NEW c \in R, NEW t \in R, c # t, NEW nx2,
         \A u \in R : u # t /\ nx[u] # c => nx2[u] = nx[u]
  PROVE  Segment(c, t, nx2) \subseteq Segment(c, t, nx)
<1> DEFINE B == Segment(c, t, nx)
<1>1. /\ nx[c] \in B /\ B \subseteq R /\ c \notin B
      /\ \A u \in B : u # t => nx[u] \in B
  BY SegmentShape
<1>2. nx2[c] = nx[c]
  BY <1>1
<1>3. \A u \in B : u # t => nx2[u] \in B
  BY <1>1
<1>4. B \in SUBSET Task
  BY <1>1 DEF Cycle
<1> HIDE DEF B
<1>5. Segment(c, t, nx2) \subseteq B
  BY <1>1, <1>2, <1>3, <1>4, WalkWithin DEF Segment
<1> QED BY <1>5 DEF B

(* next_task does not look beyond a runnable task. *)
LEMMA NextTaskOnSegment ==
  ASSUME NEW R, NEW nx, Cycle(R, nx), NEW c \in R, NEW t \in R, c # t,
         NEW st, t \in Runnable(st)
  PROVE  next_task(c, nx, st) \subseteq Segment(c, t, nx)
<1> DEFINE B == Segment(c, t, nx)
<1>1. nx[c] \in B /\ B \subseteq R /\ \A u \in B : u # t => nx[u] \in B
  BY SegmentShape
<1>2. B \in SUBSET Task
  BY <1>1 DEF Cycle
<1> HIDE DEF B
<1>3. Walk(nx[c], nx, Runnable(st)) \subseteq B
  BY <1>1, <1>2, WalkWithin
<1> QED BY <1>3 DEF next_task, B

(* A step moves the CPU along the segment in front of a ready task, and puts  *)
(* no task on it. *)
LEMMA StepOnSegment ==
  ASSUME IInv, UserInv, Next, NEW t \in UserTask, status[t] = "TASK_READY"
  PROVE  /\ current_task' # current_task => current_task' \in Segment(current_task, t, next)
         /\ cpu' = "running" /\ status'[t] = "TASK_READY" =>
              Segment(current_task', t, next') \subseteq
                Segment(current_task, t, next) \ {current_task'}
<1> USE TaskAssumption
<1> DEFINE c == current_task
           B == Segment(c, t, next)
<1>1. TypeOK /\ Running /\ cpu = "running"
  BY DEF IInv, Next, timer_interrupt_handler, keyboard_interrupt_handler,
         syscall_handler, exception_handler, reaper_task_loop
<1>2. /\ status \in [Task -> Status \cup {"FREE"}] /\ next \in Links
      /\ t \in Task /\ t # Idle /\ t # Reaper /\ t \notin DeadSet
      /\ t \in Ring /\ c \in Ring /\ c \in Task /\ c # t /\ Ring \subseteq Task
      /\ Cycle(Ring, next) /\ Idle \in Ring /\ Ring \cap DeadSet = {}
      /\ \A u \in Ring : u # Idle => u \in Task
  BY <1>1 DEF TypeOK, Links, Running, RingInv, RunInv, DeadInv, Ring, Live, Task
<1>3. c \notin B
  BY <1>2, SegmentShape
<1>4. ASSUME NEW nx, NEW st, Cycle(Ring, nx), \A u \in Ring : nx[u] = next[u],
             DOMAIN st = Task, st[t] = "TASK_READY", NEW n \in next_task(c, nx, st),
             current_task' = n, \E sx : status' = Picked(sx, n) /\ DOMAIN sx = Task,
             next' = nx
      PROVE  n \in B /\ (status'[t] = "TASK_READY" => Segment(n, t, next') \subseteq B \ {n})
  <2>1. n \in Segment(c, t, nx)
    BY <1>2, <1>4, NextTaskOnSegment DEF Runnable
  <2>2. Segment(c, t, nx) \subseteq B
    BY <1>2, <1>4, SegmentFrame
  <2>3. status'[t] = "TASK_READY" => n # t
    BY <1>2, <1>4 DEF Picked
  <2>4. n # t => Segment(n, t, nx) \subseteq Segment(c, t, nx) \ {n}
    BY <1>2, <1>4, <2>1, SegmentShrinks
  <2> QED BY <1>4, <2>1, <2>2, <2>3, <2>4
<1>5. CASE UNCHANGED <<current_task, next>>
  BY <1>3, <1>5
<1>6. CASE scheduler_tick
  <2> DEFINE st == IF task_total = 0 THEN wake_idle_task(status) ELSE status
             requeued == IF st[c] # "TASK_SCHEDULER_IDLE"
                         THEN [st EXCEPT ![c] = "TASK_READY"] ELSE st
  <2>1. DOMAIN st = Task /\ DOMAIN requeued = Task /\ st[t] = "TASK_READY" /\ next' = next
    BY <1>2, <1>6 DEF wake_idle_task, scheduler_tick
  <2>2. \/ UNCHANGED <<current_task, next>>
        \/ \E n \in next_task(c, next, st) : current_task' = n /\ status' = Picked(requeued, n)
    BY <1>6 DEF scheduler_tick, switch_to
  <2> HIDE DEF st, requeued
  <2>3. ASSUME NEW n \in next_task(c, next, st), current_task' = n, status' = Picked(requeued, n)
        PROVE  n \in B /\ (status'[t] = "TASK_READY" => Segment(n, t, next') \subseteq B \ {n})
    BY <1>2, <1>4, <2>1, <2>3
  <2> QED BY <1>5, <2>2, <2>3
<1>7. CASE enqueue_task
  <2> DEFINE p == Predecessor(c)
  <2>1. p \in Ring /\ next[p] = c
    BY <1>2, PredecessorInRing
  <2>2. PICK n \in UserTask : /\ status[n] = "FREE"
                              /\ next' = [next EXCEPT ![p] = n, ![n] = c]
                              /\ UNCHANGED current_task
    BY <1>7 DEF enqueue_task
  <2>3. n \notin Ring
    BY <2>2 DEF Ring, Live
  <2> HIDE DEF p
  <2>4. \A u \in Ring : next[u] # c => next'[u] = next[u]
    BY <1>2, <2>1, <2>2, <2>3 DEF Links
  <2>5. Segment(c, t, next') \subseteq B
    BY <1>2, <2>4, SegmentFrame
  <2> QED BY <1>3, <2>2, <2>5
<1>8. CASE wake_stdin_task
  BY <1>5, <1>8 DEF wake_stdin_task
<1>9. CASE await_stdin
  <2> DEFINE asleep == [status EXCEPT ![c] = "TASK_SLEEP"]
             st == IF task_total = 1 THEN wake_idle_task(asleep) ELSE asleep
  <2>1. DOMAIN st = Task /\ st[t] = "TASK_READY" /\ next' = next
    BY <1>2, <1>9 DEF wake_idle_task, await_stdin
  <2>2. \/ UNCHANGED <<current_task, next>>
        \/ \E n \in next_task(c, next, st) : current_task' = n /\ status' = Picked(st, n)
    BY <1>9 DEF await_stdin, load_context, switch_to
  <2> HIDE DEF st
  <2>3. ASSUME NEW n \in next_task(c, next, st), current_task' = n, status' = Picked(st, n)
        PROVE  n \in B /\ (status'[t] = "TASK_READY" => Segment(n, t, next') \subseteq B \ {n})
    BY <1>2, <1>4, <2>1, <2>3
  <2> QED BY <1>5, <2>2, <2>3
<1>10. CASE task_exit /\ c \in UserTask
  <2> DEFINE p == Predecessor(c)
             unlinked == [next EXCEPT ![p] = next[c]]
             st == IF task_total - 1 = 0 THEN wake_idle_task(status) ELSE status
             R == Ring \ {c}
             U == Segment(c, t, unlinked)
  <2>1. p \in Ring /\ next[p] = c
    BY <1>2, PredecessorInRing
  <2>2. Cycle(R, unlinked) /\ p # c /\ next[c] \in R
    BY <1>2, <1>10, <2>1, CycleRemove
  <2>3. /\ unlinked \in Links /\ unlinked[c] = next[c] /\ DOMAIN st = Task /\ st[t] = "TASK_READY"
        /\ \A u \in Ring : next[u] # c => unlinked[u] = next[u]
    BY <1>2, <2>1, <2>2 DEF Links, wake_idle_task
  <2> HIDE DEF p, unlinked, st
  <2>4. U \subseteq B
    BY <1>2, <2>3, SegmentFrame
  <2>5. \/ cpu' = "spinning" /\ UNCHANGED current_task
        \/ \E n \in next_task(c, unlinked, st) :
             /\ current_task' = n
             /\ status' = wake_reaper_task(Picked(st, n))
             /\ next' = push_dead_queue(unlinked, c)
    BY <1>10 DEF task_exit, p, unlinked, st
  <2>6. dead_queue # NULL => DeadTail \in DeadSet
    BY <1>1 DEF Running, QueueInv, DeadTail
  <2>7. \A u \in R : push_dead_queue(unlinked, c)[u] = unlinked[u]
    BY <1>2, <2>3, <2>6 DEF push_dead_queue, Links
  <2>8. CASE cpu' = "spinning" /\ UNCHANGED current_task
    BY <2>8
  <2>9. ASSUME NEW n \in next_task(c, unlinked, st), current_task' = n,
               status' = wake_reaper_task(Picked(st, n)),
               next' = push_dead_queue(unlinked, c)
        PROVE  n \in U /\ (status'[t] = "TASK_READY" => Segment(n, t, next') \subseteq U \ {n})
    <3>1. U \subseteq R /\ unlinked[c] \in U /\ \A u \in U : u # t => unlinked[u] \in U
      <4>1. R \in SUBSET Task /\ unlinked[c] \in R /\ \A u \in R : unlinked[u] \in R
        BY <2>2, <2>3 DEF Cycle
      <4> HIDE DEF R
      <4>2. U \subseteq R
        BY <4>1, WalkWithin DEF Segment
      <4>3. unlinked[c] \in U /\ \A u \in U : u # t => unlinked[u] \in U
        BY <4>1, <4>2, WalkSteps DEF Segment
      <4> QED BY <4>2, <4>3
    <3>2. U \in SUBSET Task
      BY <1>2, <3>1
    <3>3. n \in U
      <4> HIDE DEF U, R
      <4>1. t \in Runnable(st)
        BY <1>2, <2>3 DEF Runnable
      <4>2. Walk(unlinked[c], unlinked, Runnable(st)) \subseteq U
        BY <3>1, <3>2, <4>1, WalkWithin
      <4> QED BY <4>2 DEF next_task
    <3>4. status'[t] = "TASK_READY" => n # t
      BY <1>2, <2>3, <2>9 DEF Picked, wake_reaper_task
    <3>5. SUFFICES ASSUME n # t PROVE Segment(n, t, next') \subseteq U \ {n}
      BY <3>3, <3>4
    <3>6. n \in R /\ t \in R
      BY <1>2, <3>1, <3>3
    <3>7. Segment(n, t, next') \subseteq Segment(n, t, unlinked)
      BY <2>2, <2>7, <2>9, <3>5, <3>6, SegmentFrame
    <3>8. n \notin Segment(n, t, unlinked)
      BY <2>2, <3>5, <3>6, SegmentShape
    <3>9. Segment(n, t, unlinked) \subseteq U
      <4>1. unlinked[n] \in U
        BY <3>1, <3>3, <3>5
      <4> HIDE DEF U
      <4> QED BY <3>1, <3>2, <4>1, WalkWithin DEF Segment
    <3> QED BY <3>7, <3>8, <3>9
  <2> QED BY <2>4, <2>5, <2>8, <2>9
<1>11. CASE reaper_task_loop
  <2> DEFINE freed == [u \in Task |-> IF u \in DeadSet THEN "FREE" ELSE status[u]]
             nx == [u \in Task |-> IF u \in DeadSet THEN NULL ELSE next[u]]
             st == sleep_reaper_task(freed)
  <2>1. DOMAIN st = Task /\ st[t] = "TASK_READY" /\ next' = nx
    BY <1>2, <1>11 DEF sleep_reaper_task, reaper_task_loop
  <2>2. \A u \in Ring : nx[u] = next[u]
    BY <1>2
  <2>3. Cycle(Ring, nx)
    BY <1>2, <2>2, CycleFrame
  <2>4. \/ cpu' = "spinning" /\ UNCHANGED current_task
        \/ \E n \in next_task(c, nx, st) : current_task' = n /\ status' = Picked(st, n)
    BY <1>11 DEF reaper_task_loop, load_context, switch_to
  <2> HIDE DEF st, nx
  <2>5. ASSUME NEW n \in next_task(c, nx, st), current_task' = n, status' = Picked(st, n)
        PROVE  n \in B /\ (status'[t] = "TASK_READY" => Segment(n, t, next') \subseteq B \ {n})
    BY <1>4, <2>1, <2>2, <2>3, <2>5
  <2> QED BY <2>4, <2>5
<1> QED BY <1>1, <1>5, <1>6, <1>7, <1>8, <1>9, <1>10, <1>11
        DEF Next, timer_interrupt_handler, keyboard_interrupt_handler, syscall_handler,
            exception_handler, ring

(* The invariant: no task that was given the CPU while t was ready lies between *)
(* the current task and t. *)
TurnInv ==
  /\ DOMAIN passed = UserTask
  /\ cpu = "running" =>
       \A t \in UserTask : status[t] = "TASK_READY" =>
         passed[t] \cap Segment(current_task, t, next) = {}

(* While a task is ready no other task gets the CPU twice: enqueue_task puts   *)
(* new tasks behind the current one (scheduler.c:210-217), task_exit unlinks   *)
(* behind it (scheduler.c:139-142), and next_task never looks beyond a ready   *)
(* task (scheduler.c:48-52). *)
THEOREM RoundRobin == TurnSpec => OneTurnEach
<1>1. TurnInit => Init /\ IInv /\ UserInv /\ TurnInv
  BY InitInv, TaskAssumption DEF TurnInit, Init, UserInv, TurnInv, Task
<1>2. [TurnNext]_<<vars, passed>> => [Next]_vars
  BY DEF TurnNext
<1>3. IInv /\ UserInv /\ TurnInv /\ [TurnNext]_<<vars, passed>> => TurnInv'
  <2> SUFFICES ASSUME IInv, UserInv, TurnInv, [TurnNext]_<<vars, passed>> PROVE TurnInv'
    OBVIOUS
  <2>1. CASE UNCHANGED <<vars, passed>>
    BY <2>1 DEF TurnInv, vars
  <2>2. CASE TurnNext
    <3>1. Next /\ DOMAIN passed' = UserTask
      BY <2>2 DEF TurnNext
    <3>2. cpu = "running"
      BY <3>1 DEF Next, timer_interrupt_handler, keyboard_interrupt_handler,
                  syscall_handler, exception_handler, reaper_task_loop
    <3>3. ASSUME NEW t \in UserTask, cpu' = "running", status'[t] = "TASK_READY"
          PROVE  passed'[t] \cap Segment(current_task', t, next') = {}
      <4>1. CASE status[t] # "TASK_READY"
        BY <2>2, <4>1 DEF TurnNext
      <4>2. CASE status[t] = "TASK_READY"
        <5>1. passed'[t] = passed[t] \cup Given
          BY <2>2, <3>3, <4>2 DEF TurnNext
        <5>2. Given \subseteq {current_task'}
          BY DEF Given
        <5>3. Segment(current_task', t, next') \subseteq
                Segment(current_task, t, next) \ {current_task'}
          BY <3>1, <3>3, <4>2, StepOnSegment
        <5>4. passed[t] \cap Segment(current_task, t, next) = {}
          BY <3>2, <4>2 DEF TurnInv
        <5> QED BY <5>1, <5>2, <5>3, <5>4
      <4> QED BY <4>1, <4>2
    <3> QED BY <3>1, <3>3 DEF TurnInv
  <2> QED BY <2>1, <2>2
<1>4. IInv /\ UserInv /\ TurnInv /\ [TurnNext]_<<vars, passed>> =>
        [\A t \in UserTask : status[t] = "TASK_READY" => Given \cap passed[t] = {}]_<<vars, passed>>
  <2> SUFFICES ASSUME IInv, UserInv, TurnInv, TurnNext, NEW t \in UserTask,
                      status[t] = "TASK_READY"
               PROVE  Given \cap passed[t] = {}
    OBVIOUS
  <2>1. Next
    BY DEF TurnNext
  <2>2. cpu = "running"
    BY <2>1 DEF Next, timer_interrupt_handler, keyboard_interrupt_handler,
                syscall_handler, exception_handler, reaper_task_loop
  <2>3. passed[t] \cap Segment(current_task, t, next) = {}
    BY <2>2 DEF TurnInv
  <2> QED BY <2>1, <2>3, StepOnSegment DEF Given
<1> QED BY <1>1, <1>2, <1>3, <1>4, NextInv, UserInvStep, PTL DEF TurnSpec, OneTurnEach

-----------------------------------------------------------------------------
(***************************************************************************)
(* The read system call from end to end (Stdin): the composition makes the *)
(* scheduler's steps and the terminal's.                                   *)
(***************************************************************************)

(* Every step of the composition is one of the scheduler or leaves it alone. *)
LEMMA StdinStep == [StdinNext]_allvars => [Next]_vars
<1> SUFFICES ASSUME [StdinNext]_allvars PROVE [Next]_vars
  OBVIOUS
<1>1. CASE key_t
  BY <1>1 DEF key_t, keyboard_interrupt_handler, Next
<1>2. CASE key_char
  BY <1>2 DEF key_char, keyboard_interrupt_handler, Next
<1>3. ASSUME NEW t \in UserTask, read(t) PROVE [Next]_vars
  BY <1>3 DEF read, sys_read, syscall_handler, Next
<1>4. CASE exit
  BY <1>4 DEF exit, syscall_handler, Next
<1>5. CASE timer
  BY <1>5 DEF timer, Next
<1>6. CASE reaper
  BY <1>6 DEF reaper, Next
<1>7. CASE UNCHANGED allvars
  BY <1>7 DEF allvars
<1> QED BY <1>1, <1>2, <1>3, <1>4, <1>5, <1>6, <1>7 DEF StdinNext

(* So all that is proved of the scheduler holds in the composition.  The calls *)
(* a read makes of it and the order in which the handlers make them            *)
(* (idt.c:44-59, tty.c:131-150) are steps it knows. *)
THEOREM StdinSchedules == StdinSpec => Spec
<1>1. StdinInit => Init
  BY DEF StdinInit
<1> QED BY <1>1, StdinStep, PTL DEF StdinSpec, Spec

(* The ring-3 tasks with status TASK_SLEEP, as the terminal sees them. *)
Sleepers == {t \in UserTask : status[t] = "TASK_SLEEP"}

(* load_context wakes no sleeper: it picks a runnable task. *)
LEMMA LoadWakesNone ==
  ASSUME NEW nx, NEW st, DOMAIN st = Task, load_context(nx, st)
  PROVE  Sleepers' = {t \in UserTask : st[t] = "TASK_SLEEP"}
<1>1. CASE status' = st
  BY <1>1 DEF Sleepers
<1>2. ASSUME NEW n \in next_task(current_task, nx, st), status' = Picked(st, n)
      PROVE  Sleepers' = {t \in UserTask : st[t] = "TASK_SLEEP"}
  <2>1. n \in Task /\ st[n] # "TASK_SLEEP"
    BY DEF next_task, Runnable
  <2> QED BY <1>2, <2>1 DEF Picked, Sleepers, Task
<1> QED BY <1>1, <1>2 DEF load_context, switch_to

(* A task that the timer takes from the CPU does not sleep, nor does the one    *)
(* it gives it to. *)
LEMMA TickWakesNone ==
  ASSUME IInv, cpu = "running", scheduler_tick
  PROVE  Sleepers' = Sleepers
<1> USE TaskAssumption
<1> DEFINE st == IF task_total = 0 THEN wake_idle_task(status) ELSE status
           requeued == IF st[current_task] # "TASK_SCHEDULER_IDLE"
                       THEN [st EXCEPT ![current_task] = "TASK_READY"] ELSE st
<1>1. /\ status \in [Task -> Status \cup {"FREE"}] /\ current_task \in Task
      /\ current_task \in UserTask => status[current_task] = "TASK_RUNNING"
  BY DEF IInv, TypeOK, Running, RunInv
<1>2. DOMAIN st = Task /\ \A t \in UserTask : st[t] = status[t]
  BY <1>1 DEF wake_idle_task, Task
<1>3. \/ status' = st
      \/ \E n \in next_task(current_task, next, st) : status' = Picked(requeued, n)
  BY DEF scheduler_tick, switch_to
<1> HIDE DEF st
<1>4. DOMAIN requeued = Task
      /\ \A t \in UserTask : requeued[t] = "TASK_SLEEP" <=> status[t] = "TASK_SLEEP"
  BY <1>1, <1>2 DEF Task
<1> HIDE DEF requeued
<1>5. CASE status' = st
  BY <1>2, <1>5 DEF Sleepers
<1>6. ASSUME NEW n \in next_task(current_task, next, st), status' = Picked(requeued, n)
      PROVE  Sleepers' = Sleepers
  <2>1. n \in Task /\ st[n] # "TASK_SLEEP"
    BY DEF next_task, Runnable
  <2> QED BY <1>2, <1>4, <1>6, <2>1 DEF Picked, Sleepers, Task
<1> QED BY <1>3, <1>5, <1>6

(* Nor does the one that exits, or the one that follows it. *)
LEMMA ExitWakesNone ==
  ASSUME IInv, task_exit
  PROVE  Sleepers' = Sleepers
<1> USE TaskAssumption
<1> DEFINE st == IF task_total - 1 = 0 THEN wake_idle_task(status) ELSE status
           unlinked == [next EXCEPT ![Predecessor(current_task)] = next[current_task]]
<1>1. DOMAIN st = Task /\ \A t \in UserTask : st[t] = status[t]
  BY DEF wake_idle_task, Task, IInv, TypeOK
<1>2. \/ status' = st
      \/ \E n \in next_task(current_task, unlinked, st) :
           status' = wake_reaper_task(Picked(st, n))
  BY DEF task_exit
<1> HIDE DEF st, unlinked
<1>3. CASE status' = st
  BY <1>1, <1>3 DEF Sleepers
<1>4. ASSUME NEW n \in next_task(current_task, unlinked, st),
             status' = wake_reaper_task(Picked(st, n))
      PROVE  Sleepers' = Sleepers
  <2>1. n \in Task /\ st[n] # "TASK_SLEEP"
    BY DEF next_task, Runnable
  <2> QED BY <1>1, <1>4, <2>1 DEF wake_reaper_task, Picked, Sleepers, Task
<1> QED BY <1>2, <1>3, <1>4

(* The reaper frees tasks that were running when they died. *)
LEMMA ReaperWakesNone ==
  ASSUME IInv, reaper_task_loop
  PROVE  Sleepers' = Sleepers
<1> USE TaskAssumption
<1> DEFINE freed == [t \in Task |-> IF t \in DeadSet THEN "FREE" ELSE status[t]]
           nx == [t \in Task |-> IF t \in DeadSet THEN NULL ELSE next[t]]
           st == sleep_reaper_task(freed)
<1>1. cpu = "running" /\ load_context(nx, st)
  BY DEF reaper_task_loop
<1>2. \A t \in DeadSet : status[t] = "TASK_RUNNING"
  BY <1>1 DEF IInv, Running, DeadInv
<1>3. DOMAIN st = Task
      /\ \A t \in UserTask : st[t] = "TASK_SLEEP" <=> status[t] = "TASK_SLEEP"
  BY <1>2 DEF sleep_reaper_task, Task
<1> HIDE DEF st, nx
<1>4. Sleepers' = {t \in UserTask : st[t] = "TASK_SLEEP"}
  BY <1>1, <1>3, LoadWakesNone
<1> QED BY <1>3, <1>4 DEF Sleepers

(* A read without a line adds the reader. *)
LEMMA AwaitSleeps ==
  ASSUME IInv, cpu = "running", current_task \in UserTask, await_stdin
  PROVE  Sleepers' = Sleepers \cup {current_task} /\ awaiting_stdin' = current_task
<1> USE TaskAssumption
<1> DEFINE slept == [status EXCEPT ![current_task] = "TASK_SLEEP"]
           st == IF task_total = 1 THEN wake_idle_task(slept) ELSE slept
<1>1. load_context(next, st) /\ awaiting_stdin' = current_task
  BY DEF await_stdin
<1>2. status \in [Task -> Status \cup {"FREE"}] /\ current_task \in Task
  BY DEF IInv, TypeOK
<1>3. /\ DOMAIN st = Task
      /\ \A t \in UserTask : st[t] = IF t = current_task THEN "TASK_SLEEP" ELSE status[t]
  BY <1>2 DEF wake_idle_task, Task
<1> HIDE DEF st
<1>4. Sleepers' = {t \in UserTask : st[t] = "TASK_SLEEP"}
  BY <1>1, <1>3, LoadWakesNone
<1> QED BY <1>1, <1>3, <1>4 DEF Sleepers

(* A step that leaves the buffer, the waiter and the sleepers alone is none of *)
(* the terminal. *)
LEMMA NotOfTheTerminal ==
  ASSUME UNCHANGED buffer, UNCHANGED awaiting_stdin, Sleepers' = Sleepers
  PROVE  UNCHANGED T!vars
  BY DEF buffer, Sleepers, T!vars, T!buffer, T!waiters, T!cursor

(* Each step of the composition is a step of the terminal or none of its. *)
LEMMA StdinIsTty == IInv /\ [StdinNext]_allvars => [T!Next]_(T!vars)
<1> SUFFICES ASSUME IInv, [StdinNext]_allvars PROVE [T!Next]_(T!vars)
  OBVIOUS
<1> USE TaskAssumption
<1>1. CASE key_t
  <2>1. enqueue_task /\ UNCHANGED buffer
    BY <1>1 DEF key_t
  <2>2. status \in [Task -> Status \cup {"FREE"}]
    BY DEF IInv, TypeOK
  <2>3. Sleepers' = Sleepers /\ UNCHANGED awaiting_stdin
    BY <2>1, <2>2 DEF enqueue_task, sleep_idle_task, Sleepers, Task
  <2> QED BY <2>1, <2>3, NotOfTheTerminal
<1>2. CASE key_char
  <2>1. PICK c \in Char : T!store_and_wake(c)
    BY <1>2 DEF key_char
  <2>2. T!write_tty_buffer
    BY <2>1 DEF T!write_tty_buffer, T!cursor
  <2> QED BY <2>2 DEF T!Next
<1>3. ASSUME NEW t \in UserTask, read(t) PROVE [T!Next]_(T!vars)
  <2>1. cpu = "running" /\ current_task = t
    BY <1>3 DEF read
  <2>2. status[t] = "TASK_RUNNING"
    BY <2>1 DEF IInv, Running, RunInv
  <2>3. t \in UserTask \ Sleepers
    BY <2>2 DEF Sleepers
  <2>4. PICK len \in 0 .. LEN_BOUND : sys_read(len)
    BY <1>3 DEF read
  <2>5. CASE ~T!stdin_buffer_has_line /\ await_stdin /\ UNCHANGED buffer
    <3>1. Sleepers' = Sleepers \cup {t} /\ awaiting_stdin' = t
      BY <2>1, <2>5, AwaitSleeps
    <3>2. T!sys_read
      BY <2>3, <2>4, <2>5, <3>1 DEF T!sys_read, T!buffer, T!cursor, buffer, Sleepers
    <3> QED BY <3>2 DEF T!Next
  <2>6. CASE /\ T!stdin_buffer_has_line /\ T!tty_read(len)
             /\ UNCHANGED <<vars, stdin_buffer, accepted>>
    <3>1. UNCHANGED <<awaiting_stdin, status>>
      BY <2>6 DEF vars
    <3>2. T!sys_read
      BY <2>3, <2>4, <2>6, <3>1 DEF T!sys_read, T!waiters, T!cursor, Sleepers
    <3> QED BY <3>2 DEF T!Next
  <2> QED BY <2>4, <2>5, <2>6 DEF sys_read
<1>4. CASE exit
  <2>1. task_exit /\ UNCHANGED buffer
    BY <1>4 DEF exit
  <2>2. UNCHANGED awaiting_stdin
    BY <2>1 DEF task_exit
  <2> QED BY <2>1, <2>2, ExitWakesNone, NotOfTheTerminal
<1>5. CASE timer
  <2>1. timer_interrupt_handler /\ UNCHANGED buffer
    BY <1>5 DEF timer
  <2>2. CASE cpu = "running" /\ scheduler_tick
    <3>1. UNCHANGED awaiting_stdin
      BY <2>2 DEF scheduler_tick
    <3> QED BY <2>1, <2>2, <3>1, TickWakesNone, NotOfTheTerminal
  <2>3. CASE UNCHANGED <<ring, awaiting_stdin>>
    <3>1. Sleepers' = Sleepers /\ UNCHANGED awaiting_stdin
      BY <2>3 DEF ring, Sleepers
    <3> QED BY <2>1, <3>1, NotOfTheTerminal
  <2> QED BY <2>1, <2>2, <2>3 DEF timer_interrupt_handler
<1>6. CASE reaper
  <2>1. reaper_task_loop /\ UNCHANGED buffer
    BY <1>6 DEF reaper
  <2>2. UNCHANGED awaiting_stdin
    BY <2>1 DEF reaper_task_loop
  <2> QED BY <2>1, <2>2, ReaperWakesNone, NotOfTheTerminal
<1>7. CASE UNCHANGED allvars
  <2>1. UNCHANGED buffer /\ UNCHANGED <<status, awaiting_stdin>>
    BY <1>7 DEF allvars, vars
  <2> QED BY <2>1, NotOfTheTerminal DEF Sleepers
<1> QED BY <1>1, <1>2, <1>3, <1>4, <1>5, <1>6, <1>7 DEF StdinNext

(* The composition implements the terminal on its own: whatever the tasks do   *)
(* and however they are scheduled, what the terminal sees of them is what Tty  *)
(* assumes (idt.c:52-54, scheduler.c:80-99, tty.c:131-172). *)
THEOREM TtyImplemented == StdinSpec => ImplementsTty
<1>1. StdinInit => T!Init
  BY TaskAssumption DEF StdinInit, Init, T!Init, Task
<1>2. StdinSpec => []IInv
  BY StdinSchedules, InvAlways, PTL
<1> QED BY <1>1, <1>2, StdinIsTty, PTL DEF StdinSpec, ImplementsTty, T!Spec
=============================================================================
