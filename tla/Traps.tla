-------------------------------- MODULE Traps --------------------------------
(***************************************************************************)
(* Into the kernel and out of it: the stubs of kernel/idt/idt.s, the       *)
(* context that load_context saves and restore_task_context                *)
(* (kernel/scheduler/scheduler.s) goes back to.                            *)
(*                                                                         *)
(* A frame is the sequence of words a handler finds on its stack, lowest   *)
(* address first; a C struct laid over it reads whatever word is there.    *)
(* One ring-3 task is followed word by word on its own stack, together     *)
(* with the idle task, which is kernel_main on the boot stack.  Which task *)
(* the scheduler picks is left open here.  Page 0 is not mapped             *)
(* (kernel.c:49, memory.c:319-324), and below the page of a ring-3 stack   *)
(* lies the page of its code, which is writable (memory.h:12-13).          *)
(*                                                                         *)
(* User code is compiled without optimisation (userspace/Makefile): a      *)
(* function sets up a frame with ebp and takes its arguments relative to   *)
(* it.  One with locals, or one that calls others, ends in `leave'; one    *)
(* without, as align_up and pages_required, ends in `pop %ebp'.            *)
(*                                                                         *)
(* System calls use pointers and numbers of programs unchecked (Files),    *)
(* and a key may have no character (Console): what the kernel then         *)
(* touches is no page of its own, which is a page fault in ring 0, or it   *)
(* overwrites itself.                                                      *)
(*                                                                         *)
(* Slip_ operators are as in Scheduler.                                    *)
(***************************************************************************)
EXTENDS Integers, Sequences

CONSTANTS
  USTACK,     \* words from the top of a ring-3 stack to the program's code
  ISTACK,     \* words on the boot stack
  IDLE_USE,   \* how many of them kernel_main needs
  HANDLER,    \* how many an interrupt handler needs
  Vector      \* the exceptions programs cause

ASSUME TrapsAssumption ==
  /\ {USTACK, ISTACK, IDLE_USE, HANDLER} \subseteq Nat \ {0}
  /\ IDLE_USE + HANDLER <= ISTACK
  /\ Vector \subseteq 0 .. 31

HasCode == {8, 10, 11, 12, 13, 14, 17, 30}

Task == {"user", "idle", "other"}

VARIABLES
  current,
  esp,         \* context.esp of the user and the idle task, as words in use
  status,      \* "up", "halted" by the fault handler, or "wild"
  alive,       \* the user task exists
  stack, ebp,  \* its stack, and its frame pointer as an index into it
  depth,       \* how many calls it is in
  phase,       \* where in a call its code is
  program,     \* "fine", or it "strayed": it took a wrong word off its stack,
               \* or its code was overwritten; then it may do anything
  bare,        \* history: it was resumed elsewhere than in the body of a
               \* function that ends in `leave'
  resumes,     \* history: how often idle was resumed
  odd,         \* history: the last exception that was no page fault, or 32
  misled       \* history: "touched" or "overwrote", once the kernel used
               \* what it was given without a check, and "no" before

user == <<alive, stack, ebp, depth, phase, program, bare>>
vars == <<current, esp, status, user, resumes, odd, misled>>

Word(tag) == [tag |-> tag, at |-> 0]

(* The word in place i; beyond the stack pointer lies what is left of others. *)
At(i) == IF i \in DOMAIN stack THEN stack[i] ELSE Word("ds")

-----------------------------------------------------------------------------
Pusha == <<"edi", "esi", "ebp", "esp", "ebx", "edx", "ecx", "eax">>

(* What the CPU pushes on its way in from ring. *)
Pushed(ring, code) ==
  (IF code THEN <<"error_code">> ELSE <<>>) \o <<"eip", "cs", "eflags">>
    \o (IF ring = 3 THEN <<"useresp", "userss">> ELSE <<>>)

(* The stubs.  `state' is where in the frame the pointer they pass goes, 0 for *)
(* one that does not point there, `iret' where esp is when they return. *)
Slip_isr_err_stub(ring) ==
  [words |-> <<"exception_code">> \o Pusha \o Pushed(ring, TRUE), state |-> 0, iret |-> 10]

isr_err_stub(ring) ==
  [words |-> <<"exception_code">> \o Pusha \o Pushed(ring, TRUE), state |-> 1, iret |-> 10]

isr_no_err_stub(ring) ==
  [words |-> <<"exception_code">> \o Pusha \o Pushed(ring, FALSE), state |-> 0, iret |-> 10]

irq0_stub(ring) ==
  [words |-> <<"ds">> \o Pusha \o Pushed(ring, FALSE), state |-> 1, iret |-> 10]

Slip_syscall_stub ==
  [words |-> <<"gs", "fs", "es", "ds">> \o Pusha \o Pushed(3, FALSE), state |-> 1, iret |-> 13]

syscall_stub ==
  [words |-> <<"gs", "fs", "es", "ds">> \o Pusha \o Pushed(3, FALSE), state |-> 4, iret |-> 13]

cpu_task_state ==
  <<"ds">> \o Pusha \o <<"eip", "cs", "eflags", "useresp", "userss">>

cpu_exception_state ==
  <<"exception_code">> \o Pusha \o <<"error_code", "eip", "cs", "eflags", "useresp", "userss">>

offset(struct, name) == CHOOSE i \in DOMAIN struct : struct[i] = name

(* The word that state->name reads. *)
field(f, struct, name) == f.words[f.state + offset(struct, name) - 1]

(* The stub's iret takes up the interrupted code where it was. *)
Returns(f) == SubSeq(f.words, f.iret, f.iret + 2) = <<"eip", "cs", "eflags">>

-----------------------------------------------------------------------------
(* load_context: the stack pointer it saves for a task that was interrupted    *)
(* with `use' words on its stack.  A ring-0 frame ends with eflags, and what   *)
(* would be useresp is where the stack was. *)
saved_esp(f, ring, use) ==
  IF ring = 3 THEN IF field(f, cpu_task_state, "useresp") = "useresp" THEN use ELSE 0
  ELSE use + (Len(f.words) - f.state + 2 - offset(cpu_task_state, "useresp"))

(* restore_task_context pushes ds, then esp as it is after that, then eflags,  *)
(* cs and eip.  An iret to ring 3 takes the pushed esp; one within ring 0      *)
(* leaves it and ds on the stack. *)
restored_esp(ring, use) == IF ring = 3 THEN use + 1 ELSE use + 2

(* load_context saves the current task's stack pointer from frame f. *)
Saved(f) ==
  CASE current = "user" -> [esp EXCEPT !.user = saved_esp(f, 3, Len(stack))]
    [] current = "idle" -> [esp EXCEPT !.idle = saved_esp(f, 0, esp.idle)]
    [] OTHER -> esp

(* restore_task_context for the user task, on whose own stack it pushes five   *)
(* words, be the stack full or its pointer wrong. *)
restore_user(use) ==
  \/ /\ program = "fine"
     /\ use + 5 <= USTACK
     /\ stack' = SubSeq(stack, 1, restored_esp(3, use) - 1) \o <<Word("ds")>>
     /\ bare' = (bare \/ phase \notin {"entry", "body"})
     /\ UNCHANGED <<program, status>>
  \/ /\ program = "fine"
     /\ use + 5 > USTACK
     /\ program' = "strayed"
     /\ UNCHANGED <<stack, bare, status>>
  \/ /\ program = "strayed"
     /\ status' \in {"up", "halted", "wild"}
     /\ UNCHANGED <<stack, bare, program>>

(* load_context and restore_task_context: the CPU goes to another task, from   *)
(* the saved stack pointers. *)
resume(saved, living) ==
  \E t \in Task \ {current} :
    /\ t = "user" => living
    /\ current' = t
    /\ alive' = living
    /\ IF t = "user" THEN restore_user(saved.user) ELSE UNCHANGED <<status, stack, bare, program>>
    /\ IF t = "idle"
       THEN /\ esp' = [saved EXCEPT !.idle = restored_esp(0, saved.idle)]
            /\ resumes' = resumes + 1
       ELSE esp' = saved /\ UNCHANGED resumes
    /\ UNCHANGED <<ebp, depth, phase>>

Ends(how) == status' = how /\ UNCHANGED <<current, esp, user, resumes>>

Ring == IF current = "idle" THEN 0 ELSE 3

(* A handler on the boot stack, which is used up. *)
NoRoom == current = "idle" /\ esp.idle + HANDLER > ISTACK

-----------------------------------------------------------------------------
(* timer_interrupt_handler: it returns through its stub, or the quantum is     *)
(* over and another task is found. *)
timer_interrupt_handler ==
  /\ status = "up"
  /\ IF NoRoom
     THEN Ends("wild")
     ELSE \/ IF Returns(irq0_stub(Ring)) THEN UNCHANGED vars ELSE Ends("wild")
          \/ resume(Saved(irq0_stub(Ring)), alive)
  /\ UNCHANGED <<odd, misled>>

(* syscall_handler: the call returns, its task sleeps for a line, or exits, or *)
(* the kernel overwrites itself through a pointer of the program. *)
syscall_handler ==
  /\ status = "up"
  /\ current # "idle"
  /\ \/ /\ \/ IF Returns(syscall_stub)
              THEN UNCHANGED <<current, esp, status, user, resumes>> ELSE Ends("wild")
           \/ resume(Saved(syscall_stub), alive)
           \/ resume(esp, alive /\ current # "user")
        /\ UNCHANGED misled
     \/ Ends("wild") /\ misled' = "overwrote"
  /\ UNCHANGED odd

(* exception_handler, for an exception v in ring.  A pointer that is no        *)
(* pointer makes it fault itself, in ring 0, where a page fault is the end; of *)
(* the other exceptions it survives, it comes back from all but page faults,   *)
(* and their stub returns with the error code still on the stack. *)
exception_handler(ring, v) ==
  LET f == IF v \in HasCode THEN isr_err_stub(ring) ELSE isr_no_err_stub(ring)
  IN CASE f.state = 0 -> Ends("halted")
       [] f.state # 0 /\ v = 14 ->
            IF ring = 3 /\ field(f, cpu_exception_state, "error_code") = "error_code"
            THEN resume(esp, alive /\ current # "user") ELSE Ends("halted")
       [] f.state # 0 /\ v # 14 -> IF Returns(f) THEN UNCHANGED <<current, esp, status, user, resumes>>
                                   ELSE Ends("wild")

(* A program causes an exception. *)
user_exception ==
  /\ status = "up"
  /\ current # "idle"
  /\ \E v \in Vector :
       /\ exception_handler(3, v)
       /\ odd' = IF v = 14 THEN odd ELSE v
  /\ UNCHANGED misled

(* In a system call or for a key the kernel touches a page that is not there. *)
kernel_fault ==
  /\ status = "up"
  /\ IF NoRoom THEN Ends("wild") /\ UNCHANGED misled
     ELSE exception_handler(0, 14) /\ misled' = "touched"
  /\ UNCHANGED odd

(* create_task for the task that is followed. *)
create_task ==
  /\ status = "up"
  /\ ~alive
  /\ alive' = TRUE
  /\ esp' = [esp EXCEPT !.user = 0]
  /\ stack' = <<>> /\ ebp' = 0 /\ depth' = 0
  /\ phase' = "entry" /\ program' = "fine" /\ bare' = FALSE
  /\ UNCHANGED <<current, status, resumes, odd, misled>>

-----------------------------------------------------------------------------
(***************************************************************************)
(* The user task's own instructions, as the compiler lays out calls.  A    *)
(* push onto a full stack overwrites code.                                 *)
(***************************************************************************)
push(word, from, to) ==
  /\ phase \in from
  /\ Len(stack) < USTACK
  /\ stack' = Append(stack, word)
  /\ phase' = to
  /\ UNCHANGED <<alive, program, bare>>

overflow ==
  /\ phase \in {"entry", "called", "body", "calling"}
  /\ Len(stack) = USTACK
  /\ program' = "strayed"
  /\ UNCHANGED <<alive, stack, ebp, depth, phase, bare>>

argument == push(Word("arg"), {"body"}, "calling") /\ UNCHANGED <<ebp, depth>>

call == push(Word("ret"), {"calling"}, "called") /\ depth' = depth + 1 /\ UNCHANGED ebp

push_ebp ==
  push([tag |-> "ebp", at |-> ebp], {"entry", "called"}, "pushed") /\ UNCHANGED <<ebp, depth>>

(* mov %esp, %ebp, in a function that will end in `leave' or in pop %ebp. *)
mov_ebp ==
  /\ phase = "pushed"
  /\ ebp' = Len(stack)
  /\ phase' \in {"body", "leaf"} /\ (depth = 0 => phase' = "body")
  /\ UNCHANGED <<alive, stack, depth, program, bare>>

Expects(i, tag) == program' = IF At(i).tag = tag THEN program ELSE "strayed"

(* A function takes its argument from 8(%ebp). *)
use_argument ==
  /\ phase \in {"body", "leaf"} /\ depth > 0
  /\ Expects(ebp - 2, "arg")
  /\ UNCHANGED <<alive, stack, ebp, depth, phase, bare>>

leave ==
  /\ phase = "body" /\ depth > 0
  /\ Expects(ebp, "ebp")
  /\ stack' = SubSeq(stack, 1, ebp - 1)
  /\ ebp' = At(ebp).at
  /\ phase' = "leaving"
  /\ UNCHANGED <<alive, depth, bare>>

pop_ebp ==
  /\ phase = "leaf"
  /\ Expects(Len(stack), "ebp")
  /\ stack' = SubSeq(stack, 1, Len(stack) - 1)
  /\ ebp' = At(Len(stack)).at
  /\ phase' = "leaving"
  /\ UNCHANGED <<alive, depth, bare>>

(* ret, and the caller's removal of the argument. *)
ret ==
  /\ phase = "leaving"
  /\ Expects(Len(stack), "ret")
  /\ stack' = SubSeq(stack, 1, Len(stack) - 2)
  /\ depth' = depth - 1
  /\ phase' = "body"
  /\ UNCHANGED <<alive, ebp, bare>>

user_code ==
  /\ status = "up"
  /\ current = "user"
  /\ program = "fine"
  /\ \/ argument \/ call \/ push_ebp \/ mov_ebp \/ overflow
     \/ use_argument \/ leave \/ pop_ebp \/ ret
  /\ UNCHANGED <<current, esp, status, resumes, odd, misled>>

Init ==
  /\ current = "idle"
  /\ esp = [user |-> 0, idle |-> IDLE_USE]
  /\ status = "up"
  /\ alive = FALSE
  /\ stack = <<>> /\ ebp = 0 /\ depth = 0
  /\ phase = "entry" /\ program = "fine" /\ bare = FALSE
  /\ resumes = 0
  /\ odd = 32
  /\ misled = "no"

Next ==
  \/ timer_interrupt_handler \/ syscall_handler \/ user_exception \/ kernel_fault
  \/ create_task \/ user_code

Spec == Init /\ [][Next]_vars
-----------------------------------------------------------------------------
TypeOK ==
  /\ current \in Task
  /\ esp \in [user : 0 .. USTACK, idle : IDLE_USE .. ISTACK - HANDLER + 2]
  /\ status \in {"up", "halted", "wild"}
  /\ {alive, bare} \subseteq BOOLEAN
  /\ stack \in Seq([tag : {"arg", "ret", "ebp", "ds"}, at : 0 .. USTACK]) /\ Len(stack) <= USTACK
  /\ {ebp, depth} \subseteq 0 .. USTACK
  /\ phase \in {"entry", "calling", "called", "pushed", "body", "leaf", "leaving"}
  /\ program \in {"fine", "strayed"}
  /\ resumes \in Nat
  /\ odd \in 0 .. 32
  /\ misled \in {"no", "touched", "overwrote"}

(* A program strays only if it was resumed between two instructions of a call  *)
(* or a return or in a function that ends in pop %ebp, or with less than five  *)
(* words of its stack to spare.  A task that is resumed in the body of any     *)
(* other function, after a system call for one, comes to no harm: `leave'      *)
(* removes the extra word with the frame (scheduler.s:12-16). *)
StraysOnlyIfBare == program = "strayed" => bare \/ Len(stack) + 5 > USTACK

(* What takes the kernel down, as long as no program has strayed.  It halts    *)
(* when it touches what is not mapped (idt.c:33-37), or when a program causes  *)
(* an exception without an error code (idt.s:13-18).  It runs wild when it     *)
(* overwrites itself for a program, after an exception with a code that is no  *)
(* page fault (idt.s:7-9), or when the resumes of idle have used up the boot   *)
(* stack: what load_context saves is exact, and each iret of                   *)
(* restore_task_context leaves two words behind (scheduler.c:68,               *)
(* scheduler.s:12-25). *)
KernelLossExplained ==
  program = "fine" =>
    /\ status = "halted" => misled = "touched" \/ odd \notin HasCode \cup {32}
    /\ status = "wild" => \/ misled = "overwrote"
                          \/ odd \in HasCode
                          \/ IDLE_USE + 2 * resumes + HANDLER > ISTACK
=============================================================================
