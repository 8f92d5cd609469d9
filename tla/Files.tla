-------------------------------- MODULE Files --------------------------------
(***************************************************************************)
(* Virtual files and descriptors: the tree of vnodes and open_file         *)
(* (kernel/filesystem/fs.c), the three files create_task opens and the     *)
(* reaper frees (kernel/scheduler/scheduler.c), the system calls that go   *)
(* through them (kernel/syscall), and the order in which kernel_main       *)
(* (kernel/kernel.c) sets all this up.                                     *)
(*                                                                         *)
(* kernel_main calls init_fs and leaves global_tty NULL; init_vfs, which   *)
(* sets it, is called by nobody.  Kernels says whether that kernel is      *)
(* meant, the one that calls init_vfs before init_scheduler, or either.  A *)
(* NULL vnode is read from address 0, which is mapped until kernel_main    *)
(* has dropped the identity mapping.                                       *)
(*                                                                         *)
(* Of kmalloc the model keeps that it returns a file_t nobody holds.       *)
(* Slip_ operators are as in Scheduler.                                    *)
(***************************************************************************)
EXTENDS Naturals, FiniteSets

CONSTANTS
  UserTask, Idle, Reaper,
  NULL,
  Kernels,     \* the values of with_vfs
  MAX_FD       \* the largest descriptor programs pass

KernelTask == {Idle, Reaper}
Task == UserTask \cup KernelTask

ASSUME FilesAssumption ==
  /\ IsFiniteSet(UserTask)
  /\ UserTask \cap KernelTask = {} /\ Idle # Reaper
  /\ NULL \notin Task \cup Nat \cup {"/", "dev", "tty"}
  /\ NULL \notin [ops : {"tty_ops", "junk"}, flags : {"RONLY", "WONLY"}]
  /\ Kernels \subseteq BOOLEAN
  /\ MAX_FD \in Nat

FD_STDIN == 0
Std == 0 .. 2                             \* FD_STDIN, FD_STDOUT, FD_STDERR
FileT == 1 .. 3 * Cardinality(Task)        \* the file_t kmalloc has to give
Node == {"/", "dev", "tty"}

VARIABLES
  with_vfs,     \* the kernel calls init_vfs; never changes
  stage,        \* of kernel_main: "boot", "sti" between enabling interrupts
                \* and dropping the identity mapping, "up"
  node,         \* the vnodes' links
  global_tty,
  file,         \* [ops, flags] of each file_t, NULL for one that is free
  fds,          \* task_t.fds, of which total_fds = 3 are ever set
  life,         \* of each task_t: "none", "live", or "dead" on the dead queue
  status,       \* "up", "halted" by the fault handler, or "wild"
  passed        \* history: what kinds of buffer programs passed to system calls,
                \* and "fd" if one passed a descriptor it does not have

vfs == <<with_vfs, node, global_tty>>
vfsvars == <<stage, vfs, file, fds, life, status, passed>>

-----------------------------------------------------------------------------
create_vnode == [parent |-> NULL, children |-> NULL, next_sibling |-> NULL]

LastSibling(n, child) ==
  LET after[i \in 0 .. Cardinality(Node)] ==
        IF i = 0 THEN child
        ELSE IF n[after[i - 1]].next_sibling = NULL THEN after[i - 1]
        ELSE n[after[i - 1]].next_sibling
  IN after[Cardinality(Node)]

mount_file_on_dir(n, f, dir) ==
  LET m == [n EXCEPT ![f].parent = dir]
  IN IF m[dir].children = NULL THEN [m EXCEPT ![dir].children = f]
     ELSE [m EXCEPT ![LastSibling(m, m[dir].children)].next_sibling = f]

init_vfs ==
  /\ node' = mount_file_on_dir(mount_file_on_dir([n \in Node |-> create_vnode], "tty", "dev"),
                               "dev", "/")
  /\ global_tty' = "tty"
  /\ UNCHANGED with_vfs

Slip_open_file(vnode, flags) == [ops |-> "junk", flags |-> flags]

(* open_file: of a NULL vnode it gets whatever address 0 holds. *)
open_file(vnode, flags) ==
  [ops |-> IF vnode = "tty" THEN "tty_ops" ELSE "junk", flags |-> flags]

(* The first three file_t that are free in fl. *)
Fresh(fl) == CHOOSE f \in [Std -> {x \in FileT : fl[x] = NULL}] :
               \A i, j \in Std : i < j => f[i] < f[j]

(* create_task on the files fl, when the terminal's vnode is v. *)
create_task(fl, v, f) ==
  [x \in FileT |-> IF \E fd \in Std : f[fd] = x
                   THEN open_file(v, IF x = f[FD_STDIN] THEN "RONLY" ELSE "WONLY")
                   ELSE fl[x]]

-----------------------------------------------------------------------------
(* kernel_main up to enable_interrupts. *)
kernel_main ==
  /\ stage = "boot"
  /\ IF with_vfs THEN init_vfs ELSE UNCHANGED vfs
  /\ LET f1 == Fresh(file)
         fl == create_task(file, global_tty', f1)
         f2 == Fresh(fl)
     IN /\ file' = create_task(fl, global_tty', f2)
        /\ fds' = [fds EXCEPT ![Idle] = f1, ![Reaper] = f2]
  /\ life' = [t \in Task |-> IF t \in KernelTask THEN "live" ELSE "none"]
  /\ stage' = "sti"
  /\ UNCHANGED <<status, passed>>

(* unmap_identity and reload_cr3. *)
unmap_identity ==
  /\ stage = "sti"
  /\ stage' = "up"
  /\ UNCHANGED <<vfs, file, fds, life, status, passed>>

(* `t' is typed.  Without the terminal's vnode and with address 0 unmapped     *)
(* open_file faults in ring 0. *)
enqueue_task ==
  /\ stage # "boot"
  /\ \E t \in UserTask :
       /\ life[t] = "none"
       /\ IF global_tty = NULL /\ stage = "up"
          THEN status' = "halted" /\ UNCHANGED <<file, fds, life>>
          ELSE /\ file' = create_task(file, global_tty, Fresh(file))
               /\ fds' = [fds EXCEPT ![t] = Fresh(file)]
               /\ life' = [life EXCEPT ![t] = "live"]
               /\ UNCHANGED status
  /\ UNCHANGED <<stage, vfs, passed>>

(* Where the bytes lie that a call gets to read or write at its buffer: in the  *)
(* program's own pages, where nothing is mapped, or in the kernel. *)
Buffer == {"mapped", "unmapped", "kernel"}

(* sys_write refuses what is open for reading.  WONLY_FLAG is 0, so the test    *)
(* of sys_read refuses nothing. *)
Refused(call, f) == call = "write" /\ f.flags = "RONLY"

(* What the terminal's op, and the strlen of sys_write, leave of the kernel     *)
(* when they use the buffer, in ring 0 and as it was passed.  tty_read stores   *)
(* there if there is input, writes only read, ioctl takes it for a number. *)
After(call, buffer) ==
  CASE call = "ioctl" \/ buffer = "mapped" -> {"up"}
    [] call = "read" /\ buffer = "unmapped" -> {"up", "halted"}
    [] call = "read" /\ buffer = "kernel" -> {"up", "wild"}
    [] call = "write" /\ buffer = "unmapped" -> {"halted"}
    [] call = "write" /\ buffer = "kernel" -> {"up"}

(* sys_read, sys_write and sys_ioctl take the file from fds without looking at *)
(* total_fds, and call through its ops; a pointer that is none leads anywhere. *)
(* What the terminal does with its buffer and flags is in Tty. *)
syscall ==
  /\ stage # "boot"
  /\ \E t \in UserTask, fd \in 0 .. MAX_FD, call \in {"read", "write", "ioctl"}, buffer \in Buffer :
       LET f == IF fd \in Std THEN file[fds[t][fd]] ELSE NULL
       IN /\ life[t] = "live"
          /\ status' \in IF f = NULL THEN {"up", "halted", "wild"}
                         ELSE IF Refused(call, f) THEN {"up"}
                         ELSE IF f.ops = "junk" THEN {"up", "halted", "wild"}
                         ELSE After(call, buffer)
          /\ passed' = passed \cup {buffer} \cup (IF fd \in Std THEN {} ELSE {"fd"})
  /\ UNCHANGED <<stage, vfs, file, fds, life>>

task_exit ==
  /\ stage # "boot"
  /\ \E t \in UserTask : life[t] = "live" /\ life' = [life EXCEPT ![t] = "dead"]
  /\ UNCHANGED <<stage, vfs, file, fds, status, passed>>

Slip_Freed(t) == {fds[t][fd] : fd \in Std \ {FD_STDIN}}

Freed(t) == {fds[t][fd] : fd \in Std}

(* reaper_task_loop frees the files, the stack and the task_t of the dead. *)
reaper_task_loop ==
  LET Dead == {t \in UserTask : life[t] = "dead"}
  IN /\ Dead # {}
     /\ file' = [x \in FileT |-> IF \E t \in Dead : x \in Freed(t) THEN NULL ELSE file[x]]
     /\ life' = [t \in Task |-> IF t \in Dead THEN "none" ELSE life[t]]
     /\ UNCHANGED <<stage, vfs, fds, status, passed>>

VfsInit ==
  /\ with_vfs \in Kernels
  /\ stage = "boot"
  /\ node = [n \in Node |-> NULL]
  /\ global_tty = NULL
  /\ file = [x \in FileT |-> NULL]
  /\ fds = [t \in Task |-> [fd \in Std |-> NULL]]
  /\ life = [t \in Task |-> "none"]
  /\ status = "up"
  /\ passed = {}

VfsNext ==
  /\ status = "up"
  /\ \/ kernel_main \/ unmap_identity \/ enqueue_task \/ syscall \/ task_exit
     \/ reaper_task_loop

VfsSpec == VfsInit /\ [][VfsNext]_vfsvars
-----------------------------------------------------------------------------
VfsTypeOK ==
  /\ with_vfs \in Kernels
  /\ stage \in {"boot", "sti", "up"}
  /\ node \in [Node -> [parent : Node \cup {NULL}, children : Node \cup {NULL},
                        next_sibling : Node \cup {NULL}] \cup {NULL}]
  /\ global_tty \in {"tty", NULL}
  /\ file \in [FileT -> [ops : {"tty_ops", "junk"}, flags : {"RONLY", "WONLY"}] \cup {NULL}]
  /\ fds \in [Task -> [Std -> FileT \cup {NULL}]]
  /\ life \in [Task -> {"none", "live", "dead"}]
  /\ status \in {"up", "halted", "wild"}
  /\ passed \subseteq Buffer \cup {"fd"}

(* The file_t a task's descriptors lead to. *)
Holds(t) == {fds[t][fd] : fd \in Std}

(* No file_t is lost, shared or freed while a task has it: those in use are    *)
(* the three of each task that is not freed, its own and no other's, through   *)
(* every order of starts, exits and rounds of the reaper (scheduler.c:169-172, *)
(* :240-246). *)
FilesAccounted ==
  LET There == {t \in Task : life[t] # "none"}
  IN /\ {x \in FileT : file[x] # NULL} = UNION {Holds(t) : t \in There}
     /\ Cardinality(UNION {Holds(t) : t \in There}) = 3 * Cardinality(There)

(* What takes the kernel down in these paths: a program passed a descriptor it *)
(* does not have, or a buffer that is not its own memory, or init_vfs was not   *)
(* called and a program is started or uses its files.  An unmapped buffer only  *)
(* halts the kernel, one in the kernel only lets a read overwrite it            *)
(* (read.c:6-11, write.c:6-12, ioctl.c:5-10, tty.c:164-173, fs.c:238,           *)
(* kernel.c:45-50). *)
LossExplained ==
  LET NoTty == ~with_vfs /\ (stage = "up" \/ \E t \in UserTask : life[t] = "live")
  IN /\ status = "halted" => passed \cap {"fd", "unmapped"} # {} \/ NoTty
     /\ status = "wild" => passed \cap {"fd", "kernel"} # {} \/ NoTty
=============================================================================
