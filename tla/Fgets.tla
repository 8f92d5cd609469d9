-------------------------------- MODULE Fgets --------------------------------
(***************************************************************************)
(* fgets of the C library (userspace/libc/stdio/fgets.c) in several tasks  *)
(* at once: it turns echo on in the terminal's one word of flags           *)
(* (tty_ioctl, kernel/tty.c), sleeps in read, and turns it off again.      *)
(*                                                                         *)
(* The word it passes is a local variable that is never initialised, with  *)
(* the echo bit or'ed in.  The invariants are proved in TtyProofs.         *)
(***************************************************************************)
CONSTANTS
  Task,
  ECHO_FLAG,
  OtherFlag    \* bits of the word without a meaning

Flag == {ECHO_FLAG} \cup OtherFlag

VARIABLES
  flags,       \* the terminal's flags
  local,       \* the variable `flags' of each task's call
  pc,          \* the statement of fgets each task is at, "out" outside of it
  overtaken    \* history: since the task's call set the flags another task's
               \* call has cleared some

fgetsvars == <<flags, local, pc, overtaken>>

at(t, from, to) == pc[t] = from /\ pc' = [pc EXCEPT ![t] = to]

fgets(t) ==
  /\ at(t, "out", "set")
  /\ \E garbage \in SUBSET Flag : local' = [local EXCEPT ![t] = garbage \cup {ECHO_FLAG}]
  /\ UNCHANGED <<flags, overtaken>>

set_flag(t) ==
  /\ at(t, "set", "read")
  /\ flags' = flags \cup local[t]
  /\ overtaken' = [overtaken EXCEPT ![t] = FALSE]
  /\ UNCHANGED local

(* read returns, sooner or later. *)
fgets_read(t) ==
  /\ at(t, "read", "clear")
  /\ UNCHANGED <<flags, local, overtaken>>

clear_flag(t) ==
  /\ at(t, "clear", "out")
  /\ flags' = flags \ local[t]
  /\ overtaken' = [u \in Task |-> u # t \/ overtaken[u]]
  /\ UNCHANGED local

FgetsInit ==
  /\ flags = {}
  /\ local = [t \in Task |-> {}]
  /\ pc = [t \in Task |-> "out"]
  /\ overtaken = [t \in Task |-> FALSE]

FgetsNext == \E t \in Task : fgets(t) \/ set_flag(t) \/ fgets_read(t) \/ clear_flag(t)

FgetsSpec == FgetsInit /\ [][FgetsNext]_fgetsvars
-----------------------------------------------------------------------------
FgetsTypeOK ==
  /\ flags \subseteq Flag
  /\ local \in [Task -> SUBSET Flag]
  /\ pc \in [Task -> {"out", "set", "read", "clear"}]
  /\ overtaken \in [Task -> BOOLEAN]
  /\ \A t \in Task : pc[t] # "out" => ECHO_FLAG \in local[t]

(* The terminal echoes while a task is in its read, unless another task's      *)
(* fgets has come to its end in the meantime: the flag is one for all tasks    *)
(* and nobody counts who wants it (fgets.c:9-11, tty.c:184-189). *)
EchoUnlessOvertaken ==
  \A t \in Task : (pc[t] = "read" /\ ECHO_FLAG \notin flags) => overtaken[t]

(* Whatever the uninitialised word holds and however the calls overlap, no bit *)
(* stays set once the calls are over (fgets.c:7-11): each one clears what it   *)
(* has set. *)
FlagsAreCleared ==
  flags \subseteq UNION {local[t] : t \in {u \in Task : pc[u] \in {"read", "clear"}}}
=============================================================================
