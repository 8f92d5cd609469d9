--------------------------------- MODULE Tty ---------------------------------
(***************************************************************************)
(* The terminal device (kernel/tty.c): the stdin buffer between the        *)
(* keyboard interrupt and the read system call, the one waiter the         *)
(* scheduler keeps for it, and the cursor that echo and the write system   *)
(* call move.                                                              *)
(*                                                                         *)
(* Handlers run with interrupts off, so each is one action.  A read that   *)
(* finds no line puts its task to sleep with eip moved back onto the       *)
(* int 0x80 (scheduler.c:85): once woken, the task makes the whole call    *)
(* again.  Which awake task runs is left open here; Scheduler models it.   *)
(*                                                                         *)
(* `accepted' and `delivered' record what was stored in the buffer and     *)
(* what reads returned.  Slip_ operators are as in Scheduler.              *)
(***************************************************************************)
EXTENDS Integers, Sequences

CONSTANTS
  Reader,      \* the tasks that read stdin
  NULL,
  Char, NL,    \* what the keyboard sends, newline among it
  NUL,         \* the initial content of the static buffer
  SIZE,        \* STDIN_BUFFER_SIZE
  WIDTH,       \* VGA_WIDTH
  HEIGHT,      \* VGA_HEIGHT
  Text,        \* the strings programs write
  LEN_BOUND,   \* the largest length passed to read
  TYPED_BOUND, \* how many characters are stored before the model stops typing
  ROW_BOUND    \* the last row the model moves the cursor to

ASSUME TtyAssumption ==
  /\ NULL \notin Reader
  /\ NL \in Char
  /\ NUL \notin Char
  /\ SIZE \in Nat \ {0} /\ WIDTH \in Nat \ {0} /\ HEIGHT \in Nat \ {0}
  /\ Text \subseteq Seq(Char)
  /\ LEN_BOUND \in Nat /\ TYPED_BOUND \in Nat /\ ROW_BOUND \in Nat

VARIABLES
  stdin_buffer, buffer_head, buffer_tail,
  echo,                          \* flags & ECHO_FLAG, one word for all tasks
  awaiting_stdin,                \* scheduler.c: the task a newline wakes
  asleep,                        \* the readers with status TASK_SLEEP
  terminal_row, terminal_column,
  accepted, delivered            \* history

buffer == <<stdin_buffer, buffer_head, buffer_tail, accepted, delivered>>
waiters == <<awaiting_stdin, asleep>>
cursor == <<terminal_row, terminal_column>>
vars == <<buffer, echo, waiters, cursor>>

-----------------------------------------------------------------------------
(* terminal_putchar on the cursor <<row, column>>.  A newline moves down      *)
(* without looking at VGA_HEIGHT; a full line does look, but only for equality. *)
putchar(cur, c) ==
  IF c # NL /\ cur[2] + 1 # WIDTH THEN <<cur[1], cur[2] + 1>>
  ELSE IF c # NL /\ cur[1] + 1 = HEIGHT THEN <<0, 0>> ELSE <<cur[1] + 1, 0>>

(* The cursor before each character of text, and behind the last. *)
Cursors(cur, text) ==
  LET before[i \in 1 .. Len(text) + 1] ==
        IF i = 1 THEN cur ELSE putchar(before[i - 1], text[i - 1])
  IN before

(* terminal_write: one character after the other. *)
terminal_write(s) ==
  LET cur == Cursors(cursor, s)[Len(s) + 1]
  IN /\ cur[1] <= ROW_BOUND
     /\ terminal_row' = cur[1]
     /\ terminal_column' = cur[2]

(* stdin_buffer_has_line: nothing is seen when the head is not below the tail. *)
stdin_buffer_has_line ==
  \E i \in buffer_head .. buffer_tail - 1 : stdin_buffer[i] = NL

(* What tty_read would return without a limit: from the head to the tail,    *)
(* past the end of the array when the head is above the tail. *)
Slot(i) == IF i < SIZE THEN i ELSE i - SIZE

Pending ==
  LET n == IF buffer_head <= buffer_tail THEN buffer_tail - buffer_head
           ELSE SIZE - buffer_head + buffer_tail
  IN [i \in 1 .. n |-> stdin_buffer[Slot(buffer_head + i - 1)]]

-----------------------------------------------------------------------------
Init ==
  /\ stdin_buffer = [i \in 0 .. SIZE - 1 |-> NUL]
  /\ buffer_head = 0
  /\ buffer_tail = 0
  /\ echo = FALSE
  /\ awaiting_stdin = NULL
  /\ asleep = {}
  /\ terminal_row = 0
  /\ terminal_column = 0
  /\ accepted = <<>>
  /\ delivered = <<>>

Slip_stored(c) ==
  [buf  |-> [stdin_buffer EXCEPT ![buffer_tail % SIZE] = c],
   tail |-> (buffer_tail % SIZE) + 1]

(* The array and the tail after the two `if's of write_tty_buffer.  A full    *)
(* buffer starts again at 0 only if it has been read to its end, and the head *)
(* stays where it is. *)
stored(c) ==
  LET room  == buffer_tail < SIZE
      tail  == IF room THEN buffer_tail + 1 ELSE buffer_tail
      buf   == IF room THEN [stdin_buffer EXCEPT ![buffer_tail] = c] ELSE stdin_buffer
      again == tail >= SIZE /\ buffer_head = tail
  IN [buf  |-> IF again THEN [buf EXCEPT ![0] = c] ELSE buf,
      tail |-> IF again THEN 1 ELSE tail]

(* The character is dropped when the buffer is full and not read to its end. *)
HasRoom == buffer_tail < SIZE \/ buffer_head = buffer_tail

Slip_store_and_wake(c) ==
  \/ /\ awaiting_stdin = NULL
     /\ UNCHANGED <<buffer, waiters>>
  \/ /\ awaiting_stdin # NULL
     /\ Len(accepted) < TYPED_BOUND
     /\ stdin_buffer' = stored(c).buf
     /\ buffer_tail' = stored(c).tail
     /\ accepted' = IF HasRoom THEN Append(accepted, c) ELSE accepted
     /\ UNCHANGED <<buffer_head, delivered, waiters>>

(* write_tty_buffer stores what is typed only while some task waits, and a    *)
(* newline ends the wait even if the buffer had no room for it. *)
store_and_wake(c) ==
  \/ /\ awaiting_stdin = NULL
     /\ UNCHANGED <<buffer, waiters>>
  \/ /\ awaiting_stdin # NULL
     /\ Len(accepted) < TYPED_BOUND
     /\ stdin_buffer' = stored(c).buf
     /\ buffer_tail' = stored(c).tail
     /\ accepted' = IF HasRoom THEN Append(accepted, c) ELSE accepted
     /\ IF c = NL
        THEN asleep' = asleep \ {awaiting_stdin} /\ awaiting_stdin' = NULL
        ELSE UNCHANGED waiters
     /\ UNCHANGED <<buffer_head, delivered>>

write_tty_buffer ==
  \E c \in Char :
    /\ IF echo THEN terminal_write(<<c>>) ELSE UNCHANGED cursor
    /\ store_and_wake(c)
    /\ UNCHANGED echo

(* tty_read of len bytes. *)
Slip_tty_read(len) ==
  LET n == IF len < Len(Pending) THEN len ELSE Len(Pending)
  IN /\ delivered' = delivered \o SubSeq(Pending, 1, n)
     /\ buffer_head' = 0
     /\ buffer_tail' = 0

tty_read(len) ==
  LET n == IF len < Len(Pending) THEN len ELSE Len(Pending)
  IN /\ delivered' = delivered \o SubSeq(Pending, 1, n)
     /\ buffer_head' = IF n = 0 THEN buffer_head ELSE Slot(buffer_head + n - 1) + 1
     /\ UNCHANGED buffer_tail

(* The SYS_READ case of syscall_handler: the task sleeps until a newline if   *)
(* there is no line.  Every descriptor of a task passes sys_read's test of     *)
(* its flags, so the descriptor makes no difference. *)
sys_read ==
  \E r \in Reader \ asleep, len \in 0 .. LEN_BOUND :
    /\ \/ /\ ~stdin_buffer_has_line
          /\ asleep' = asleep \cup {r}
          /\ awaiting_stdin' = r
          /\ UNCHANGED buffer
       \/ /\ stdin_buffer_has_line
          /\ tty_read(len)
          /\ UNCHANGED <<stdin_buffer, accepted, waiters>>
    /\ UNCHANGED <<echo, cursor>>

(* sys_write on stdout or stderr; on stdin it returns -1. *)
sys_write ==
  /\ \E s \in Text : terminal_write(s)
  /\ UNCHANGED <<buffer, echo, waiters>>

(* tty_ioctl: SET_FLAG_REQUEST or CLEAR_FLAG_REQUEST with ECHO_FLAG, whichever *)
(* task asks. *)
tty_ioctl == echo' \in BOOLEAN

(* sys_ioctl: every descriptor of a task has the terminal's operations. *)
sys_ioctl ==
  /\ tty_ioctl
  /\ UNCHANGED <<buffer, waiters, cursor>>

Next == write_tty_buffer \/ sys_read \/ sys_write \/ sys_ioctl

Spec == Init /\ [][Next]_vars
-----------------------------------------------------------------------------
TypeOK ==
  /\ stdin_buffer \in [0 .. SIZE - 1 -> Char \cup {NUL}]
  /\ buffer_head \in 0 .. SIZE
  /\ buffer_tail \in 0 .. SIZE
  /\ echo \in BOOLEAN
  /\ awaiting_stdin \in Reader \cup {NULL}
  /\ asleep \subseteq Reader
  /\ terminal_row \in 0 .. ROW_BOUND
  /\ terminal_column \in 0 .. WIDTH - 1
  /\ accepted \in Seq(Char)
  /\ delivered \in Seq(Char)

(* Reads return the stored characters once each and in the order they were   *)
(* typed, whichever tasks read and however short their reads are             *)
(* (tty.c:138-149, :161-172). *)
ReadsInOrder ==
  /\ Len(delivered) <= Len(accepted)
  /\ \A i \in 1 .. Len(delivered) : delivered[i] = accepted[i]

(* Over the whole life of the kernel reads return at most STDIN_BUFFER_SIZE  *)
(* characters: the array is used once (tty.c:140-148, :154). *)
DeliversOneBuffer == Len(delivered) <= SIZE

(* No task sleeps as the registered waiter while the buffer holds a line: a   *)
(* newline that is stored always wakes the waiter, and a read that sleeps has *)
(* seen that there is none (tty.c:149, idt.c:53). *)
NoSleepOnLine == awaiting_stdin # NULL => ~stdin_buffer_has_line

(* Once the tail has come to the end of the array with no line left before it, *)
(* no read returns anything again (tty.c:138-159).  Typing wakes readers, and *)
(* each goes back to sleep. *)
Jammed ==
  /\ ~stdin_buffer_has_line
  /\ buffer_tail = SIZE \/ buffer_head > buffer_tail

JamIsForEver == [][Jammed => (Jammed' /\ delivered' = delivered)]_vars
=============================================================================
