------------------------------ MODULE TtyProofs ------------------------------
(***************************************************************************)
(* Proofs about the terminal: its stdin buffer (Tty), for any buffer size, *)
(* any number of readers and any lengths of reads; the buffer and the      *)
(* faults of the screen together (Console), for any texts and any font;    *)
(* and the flags that fgets sets (Fgets), for any tasks and any bits.      *)
(*                                                                         *)
(* The invariant of the buffer has two cases.  Before the array is used    *)
(* up, what was accepted is the array below the tail and what was          *)
(* delivered is the array below the head.  Afterwards the head stays at    *)
(* the end, and only the histories tell what the readers saw.              *)
(*                                                                         *)
(* The screen needs that the cursor stays in a column of the terminal,     *)
(* which is proved by the least length of a text that takes it out.        *)
(***************************************************************************)
EXTENDS Console, Fgets, SequenceTheorems, WellFoundedInduction, TLAPS

BufferType ==
  /\ stdin_buffer \in [0 .. SIZE - 1 -> Char \cup {NUL}]
  /\ buffer_head \in 0 .. SIZE
  /\ buffer_tail \in 0 .. SIZE
  /\ accepted \in Seq(Char)
  /\ delivered \in Seq(Char)

FirstPass ==
  /\ buffer_head <= buffer_tail
  /\ Len(accepted) = buffer_tail
  /\ Len(delivered) = buffer_head
  /\ \A i \in 1 .. buffer_tail : accepted[i] = stdin_buffer[i - 1]
  /\ \A i \in 1 .. buffer_head : delivered[i] = stdin_buffer[i - 1]

UsedUp ==
  /\ buffer_head = SIZE
  /\ Len(delivered) = SIZE
  /\ Len(accepted) >= SIZE
  /\ \A i \in 1 .. SIZE : delivered[i] = accepted[i]

BufInv == BufferType /\ (FirstPass \/ UsedUp) /\ NoSleepOnLine

(* In both cases the reads were in order and there were at most SIZE of them. *)
LEMMA BufImplies == BufInv => ReadsInOrder /\ DeliversOneBuffer
  BY TtyAssumption DEF BufInv, BufferType, FirstPass, UsedUp, ReadsInOrder, DeliversOneBuffer

(* A line can only be seen before the array is used up. *)
LEMMA LineMeansFirstPass ==
  ASSUME BufInv, stdin_buffer_has_line
  PROVE  FirstPass /\ buffer_head < buffer_tail
  BY TtyAssumption DEF BufInv, BufferType, FirstPass, UsedUp, stdin_buffer_has_line

(* The empty buffer satisfies the invariant. *)
LEMMA BufInit == Init => BufInv
<1> SUFFICES ASSUME Init PROVE BufInv
  OBVIOUS
<1>1. BufferType
  BY TtyAssumption DEF Init, BufferType
<1>2. FirstPass
  BY TtyAssumption DEF Init, FirstPass
<1> QED BY <1>1, <1>2 DEF BufInv, NoSleepOnLine, Init

(* What write_tty_buffer does to the array and the tail. *)
LEMMA Stored ==
  ASSUME BufInv, NEW c \in Char
  PROVE  \/ /\ buffer_tail < SIZE /\ buffer_head <= buffer_tail
            /\ stored(c).buf = [stdin_buffer EXCEPT ![buffer_tail] = c]
            /\ stored(c).tail = buffer_tail + 1 /\ HasRoom
         \/ /\ buffer_tail = SIZE /\ buffer_head < SIZE
            /\ stored(c).buf = stdin_buffer
            /\ stored(c).tail = buffer_tail /\ ~HasRoom
         \/ /\ buffer_head = SIZE
            /\ stored(c).buf \in [0 .. SIZE - 1 -> Char \cup {NUL}]
            /\ stored(c).tail \in 1 .. SIZE /\ HasRoom
<1> DEFINE room == buffer_tail < SIZE
           tail == IF room THEN buffer_tail + 1 ELSE buffer_tail
           buf == IF room THEN [stdin_buffer EXCEPT ![buffer_tail] = c] ELSE stdin_buffer
           again == tail >= SIZE /\ buffer_head = tail
<1>1. /\ stored(c).buf = IF again THEN [buf EXCEPT ![0] = c] ELSE buf
      /\ stored(c).tail = IF again THEN 1 ELSE tail
  BY DEF stored
<1>2. /\ SIZE \in Nat \ {0} /\ buffer_head \in 0 .. SIZE /\ buffer_tail \in 0 .. SIZE
      /\ stdin_buffer \in [0 .. SIZE - 1 -> Char \cup {NUL}]
      /\ buffer_head <= buffer_tail \/ buffer_head = SIZE
  BY TtyAssumption DEF BufInv, BufferType, FirstPass, UsedUp
<1>3. CASE buffer_head = SIZE
  <2>1. buf \in [0 .. SIZE - 1 -> Char \cup {NUL}]
    BY <1>2
  <2> HIDE DEF buf
  <2>2. stored(c).buf \in [0 .. SIZE - 1 -> Char \cup {NUL}]
    BY <1>1, <1>2, <2>1
  <2>3. stored(c).tail \in 1 .. SIZE /\ HasRoom
    BY <1>1, <1>2, <1>3 DEF HasRoom
  <2> QED BY <1>3, <2>2, <2>3
<1>4. CASE buffer_head # SIZE /\ room
  BY <1>1, <1>2, <1>4 DEF HasRoom
<1>5. CASE buffer_head # SIZE /\ ~room
  BY <1>1, <1>2, <1>5 DEF HasRoom
<1> QED BY <1>3, <1>4, <1>5

(* write_tty_buffer of one character preserves the invariant. *)
LEMMA StoreKeeps ==
  ASSUME BufInv, NEW c \in Char, store_and_wake(c)
  PROVE  BufInv' /\ (Jammed => Jammed' /\ delivered' = delivered)
<1> USE TtyAssumption
<1>1. CASE UNCHANGED <<buffer, waiters>>
  BY <1>1 DEF BufInv, BufferType, FirstPass, UsedUp, NoSleepOnLine, stdin_buffer_has_line,
              buffer, waiters, Jammed
<1>2. CASE /\ awaiting_stdin # NULL
           /\ stdin_buffer' = stored(c).buf
           /\ buffer_tail' = stored(c).tail
           /\ accepted' = IF HasRoom THEN Append(accepted, c) ELSE accepted
           /\ UNCHANGED <<buffer_head, delivered>>
  <2>1. ~stdin_buffer_has_line
    BY <1>2 DEF BufInv, NoSleepOnLine
  <2>2. c # NL => UNCHANGED waiters
    BY <1>2 DEF store_and_wake
  <2>3. c = NL => awaiting_stdin' = NULL
    BY <1>2 DEF store_and_wake
  <2>4. CASE /\ buffer_tail < SIZE /\ buffer_head <= buffer_tail
             /\ stored(c).buf = [stdin_buffer EXCEPT ![buffer_tail] = c]
             /\ stored(c).tail = buffer_tail + 1 /\ HasRoom
    <3>1. FirstPass
      BY <2>4 DEF BufInv, UsedUp, BufferType
    <3>2. /\ stdin_buffer' = [stdin_buffer EXCEPT ![buffer_tail] = c]
          /\ buffer_tail' = buffer_tail + 1
          /\ accepted' = Append(accepted, c)
      BY <1>2, <2>4
    <3>3. BufferType'
      BY <1>2, <2>4, <3>2 DEF BufInv, BufferType
    <3>4. FirstPass'
      BY <1>2, <2>4, <3>1, <3>2 DEF BufInv, BufferType, FirstPass
    <3>5. NoSleepOnLine'
      BY <1>2, <2>1, <2>2, <2>3, <2>4, <3>2
         DEF BufInv, BufferType, NoSleepOnLine, stdin_buffer_has_line
    <3>6. ~Jammed
      BY <2>4 DEF Jammed, BufInv, BufferType
    <3> QED BY <3>3, <3>4, <3>5, <3>6 DEF BufInv
  <2>5. CASE /\ buffer_tail = SIZE /\ buffer_head < SIZE
             /\ stored(c).buf = stdin_buffer
             /\ stored(c).tail = buffer_tail /\ ~HasRoom
    <3>1. UNCHANGED <<stdin_buffer, buffer_tail, buffer_head, accepted, delivered>>
      BY <1>2, <2>5
    <3> QED BY <2>1, <3>1 DEF BufInv, BufferType, FirstPass, UsedUp, NoSleepOnLine,
                              stdin_buffer_has_line, Jammed
  <2>6. CASE /\ buffer_head = SIZE
             /\ stored(c).buf \in [0 .. SIZE - 1 -> Char \cup {NUL}]
             /\ stored(c).tail \in 1 .. SIZE /\ HasRoom
    <3>1. UsedUp
      BY <2>6 DEF BufInv, BufferType, FirstPass, UsedUp
    <3>2. accepted' = Append(accepted, c)
      BY <1>2, <2>6
    <3>3. BufferType'
      BY <1>2, <2>6, <3>2 DEF BufInv, BufferType
    <3>4. UsedUp'
      BY <1>2, <3>1, <3>2 DEF BufInv, BufferType, UsedUp
    <3>5. ~stdin_buffer_has_line'
      BY <1>2, <2>6 DEF stdin_buffer_has_line
    <3>6. Jammed'
      BY <1>2, <2>6, <3>5 DEF Jammed
    <3> QED BY <1>2, <3>3, <3>4, <3>5, <3>6 DEF BufInv, NoSleepOnLine
  <2> QED BY <2>4, <2>5, <2>6, Stored
<1> QED BY <1>1, <1>2 DEF store_and_wake

(* A read that finds a line moves the head up inside the array. *)
LEMMA ReadKeeps ==
  ASSUME BufInv, stdin_buffer_has_line, NEW len \in 0 .. LEN_BOUND, tty_read(len),
         UNCHANGED <<stdin_buffer, accepted, waiters>>
  PROVE  BufInv'
<1> USE TtyAssumption
<1> DEFINE n == IF len < Len(Pending) THEN len ELSE Len(Pending)
<1>1. FirstPass /\ buffer_head < buffer_tail /\ BufferType
  BY LineMeansFirstPass DEF BufInv
<1>2. /\ Pending \in Seq(Char \cup {NUL})
      /\ Len(Pending) = buffer_tail - buffer_head
      /\ \A i \in 1 .. buffer_tail - buffer_head : Pending[i] = stdin_buffer[buffer_head + i - 1]
  <2>1. Pending = [i \in 1 .. buffer_tail - buffer_head |->
                     stdin_buffer[Slot(buffer_head + i - 1)]]
    BY <1>1 DEF Pending, BufferType
  <2>2. \A i \in 1 .. buffer_tail - buffer_head :
          /\ Slot(buffer_head + i - 1) = buffer_head + i - 1
          /\ buffer_head + i - 1 \in 0 .. SIZE - 1
    BY <1>1 DEF BufferType, Slot
  <2>3. buffer_tail - buffer_head \in Nat
    BY <1>1 DEF BufferType
  <2>4. \A i \in 1 .. buffer_tail - buffer_head :
          stdin_buffer[Slot(buffer_head + i - 1)] \in Char \cup {NUL}
    BY <1>1, <2>2 DEF BufferType
  <2>5. Pending \in Seq(Char \cup {NUL})
    BY <2>1, <2>3, <2>4, IsASeq
  <2>6. DOMAIN Pending = 1 .. buffer_tail - buffer_head
    BY <2>1
  <2>7. Len(Pending) = buffer_tail - buffer_head
    BY <2>3, <2>5, <2>6, LenProperties
  <2> QED BY <2>1, <2>2, <2>5, <2>7
<1>3. n \in 0 .. buffer_tail - buffer_head
  BY <1>1, <1>2 DEF BufferType
<1>4. delivered' = delivered \o SubSeq(Pending, 1, n)
  BY DEF tty_read
<1>5. buffer_head' = buffer_head + n /\ buffer_tail' = buffer_tail
  <2>1. n # 0 => Slot(buffer_head + n - 1) = buffer_head + n - 1
    BY <1>1, <1>3 DEF BufferType, Slot
  <2>2. /\ buffer_head' = IF n = 0 THEN buffer_head ELSE Slot(buffer_head + n - 1) + 1
        /\ buffer_tail' = buffer_tail
    BY DEF tty_read
  <2> HIDE DEF n
  <2> QED BY <1>1, <1>3, <2>1, <2>2 DEF BufferType
<1> HIDE DEF n
<1>6. \A i \in 1 .. n : Pending[i] \in Char
  <2> SUFFICES ASSUME NEW i \in 1 .. n PROVE Pending[i] \in Char
    OBVIOUS
  <2>1. i \in 1 .. buffer_tail - buffer_head /\ buffer_head + i \in 1 .. buffer_tail
    BY <1>1, <1>3 DEF BufferType
  <2>2. Pending[i] = accepted[buffer_head + i]
    <3>1. Pending[i] = stdin_buffer[buffer_head + i - 1]
      BY <1>2, <2>1
    <3>2. accepted[buffer_head + i] = stdin_buffer[buffer_head + i - 1]
      BY <1>1, <2>1 DEF FirstPass
    <3> QED BY <3>1, <3>2, Zenon
  <2>3. accepted[buffer_head + i] \in Char
    BY <1>1, <2>1, ElementOfSeq DEF FirstPass, BufferType
  <2> QED BY <2>2, <2>3
<1>7. /\ SubSeq(Pending, 1, n) \in Seq(Char)
      /\ Len(SubSeq(Pending, 1, n)) = n
      /\ \A i \in 1 .. n : SubSeq(Pending, 1, n)[i] = Pending[i]
  BY <1>1, <1>2, <1>3, <1>6 DEF BufferType
<1>8. /\ delivered' \in Seq(Char)
      /\ Len(delivered') = buffer_head + n
      /\ \A i \in 1 .. buffer_head : delivered'[i] = delivered[i]
      /\ \A i \in buffer_head + 1 .. buffer_head + n : delivered'[i] = Pending[i - buffer_head]
  <2> DEFINE t == SubSeq(Pending, 1, n)
  <2>1. delivered \in Seq(Char) /\ t \in Seq(Char) /\ Len(delivered) = buffer_head /\ Len(t) = n
    BY <1>1, <1>7 DEF BufferType, FirstPass
  <2>2. \A i \in 1 .. n : t[i] = Pending[i]
    BY <1>7
  <2> HIDE DEF t
  <2>3. /\ delivered \o t \in Seq(Char)
        /\ Len(delivered \o t) = buffer_head + n
        /\ \A i \in 1 .. buffer_head + n :
             (delivered \o t)[i] = IF i <= buffer_head THEN delivered[i] ELSE t[i - buffer_head]
    BY <2>1, ConcatProperties, ZenonT(60)
  <2>4. delivered' = delivered \o t
    BY <1>4 DEF t
  <2>5. \A i \in buffer_head + 1 .. buffer_head + n : i - buffer_head \in 1 .. n
    BY <1>1, <1>3 DEF BufferType
  <2> QED BY <1>1, <1>3, <2>2, <2>3, <2>4, <2>5 DEF BufferType
<1>9. BufferType'
  BY <1>1, <1>3, <1>5, <1>8 DEF BufferType
<1>10. FirstPass'
  <2>1. \A i \in buffer_head + 1 .. buffer_head + n : delivered'[i] = stdin_buffer[i - 1]
    <3> SUFFICES ASSUME NEW i \in buffer_head + 1 .. buffer_head + n
                 PROVE  delivered'[i] = stdin_buffer[i - 1]
      OBVIOUS
    <3>1. i - buffer_head \in 1 .. buffer_tail - buffer_head
          /\ buffer_head + (i - buffer_head) - 1 = i - 1
      BY <1>1, <1>3 DEF BufferType
    <3> QED BY <1>2, <1>8, <3>1
  <2>2. \A i \in 1 .. buffer_head + n : delivered'[i] = stdin_buffer[i - 1]
    BY <1>1, <1>3, <1>8, <2>1 DEF FirstPass, BufferType
  <2> QED BY <1>1, <1>3, <1>5, <1>8, <2>2 DEF FirstPass, BufferType
<1>11. awaiting_stdin' = NULL
  BY DEF BufInv, NoSleepOnLine, waiters
<1> QED BY <1>9, <1>10, <1>11 DEF BufInv, NoSleepOnLine

(* Every step preserves the invariant. *)
LEMMA BufNext == BufInv /\ [Next]_vars => BufInv' /\ (Jammed => Jammed' /\ delivered' = delivered)
<1> SUFFICES ASSUME BufInv, [Next]_vars
             PROVE  BufInv' /\ (Jammed => Jammed' /\ delivered' = delivered)
  OBVIOUS
<1>1. CASE write_tty_buffer
  BY <1>1, StoreKeeps DEF write_tty_buffer
<1>2. CASE sys_read
  <2>1. PICK len \in 0 .. LEN_BOUND :
          \/ ~stdin_buffer_has_line /\ UNCHANGED buffer
          \/ /\ stdin_buffer_has_line /\ tty_read(len)
             /\ UNCHANGED <<stdin_buffer, accepted, waiters>>
    BY <1>2 DEF sys_read
  <2>2. CASE ~stdin_buffer_has_line /\ UNCHANGED buffer
    BY <2>2 DEF BufInv, BufferType, FirstPass, UsedUp, NoSleepOnLine,
                stdin_buffer_has_line, buffer, Jammed
  <2>3. CASE stdin_buffer_has_line /\ tty_read(len)
             /\ UNCHANGED <<stdin_buffer, accepted, waiters>>
    BY <2>3, ReadKeeps DEF Jammed
  <2> QED BY <2>1, <2>2, <2>3
<1>3. CASE UNCHANGED <<buffer, waiters>>
  BY <1>3 DEF BufInv, BufferType, FirstPass, UsedUp, NoSleepOnLine,
              stdin_buffer_has_line, buffer, waiters, Jammed
<1> QED BY <1>1, <1>2, <1>3 DEF Next, sys_write, sys_ioctl, vars

(* The invariant of the buffer holds in every reachable state. *)
LEMMA BufAlways == Spec => []BufInv
<1>1. BufInv /\ [Next]_vars => BufInv'
  BY BufNext
<1> QED BY <1>1, BufInit, PTL DEF Spec

(* Readers get the stored characters in order, without loss or repetition     *)
(* (tty.c:161-172). *)
THEOREM ReadsStayInOrder == Spec => []ReadsInOrder
  BY BufAlways, BufImplies, PTL

(* The kernel delivers at most one buffer of characters in its life            *)
(* (tty.c:140-148). *)
THEOREM OneBufferOnly == Spec => []DeliversOneBuffer
  BY BufAlways, BufImplies, PTL

(* The registered waiter never sleeps through a stored line (tty.c:149). *)
THEOREM NoMissedLine == Spec => []NoSleepOnLine
<1>1. BufInv => NoSleepOnLine
  BY DEF BufInv
<1> QED BY <1>1, BufAlways, PTL

(* A buffer that came to its end without a line stays useless                  *)
(* (tty.c:138-159). *)
THEOREM JamStays == Spec => JamIsForEver
<1>1. BufInv /\ [Next]_vars => [Jammed => (Jammed' /\ delivered' = delivered)]_vars
  BY BufNext
<1> QED BY <1>1, BufAlways, PTL DEF Spec, JamIsForEver
-----------------------------------------------------------------------------
(* The order of the natural numbers, as a set of pairs, is well founded. *)
LEMMA Descending == IsWellFoundedOn({ss \in Nat \X Nat : ss[1] < ss[2]}, Nat)
<1>1. OpToRel(<, Nat) = {ss \in Nat \X Nat : ss[1] < ss[2]}
  BY Zenon DEF OpToRel
<1> QED BY <1>1, NatLessThanWellFounded, Zenon

(* A set of natural numbers that is not empty has a least member. *)
LEMMA LeastOf ==
  ASSUME NEW S \in SUBSET Nat, S # {}
  PROVE \E m \in S : \A x \in S : m <= x
<1> DEFINE R == {ss \in Nat \X Nat : ss[1] < ss[2]}
<1>1. \A x, y \in Nat : <<x, y>> \in R <=> x < y
  OBVIOUS
<1>2. IsWellFoundedOn(R, Nat)
  BY Descending
<1> HIDE DEF R
<1>3. PICK m \in S : \A y \in S : ~(<<y, m>> \in R)
  BY <1>2, WFMin
<1>4. ASSUME NEW y \in S PROVE m <= y
  <2>1. y \in Nat /\ m \in Nat
    OBVIOUS
  <2>2. ~(y < m)
    BY <2>1, <1>3, <1>1
  <2> QED BY <2>1, <2>2
<1> QED BY <1>4

(* f is the cursor before each of the first k characters of text and behind    *)
(* them: the recurrence of Cursors. *)
Runs(f, k, cur, text) ==
  f = [i \in 1 .. k + 1 |-> IF i = 1 THEN cur ELSE putchar(f[i - 1], text[i - 1])]

(* There is such an f for every length: no shortest one fails. *)
LEMMA RunExists ==
  ASSUME NEW cur, NEW text, NEW n \in Nat
  PROVE \E f : Runs(f, n, cur, text)
<1> DEFINE Bad == {k \in Nat : ~\E f : Runs(f, k, cur, text)}
<1>1. SUFFICES ASSUME Bad # {} PROVE FALSE
  OBVIOUS
<1>2. Bad \in SUBSET Nat
  OBVIOUS
<1>3. PICK m \in Bad : \A x \in Bad : m <= x
  BY <1>1, <1>2, LeastOf
<1>4. CASE m = 0
  <2>1. Runs([i \in 1 .. 0 + 1 |-> cur], 0, cur, text)
    BY DEF Runs
  <2> QED BY <1>4, <2>1
<1>5. CASE m # 0
  <2>1. m - 1 \in Nat /\ ~(m <= m - 1)
    BY <1>5
  <2>2. m - 1 \notin Bad
    BY <1>3, <2>1
  <2>3. PICK f : Runs(f, m - 1, cur, text)
    BY <2>1, <2>2
  <2> DEFINE g == [i \in 1 .. m + 1 |-> IF i = m + 1 THEN putchar(f[m], text[m]) ELSE f[i]]
  <2>4. f = [i \in 1 .. m |-> IF i = 1 THEN cur ELSE putchar(f[i - 1], text[i - 1])]
    <3>1. m - 1 + 1 = m
      BY <2>1
    <3> QED BY <2>3, <3>1 DEF Runs
  <2>5. ASSUME NEW i \in 1 .. m + 1 PROVE g[i] = IF i = 1 THEN cur ELSE putchar(g[i - 1], text[i - 1])
    <3>1. CASE i = m + 1
      <4>1. i - 1 = m /\ m \in 1 .. m + 1 /\ m # m + 1 /\ i # 1
        BY <2>1, <3>1
      <4>2. g[m] = f[m] /\ g[i] = putchar(f[m], text[m])
        BY <3>1, <4>1
      <4> HIDE DEF g
      <4> QED BY <4>1, <4>2
    <3>2. CASE i # m + 1
      <4>1. i \in 1 .. m /\ (i # 1 => i - 1 \in 1 .. m + 1 /\ i - 1 # m + 1)
        BY <2>1, <3>2
      <4>2. g[i] = f[i] /\ (i # 1 => g[i - 1] = f[i - 1])
        BY <3>2, <4>1
      <4>3. f[i] = IF i = 1 THEN cur ELSE putchar(f[i - 1], text[i - 1])
        BY <2>4, <4>1
      <4> HIDE DEF g
      <4> QED BY <4>2, <4>3
    <3> QED BY <3>1, <3>2
  <2>6. g = [i \in 1 .. m + 1 |-> IF i = 1 THEN cur ELSE putchar(g[i - 1], text[i - 1])]
    <3>1. g = [i \in 1 .. m + 1 |-> g[i]]
      OBVIOUS
    <3> HIDE DEF g
    <3> QED BY <2>5, <3>1
  <2>7. Runs(g, m, cur, text)
    <3> HIDE DEF g
    <3> QED BY <2>6 DEF Runs
  <2> QED BY <2>7
<1> QED BY <1>4, <1>5

(* So Cursors, which is chosen by the recurrence, satisfies it. *)
LEMMA CursorsRun ==
  ASSUME NEW cur, NEW text, Len(text) \in Nat
  PROVE Runs(Cursors(cur, text), Len(text), cur, text)
<1>1. \E f : Runs(f, Len(text), cur, text)
  BY RunExists
<1>2. Cursors(cur, text) = CHOOSE f : Runs(f, Len(text), cur, text)
  BY Zenon DEF Cursors, Runs
<1> QED BY <1>1, <1>2, Zenon

(* A place of the cursor: any row, since newlines are not stopped, and a       *)
(* column of the terminal. *)
Place == Nat \X (0 .. WIDTH - 1)

(* terminal_putchar leaves the cursor in a column of the terminal. *)
LEMMA PutcharPlace ==
  ASSUME NEW cur \in Place, NEW c
  PROVE  putchar(cur, c) \in Place
<1>1. cur[1] \in Nat /\ cur[2] \in 0 .. WIDTH - 1 /\ WIDTH \in Nat \ {0}
  BY TtyAssumption DEF Place
<1>2. putchar(cur, c) \in {<<cur[1], cur[2] + 1>>, <<0, 0>>, <<cur[1] + 1, 0>>}
      /\ (putchar(cur, c) = <<cur[1], cur[2] + 1>> => cur[2] + 1 # WIDTH)
  BY <1>1 DEF putchar
<1> QED BY <1>1, <1>2 DEF Place

(* Nor does a text of any length take it out of them. *)
LEMMA CursorsPlace ==
  ASSUME NEW cur \in Place, NEW text, Len(text) \in Nat
  PROVE  \A i \in 1 .. Len(text) + 1 : Cursors(cur, text)[i] \in Place
<1> DEFINE f == Cursors(cur, text)
           Bad == {i \in 1 .. Len(text) + 1 : f[i] \notin Place}
<1>1. f = [i \in 1 .. Len(text) + 1 |-> IF i = 1 THEN cur ELSE putchar(f[i - 1], text[i - 1])]
  BY CursorsRun DEF Runs
<1> HIDE DEF f
<1>2. SUFFICES ASSUME Bad # {} PROVE FALSE
  BY DEF f
<1>3. Bad \in SUBSET Nat
  OBVIOUS
<1>4. PICK m \in Bad : \A x \in Bad : m <= x
  BY <1>2, <1>3, LeastOf
<1>5. m \in 1 .. Len(text) + 1 /\ f[m] \notin Place
  OBVIOUS
<1>6. m # 1
  BY <1>1, <1>5
<1>7. m - 1 \in 1 .. Len(text) + 1 /\ ~(m <= m - 1)
  BY <1>5, <1>6
<1>8. f[m - 1] \in Place
  BY <1>4, <1>7
<1>9. f[m] = putchar(f[m - 1], text[m - 1])
  BY <1>1, <1>5, <1>6
<1> QED BY <1>5, <1>8, <1>9, PutcharPlace

(* A text stops at its first fault, or behind its end. *)
LEMMA StopsPlace ==
  ASSUME NEW cur \in Place, NEW text, Len(text) \in Nat
  PROVE  /\ Stops(cur, text) \in Place
         /\ Faults(cur, text) # {} =>
              \E i \in Faults(cur, text) : Stops(cur, text) = Cursors(cur, text)[i]
<1> DEFINE f == Faults(cur, text)
<1>1. \A i \in f : i \in 1 .. Len(text)
  BY DEF Faults
<1>2. Stops(cur, text) =
        Cursors(cur, text)[IF f = {} THEN Len(text) + 1 ELSE CHOOSE i \in f : \A j \in f : i <= j]
  BY DEF Stops
<1> HIDE DEF f
<1>3. CASE f = {}
  <2>1. Stops(cur, text) = Cursors(cur, text)[Len(text) + 1]
    BY <1>2, <1>3
  <2>2. Len(text) + 1 \in 1 .. Len(text) + 1
    OBVIOUS
  <2> QED BY <1>3, <2>1, <2>2, CursorsPlace DEF f
<1>4. CASE f # {}
  <2> DEFINE m == CHOOSE i \in f : \A j \in f : i <= j
  <2>1. f \in SUBSET Nat
    BY <1>1
  <2>2. \E i \in f : \A j \in f : i <= j
    BY <1>4, <2>1, LeastOf
  <2>3. m \in f
    BY <2>2
  <2>4. Stops(cur, text) = Cursors(cur, text)[m]
    BY <1>2, <1>4
  <2> HIDE DEF m
  <2>5. m \in 1 .. Len(text) + 1
    BY <1>1, <2>3
  <2> QED BY <2>3, <2>4, <2>5, CursorsPlace DEF f
<1> QED BY <1>3, <1>4

(* The lines of the terminal fit the framebuffer, whose lines are no longer    *)
(* than its pitch and end on a page.  boot.s:10-12 asks for 1024x768 at 32     *)
(* bits, where the 80x25 characters of tty.h:9-14 at 11 by 20 pixels           *)
(* fit. *)
ScreenFits ==
  /\ 4 * FB_WIDTH <= PITCH
  /\ (WIDTH - 1) * W_SPACE + GLYPH_WIDTH <= FB_WIDTH
  /\ (HEIGHT - 1) * H_SPACE + GLYPH_HEIGHT <= FB_HEIGHT
  /\ (PITCH * FB_HEIGHT) % PAGE = 0

(* On such a screen a character faults only below the terminal's rows, where   *)
(* its glyph reaches out of the framebuffer. *)
LEMMA FaultIsBelow ==
  ASSUME ScreenFits, NEW p \in Place, NEW c \in Char \ {NL},
         put_char_faults(p[2] * W_SPACE, p[1] * H_SPACE, c)
  PROVE  p[1] >= HEIGHT /\ p[1] * H_SPACE + GLYPH_HEIGHT > FB_HEIGHT
<1> DEFINE y == p[1] * H_SPACE + Ink[c]
           x == p[2] * W_SPACE + GLYPH_WIDTH - 1
<1>1. /\ p[1] \in Nat /\ p[2] \in 0 .. WIDTH - 1 /\ Ink[c] \in 0 .. GLYPH_HEIGHT - 1
      /\ WIDTH \in Nat \ {0} /\ HEIGHT \in Nat \ {0}
      /\ W_SPACE \in Nat \ {0} /\ H_SPACE \in Nat \ {0} /\ PITCH \in Nat \ {0}
      /\ FB_WIDTH \in Nat \ {0} /\ FB_HEIGHT \in Nat \ {0}
      /\ GLYPH_WIDTH \in Nat \ {0} /\ GLYPH_HEIGHT \in Nat \ {0}
  BY TtyAssumption, ConsoleAssumption DEF Place, put_char_faults
<1>2. y * PITCH + 4 * x + 4 > PITCH * FB_HEIGHT
  <2>1. \A n \in Nat : \A d \in Nat \ {0} : n % d = 0 => (n \div d) * d = n
    OBVIOUS
  <2>2. PITCH * FB_HEIGHT \in Nat /\ PAGE \in Nat \ {0}
    BY <1>1, ConsoleAssumption
  <2>3. mapped_bytes = PITCH * FB_HEIGHT
    BY <2>1, <2>2 DEF mapped_bytes, ScreenFits
  <2> QED BY <2>3 DEF put_char_faults, pixel_end
<1>3. p[2] * W_SPACE <= (WIDTH - 1) * W_SPACE
  <2>1. \A a, b, w \in Nat : a <= b => a * w <= b * w
    OBVIOUS
  <2>2. WIDTH - 1 \in Nat /\ p[2] \in Nat /\ p[2] <= WIDTH - 1
    BY <1>1
  <2> QED BY <1>1, <2>1, <2>2
<1>4. p[2] * W_SPACE \in Nat /\ (WIDTH - 1) * W_SPACE \in Nat /\ p[1] * H_SPACE \in Nat
  BY <1>1
<1>5. 4 * x + 4 <= PITCH /\ y \in Nat /\ x \in Nat
  BY <1>1, <1>3, <1>4 DEF ScreenFits
<1> HIDE DEF x
<1>6. y + 1 > FB_HEIGHT
  <2> SUFFICES ASSUME y + 1 <= FB_HEIGHT PROVE FALSE
    BY <1>1, <1>5
  <2>1. \A a, b, w \in Nat : a <= b => a * w <= b * w
    OBVIOUS
  <2> HIDE DEF y
  <2>2. (y + 1) * PITCH <= FB_HEIGHT * PITCH
    BY <1>1, <1>5, <2>1
  <2>3. (y + 1) * PITCH = y * PITCH + PITCH /\ FB_HEIGHT * PITCH = PITCH * FB_HEIGHT
    BY <1>1, <1>5
  <2>4. y * PITCH \in Nat /\ PITCH * FB_HEIGHT \in Nat
    BY <1>1, <1>5
  <2> QED BY <1>1, <1>2, <1>5, <2>2, <2>3, <2>4
<1>7. p[1] * H_SPACE + GLYPH_HEIGHT > FB_HEIGHT
  BY <1>1, <1>4, <1>6
<1>8. p[1] >= HEIGHT
  <2> SUFFICES ASSUME p[1] < HEIGHT PROVE FALSE
    BY <1>1
  <2>1. \A a, b, w \in Nat : a <= b => a * w <= b * w
    OBVIOUS
  <2>2. HEIGHT - 1 \in Nat /\ p[1] <= HEIGHT - 1
    BY <1>1
  <2>3. p[1] * H_SPACE <= (HEIGHT - 1) * H_SPACE /\ (HEIGHT - 1) * H_SPACE \in Nat
    BY <1>1, <2>1, <2>2
  <2> QED BY <1>1, <1>4, <1>7, <2>3 DEF ScreenFits
<1> QED BY <1>7, <1>8

-----------------------------------------------------------------------------
(* The invariant of the terminal on its screen. *)
ConInv == BufInv /\ cursor \in Place /\ (ScreenFits => RecursesOnlyBelow)

(* The invariant of the buffer depends on the buffer and the waiters only. *)
LEMMA BufFrame == BufInv /\ UNCHANGED <<buffer, waiters>> => BufInv'
  BY DEF BufInv, BufferType, FirstPass, UsedUp, NoSleepOnLine, stdin_buffer_has_line,
         buffer, waiters

(* A read keeps it. *)
LEMMA SysReadKeeps == BufInv /\ sys_read => BufInv'
<1> SUFFICES ASSUME BufInv, sys_read PROVE BufInv'
  OBVIOUS
<1>1. sys_read => Next
  BY DEF Next
<1> QED BY <1>1, BufNext

(* A text that is written leaves the cursor in place. *)
LEMMA WriteKeeps ==
  ASSUME cursor \in Place, NEW text \in Seq(Char), terminal_write(text)
  PROVE  cursor' \in Place
<1> DEFINE p == Cursors(cursor, text)[Len(text) + 1]
<1>1. Len(text) \in Nat /\ Len(text) + 1 \in 1 .. Len(text) + 1
  OBVIOUS
<1>2. p \in Place
  BY <1>1, CursorsPlace
<1>3. cursor' = <<p[1], p[2]>>
  BY DEF terminal_write, cursor
<1> HIDE DEF p
<1> QED BY <1>2, <1>3 DEF Place

(* What TypeOK says besides the type of the buffer. *)
Rest ==
  /\ echo \in BOOLEAN
  /\ awaiting_stdin \in Reader \cup {NULL} /\ asleep \subseteq Reader
  /\ cursor \in Place /\ terminal_row <= ROW_BOUND

(* A character or a text written within the bound. *)
LEMMA WriteBound ==
  ASSUME Rest, NEW text \in Seq(Char), terminal_write(text)
  PROVE  cursor' \in Place /\ terminal_row' <= ROW_BOUND
<1>1. cursor' \in Place
  BY WriteKeeps DEF Rest
<1> QED BY <1>1 DEF terminal_write

LEMMA RestStep == Rest /\ [Next]_vars => Rest'
<1> SUFFICES ASSUME Rest, [Next]_vars PROVE Rest'
  OBVIOUS
<1>1. CASE write_tty_buffer
  <2>1. PICK c \in Char : /\ IF echo THEN terminal_write(<<c>>) ELSE UNCHANGED cursor
                          /\ store_and_wake(c)
                          /\ echo' = echo
    BY <1>1 DEF write_tty_buffer
  <2>2. (awaiting_stdin \in Reader \cup {NULL} /\ asleep \subseteq Reader)'
    BY <2>1 DEF store_and_wake, waiters, Rest
  <2>3. cursor' \in Place /\ terminal_row' <= ROW_BOUND
    <3>1. <<c>> \in Seq(Char)
      OBVIOUS
    <3>2. CASE terminal_write(<<c>>)
      BY <3>1, <3>2, WriteBound
    <3>3. CASE UNCHANGED cursor
      BY <3>3 DEF Rest, cursor
    <3> QED BY <2>1, <3>2, <3>3
  <2> QED BY <2>1, <2>2, <2>3 DEF Rest
<1>2. CASE sys_read
  <2>1. UNCHANGED <<echo, cursor>>
    BY <1>2 DEF sys_read
  <2>2. (awaiting_stdin \in Reader \cup {NULL} /\ asleep \subseteq Reader)'
    BY <1>2 DEF sys_read, waiters, Rest
  <2> QED BY <2>1, <2>2 DEF Rest, cursor
<1>3. CASE sys_write
  <2>1. PICK s \in Text : terminal_write(s)
    BY <1>3 DEF sys_write
  <2>2. s \in Seq(Char)
    BY TtyAssumption
  <2>3. cursor' \in Place /\ terminal_row' <= ROW_BOUND
    BY <2>1, <2>2, WriteBound
  <2> QED BY <1>3, <2>3 DEF sys_write, waiters, Rest
<1>4. CASE sys_ioctl
  BY <1>4 DEF sys_ioctl, tty_ioctl, waiters, cursor, Rest
<1>5. CASE UNCHANGED vars
  BY <1>5 DEF vars, waiters, cursor, Rest
<1> QED BY <1>1, <1>2, <1>3, <1>4, <1>5 DEF Next

(* The state of the terminal stays well formed: the cursor never leaves the    *)
(* columns of the terminal, however long the texts are (tty.c:65-87). *)
THEOREM TerminalTypes == Spec => []TypeOK
<1>1. Init => Rest
  <2> SUFFICES ASSUME Init PROVE Rest
    OBVIOUS
  <2>1. cursor \in Place
    BY TtyAssumption DEF Init, cursor, Place
  <2>2. terminal_row <= ROW_BOUND
    BY TtyAssumption DEF Init
  <2>3. echo \in BOOLEAN /\ awaiting_stdin \in Reader \cup {NULL} /\ asleep \subseteq Reader
    BY DEF Init
  <2> QED BY <2>1, <2>2, <2>3 DEF Rest
<1>2. Spec => []Rest
  BY <1>1, RestStep, PTL DEF Spec
<1>3. BufInv /\ Rest => TypeOK
  BY TtyAssumption DEF BufInv, BufferType, Rest, TypeOK, cursor, Place
<1> QED BY <1>2, <1>3, BufAlways, PTL

(* A fault of the kernel: the report halts, or it faults where its own first   *)
(* character below the screen is. *)
LEMMA FaultKeeps ==
  ASSUME BufInv, NEW p \in Place, kernel_fault(p)
  PROVE  ConInv'
<1> DEFINE report == PageFault \o KernelCrash
           q == Stops(p, report)
<1>1. report \in Seq(Char) /\ Len(report) \in Nat
  BY ConsoleAssumption
<1>2. /\ terminal_row' = q[1] /\ terminal_column' = q[2]
      /\ status' = IF Faults(p, report) = {} THEN "halted" ELSE "recursing"
      /\ UNCHANGED <<buffer, echo, waiters>>
  BY DEF kernel_fault
<1>3. q \in Place
  BY <1>1, StopsPlace
<1>4. ASSUME ScreenFits, Faults(p, report) # {}
      PROVE  q[1] >= HEIGHT /\ q[1] * H_SPACE + GLYPH_HEIGHT > FB_HEIGHT
  <2>1. PICK i \in Faults(p, report) : q = Cursors(p, report)[i]
    BY <1>1, <1>4, StopsPlace
  <2> HIDE DEF report, q
  <2>2. /\ i \in 1 .. Len(report) /\ report[i] # NL
        /\ put_char_faults(q[2] * W_SPACE, q[1] * H_SPACE, report[i])
    BY <2>1 DEF Faults
  <2>3. report[i] \in Char \ {NL}
    BY <1>1, <2>2, ElementOfSeq
  <2> QED BY <1>3, <1>4, <2>2, <2>3, FaultIsBelow
<1> HIDE DEF report, q
<1>5. cursor' \in Place
  BY <1>2, <1>3 DEF cursor, Place
<1>6. BufInv'
  BY <1>2, BufFrame
<1>7. ScreenFits => RecursesOnlyBelow'
  BY <1>2, <1>4 DEF RecursesOnlyBelow
<1>8. (ScreenFits => RecursesOnlyBelow)'
  BY <1>7 DEF ScreenFits, mapped_bytes
<1> QED BY <1>5, <1>6, <1>8 DEF ConInv

(* Code that faults while it writes is such a fault, where the text stopped. *)
LEMMA WritingKeeps ==
  ASSUME ConInv, NEW text \in Seq(Char), faults_writing(text)
  PROVE  ConInv'
<1>1. Stops(cursor, text) \in Place
  BY StopsPlace DEF ConInv
<1> QED BY <1>1, FaultKeeps DEF ConInv, faults_writing

(* While the kernel is up, nothing has faulted. *)
LEMMA UpKeeps ==
  ASSUME BufInv', cursor' \in Place, status = "up", UNCHANGED status
  PROVE  ConInv'
  BY DEF ConInv, RecursesOnlyBelow

(* output of any text keeps the invariant. *)
LEMMA OutputKeeps ==
  ASSUME ConInv, status = "up", NEW text \in Seq(Char), output(text)
  PROVE  ConInv'
<1>1. CASE faults_writing(text)
  BY <1>1, WritingKeeps
<1>2. CASE terminal_write(text) /\ UNCHANGED <<buffer, echo, waiters, status>>
  <2>1. cursor' \in Place
    BY <1>2, WriteKeeps DEF ConInv
  <2>2. BufInv'
    BY <1>2, BufFrame DEF ConInv
  <2> QED BY <1>2, <2>1, <2>2, UpKeeps
<1> QED BY <1>1, <1>2 DEF output

(* So does a key, with echo or without. *)
LEMMA KeyKeeps ==
  ASSUME ConInv, status = "up", key_char
  PROVE  ConInv'
<1>1. PICK c \in Char :
        \/ store_and_wake(c) /\ UNCHANGED <<echo, cursor, status>>
        \/ terminal_write(<<c>>) /\ store_and_wake(c) /\ UNCHANGED <<echo, status>>
        \/ faults_writing(<<c>>)
  BY DEF key_char
<1>2. <<c>> \in Seq(Char)
  OBVIOUS
<1>3. store_and_wake(c) => BufInv'
  BY StoreKeeps DEF ConInv
<1>4. CASE store_and_wake(c) /\ UNCHANGED <<echo, cursor, status>>
  <2>1. cursor' \in Place
    BY <1>4 DEF ConInv, Place
  <2> QED BY <1>3, <1>4, <2>1, UpKeeps
<1>5. CASE terminal_write(<<c>>) /\ store_and_wake(c) /\ UNCHANGED <<echo, status>>
  <2>1. cursor' \in Place
    BY <1>2, <1>5, WriteKeeps DEF ConInv
  <2> QED BY <1>3, <1>5, <2>1, UpKeeps
<1>6. CASE faults_writing(<<c>>)
  BY <1>2, <1>6, WritingKeeps
<1> QED BY <1>1, <1>4, <1>5, <1>6

(* Every step of the terminal on its screen preserves the invariant. *)
LEMMA ConNext == ConInv /\ [ConsoleNext]_allvars => ConInv'
<1> SUFFICES ASSUME ConInv, [ConsoleNext]_allvars PROVE ConInv'
  OBVIOUS
<1>1. CASE keyboard_interrupt_handler
  <2>1. CASE kernel_fault(cursor)
    BY <2>1, FaultKeeps DEF ConInv
  <2>2. CASE key_char
    BY <1>1, <2>2, KeyKeeps DEF keyboard_interrupt_handler
  <2> QED BY <1>1, <2>1, <2>2 DEF keyboard_interrupt_handler, key_odd
<1>2. CASE write
  <2>1. PICK s \in Text : status = "up" /\ output(s)
    BY <1>2 DEF write
  <2>2. s \in Seq(Char)
    BY TtyAssumption
  <2> QED BY <2>1, <2>2, OutputKeeps
<1>3. CASE read
  <2>1. BufInv' /\ cursor' = cursor /\ status = "up" /\ UNCHANGED status
    <3>1. sys_read /\ status = "up" /\ UNCHANGED status
      BY <1>3 DEF read
    <3>2. UNCHANGED cursor
      BY <3>1 DEF sys_read
    <3> QED BY <3>1, <3>2, SysReadKeeps DEF ConInv
  <2>2. cursor' \in Place
    BY <2>1 DEF ConInv, Place
  <2> QED BY <2>1, <2>2, UpKeeps
<1>4. CASE ioctl
  <2>1. status = "up" /\ UNCHANGED status /\ UNCHANGED <<buffer, waiters>> /\ cursor' = cursor
    BY <1>4 DEF ioctl, sys_ioctl
  <2>2. cursor' \in Place
    BY <2>1 DEF ConInv, Place
  <2> QED BY <2>1, <2>2, BufFrame, UpKeeps DEF ConInv
<1>5. CASE exception_handler
  <2>1. PageFault \o Terminating \in Seq(Char)
    BY ConsoleAssumption
  <2> QED BY <1>5, <2>1, OutputKeeps DEF exception_handler
<1>6. CASE UNCHANGED allvars
  <2>1. UNCHANGED <<buffer, waiters>> /\ UNCHANGED status
    BY <1>6 DEF allvars, vars
  <2>2. UNCHANGED <<terminal_row, terminal_column>>
    BY <1>6 DEF allvars, vars, cursor
  <2>3. cursor' \in Place
    BY <2>2 DEF ConInv, cursor
  <2>4. (ScreenFits => RecursesOnlyBelow)'
    BY <2>1, <2>2 DEF ConInv, RecursesOnlyBelow, ScreenFits, mapped_bytes
  <2> QED BY <2>1, <2>3, <2>4, BufFrame DEF ConInv
<1> QED BY <1>1, <1>2, <1>3, <1>4, <1>5, <1>6 DEF ConsoleNext

(* The terminal on its screen starts in the invariant and stays in it. *)
LEMMA ConAlways == ConsoleSpec => []ConInv
<1>1. ConsoleInit => ConInv
  <2> SUFFICES ASSUME ConsoleInit PROVE ConInv
    OBVIOUS
  <2>1. cursor \in Place
    BY TtyAssumption DEF ConsoleInit, Init, cursor, Place
  <2> QED BY <2>1, BufInit DEF ConsoleInit, ConInv, RecursesOnlyBelow
<1> QED BY <1>1, ConNext, PTL DEF ConsoleSpec

(* On a screen the terminal's lines fit, a fault of the kernel is reported     *)
(* unless newlines have taken the cursor below the terminal's rows             *)
(* (tty.c:67-80, idt.c:26, framebuffer.c:53). *)
THEOREM ReportsUnlessBelow == ASSUME ScreenFits PROVE ConsoleSpec => []RecursesOnlyBelow
<1>1. ConInv => RecursesOnlyBelow
  BY DEF ConInv
<1> QED BY <1>1, ConAlways, PTL

(* The faults of the screen and their reports, which happen inside the         *)
(* handlers, leave the buffer as it is: readers still get what was stored, in  *)
(* order and at most one buffer of it, and the registered waiter sleeps        *)
(* through no line (tty.c:133-175, idt.c:26). *)
THEOREM ScreenSparesStdin ==
  ConsoleSpec => [](ReadsInOrder /\ DeliversOneBuffer /\ NoSleepOnLine)
<1>1. ConInv => ReadsInOrder /\ DeliversOneBuffer /\ NoSleepOnLine
  BY BufImplies DEF ConInv, BufInv
<1> QED BY <1>1, ConAlways, PTL
-----------------------------------------------------------------------------
(* fgets in several tasks.  EchoUnlessOvertaken needs that a call in its read   *)
(* has the echo bit in its word, which FgetsTypeOK says. *)
CallInv == FgetsTypeOK /\ EchoUnlessOvertaken /\ FlagsAreCleared

(* Before the first call the flags are clear and nobody is in fgets. *)
LEMMA CallsInit == FgetsInit => CallInv
  BY DEF FgetsInit, CallInv, FgetsTypeOK, EchoUnlessOvertaken, FlagsAreCleared

(* A call begins: only its own word changes, and it is not in its read. *)
LEMMA FgetsKeeps == ASSUME CallInv, NEW t \in Task, fgets(t) PROVE CallInv'
<1>1. PICK garbage \in SUBSET Flag : local' = [local EXCEPT ![t] = garbage \cup {ECHO_FLAG}]
  BY DEF fgets
<1>2. pc[t] = "out" /\ pc' = [pc EXCEPT ![t] = "set"] /\ UNCHANGED <<flags, overtaken>>
  BY DEF fgets, at
<1>3. FgetsTypeOK'
  BY <1>1, <1>2 DEF CallInv, FgetsTypeOK, Flag
<1>4. EchoUnlessOvertaken'
  BY <1>2 DEF CallInv, FgetsTypeOK, EchoUnlessOvertaken
<1>5. FlagsAreCleared'
  BY <1>1, <1>2 DEF CallInv, FgetsTypeOK, FlagsAreCleared
<1> QED BY <1>3, <1>4, <1>5 DEF CallInv

(* A call sets the bits of its word, the echo bit among them. *)
LEMMA SetKeeps == ASSUME CallInv, NEW t \in Task, set_flag(t) PROVE CallInv'
<1>1. /\ pc[t] = "set" /\ pc' = [pc EXCEPT ![t] = "read"]
      /\ flags' = flags \cup local[t] /\ local' = local
      /\ overtaken' = [overtaken EXCEPT ![t] = FALSE]
  BY DEF set_flag, at
<1>2. FgetsTypeOK'
  BY <1>1 DEF CallInv, FgetsTypeOK
<1>3. EchoUnlessOvertaken'
  BY <1>1 DEF CallInv, FgetsTypeOK, EchoUnlessOvertaken
<1>4. FlagsAreCleared'
  BY <1>1 DEF CallInv, FgetsTypeOK, FlagsAreCleared
<1> QED BY <1>2, <1>3, <1>4 DEF CallInv

(* A read returns: the call still answers for its bits. *)
LEMMA FgetsReadKeeps == ASSUME CallInv, NEW t \in Task, fgets_read(t) PROVE CallInv'
<1>1. /\ pc[t] = "read" /\ pc' = [pc EXCEPT ![t] = "clear"]
      /\ UNCHANGED <<flags, local, overtaken>>
  BY DEF fgets_read, at
<1>2. FgetsTypeOK'
  BY <1>1 DEF CallInv, FgetsTypeOK
<1>3. EchoUnlessOvertaken'
  BY <1>1 DEF CallInv, FgetsTypeOK, EchoUnlessOvertaken
<1>4. FlagsAreCleared'
  BY <1>1 DEF CallInv, FgetsTypeOK, FlagsAreCleared
<1> QED BY <1>2, <1>3, <1>4 DEF CallInv

(* A call clears its bits: whoever still wants one of them is overtaken. *)
LEMMA ClearKeeps == ASSUME CallInv, NEW t \in Task, clear_flag(t) PROVE CallInv'
<1>1. /\ pc[t] = "clear" /\ pc' = [pc EXCEPT ![t] = "out"]
      /\ flags' = flags \ local[t] /\ local' = local
      /\ overtaken' = [u \in Task |-> u # t \/ overtaken[u]]
  BY DEF clear_flag, at
<1>2. FgetsTypeOK'
  BY <1>1, Zenon DEF CallInv, FgetsTypeOK
<1>3. EchoUnlessOvertaken'
  BY <1>1 DEF CallInv, FgetsTypeOK, EchoUnlessOvertaken
<1>4. FlagsAreCleared'
  BY <1>1 DEF CallInv, FgetsTypeOK, FlagsAreCleared
<1> QED BY <1>2, <1>3, <1>4 DEF CallInv

(* Every step keeps the invariant. *)
LEMMA CallsNext == CallInv /\ [FgetsNext]_fgetsvars => CallInv'
<1> SUFFICES ASSUME CallInv, [FgetsNext]_fgetsvars PROVE CallInv'
  OBVIOUS
<1>1. CASE FgetsNext
  BY <1>1, FgetsKeeps, SetKeeps, FgetsReadKeeps, ClearKeeps DEF FgetsNext
<1>2. CASE UNCHANGED fgetsvars
  BY <1>2 DEF fgetsvars, CallInv, FgetsTypeOK, EchoUnlessOvertaken, FlagsAreCleared
<1> QED BY <1>1, <1>2

(* The invariant holds throughout. *)
LEMMA CallsAlways == FgetsSpec => []CallInv
  BY CallsInit, CallsNext, PTL DEF FgetsSpec

(* The words of flags keep their types, and a call under way has the echo bit  *)
(* in its word (fgets.c:7-8). *)
THEOREM CallsTyped == FgetsSpec => []FgetsTypeOK
<1>1. CallInv => FgetsTypeOK
  BY DEF CallInv
<1> QED BY <1>1, CallsAlways, PTL

(* The terminal echoes during a read unless another task's fgets has ended in  *)
(* the meantime (fgets.c:9-11, tty.c:184-189). *)
THEOREM EchoHolds == FgetsSpec => []EchoUnlessOvertaken
<1>1. CallInv => EchoUnlessOvertaken
  BY DEF CallInv
<1> QED BY <1>1, CallsAlways, PTL

(* Every bit set in the terminal's flags belongs to a call under way, whatever *)
(* the uninitialised word held (fgets.c:7-11). *)
THEOREM FlagsCleared == FgetsSpec => []FlagsAreCleared
<1>1. CallInv => FlagsAreCleared
  BY DEF CallInv
<1> QED BY <1>1, CallsAlways, PTL
=============================================================================
