----------------------------- MODULE TrapsProofs -----------------------------
(***************************************************************************)
(* Proofs about Traps, for stacks of any size and any set of exceptions    *)
(* that programs cause.  The first lemmas compute what the C structs read  *)
(* out of the frames; the rest is about the frames alone.                  *)
(***************************************************************************)
EXTENDS Traps, SequenceTheorems, TLAPS

(* Three words of a frame, as the iret pops them. *)
LEMMA ThreeWords ==
  ASSUME NEW s, NEW m \in Nat
  PROVE  SubSeq(s, m, m + 2) = <<s[m], s[m + 1], s[m + 2]>>
<1> DEFINE S == {s[m], s[m + 1], s[m + 2]}
           a == SubSeq(s, m, m + 2)
           b == <<s[m], s[m + 1], s[m + 2]>>
<1>1. \A i \in m .. m + 2 : s[i] \in S
  <2>1. \A i \in m .. m + 2 : i = m \/ i = m + 1 \/ i = m + 2 OBVIOUS
  <2> QED BY <2>1
<1>2. b \in Seq(S) /\ Len(b) = 3 OBVIOUS
<1>3. a \in Seq(S) /\ Len(a) = 3 /\ \A i \in 1 .. 3 : a[i] = s[m + i - 1]
  <2> HIDE DEF S
  <2>1. m + 2 \in Int /\ m \in Int /\ m <= m + 2 /\ (m + 2) - m + 1 = 3 OBVIOUS
  <2> QED BY <1>1, <2>1, SubSeqProperties
<1>4. \A i \in 1 .. 3 : a[i] = b[i]
  <2>1. a[1] = s[m] /\ a[2] = s[m + 1] /\ a[3] = s[m + 2] BY <1>3
  <2>2. b[1] = s[m] /\ b[2] = s[m + 1] /\ b[3] = s[m + 2] OBVIOUS
  <2>3. \A i \in 1 .. 3 : i = 1 \/ i = 2 \/ i = 3 OBVIOUS
  <2> HIDE DEF a, b
  <2> QED BY <2>1, <2>2, <2>3
<1> HIDE DEF a, b, S
<1>5. a = b BY <1>2, <1>3, <1>4, SeqEqual
<1> QED BY <1>5 DEF a, b

(* A stub returns right when its iret finds eip, cs and eflags. *)
LEMMA ReturnsIff ==
  ASSUME NEW f, NEW m \in Nat, f.iret = m
  PROVE  Returns(f) <=> f.words[m] = "eip" /\ f.words[m + 1] = "cs" /\ f.words[m + 2] = "eflags"
<1>1. SubSeq(f.words, m, m + 2) = <<f.words[m], f.words[m + 1], f.words[m + 2]>> BY ThreeWords
<1>2. Returns(f) <=> SubSeq(f.words, m, m + 2) = <<"eip", "cs", "eflags">> BY DEF Returns
<1> QED BY <1>1, <1>2

(* The clock's and the system call's stub return to where the code was. *)
LEMMA StubsReturn ==
  /\ \A ring \in {0, 3} : Returns(irq0_stub(ring))
  /\ Returns(syscall_stub)
<1>1. ASSUME NEW ring \in {0, 3} PROVE Returns(irq0_stub(ring))
  <2>1. irq0_stub(ring).words[10] = "eip" /\ irq0_stub(ring).words[11] = "cs"
        /\ irq0_stub(ring).words[12] = "eflags" /\ irq0_stub(ring).iret = 10
    <3>1. CASE ring = 3 BY <3>1 DEF irq0_stub, Pusha, Pushed
    <3>2. CASE ring = 0 BY <3>2 DEF irq0_stub, Pusha, Pushed
    <3> QED BY <3>1, <3>2
  <2>2. ASSUME NEW m, m = 10 PROVE Returns(irq0_stub(ring)) BY <2>1, <2>2, ReturnsIff
  <2> QED BY <2>2
<1>2. Returns(syscall_stub)
  <2>1. syscall_stub.words[13] = "eip" /\ syscall_stub.words[14] = "cs"
        /\ syscall_stub.words[15] = "eflags" /\ syscall_stub.iret = 13
    BY DEF syscall_stub, Pusha, Pushed
  <2>2. ASSUME NEW m, m = 13 PROVE Returns(syscall_stub) BY <2>1, <2>2, ReturnsIff
  <2> QED BY <2>2
<1> QED BY <1>1, <1>2

(* The stub of an exception with an error code does not: the code is on top. *)
LEMMA ErrorStub ==
  /\ ~Returns(isr_err_stub(3))
  /\ \A ring : isr_err_stub(ring).state = 1 /\ isr_no_err_stub(ring).state = 0
<1>1. isr_err_stub(3).words[10] = "error_code" /\ isr_err_stub(3).iret = 10
  BY DEF isr_err_stub, Pusha, Pushed
<1>2. ~Returns(isr_err_stub(3))
  <2>1. ASSUME NEW m, m = 10 PROVE ~Returns(isr_err_stub(3)) BY <1>1, <2>1, ReturnsIff
  <2> QED BY <2>1
<1> QED BY <1>2 DEF isr_err_stub, isr_no_err_stub

(* Where the C structs have the fields the handlers read. *)
LEMMA Offsets ==
  /\ offset(cpu_task_state, "useresp") = 13
  /\ offset(cpu_exception_state, "error_code") = 10
<1>1. offset(cpu_task_state, "useresp") = 13
  <2>1. DOMAIN cpu_task_state = 1 .. 14 BY DEF cpu_task_state, Pusha
  <2>2. \A i \in 1 .. 14 : cpu_task_state[i] = "useresp" <=> i = 13
    BY DEF cpu_task_state, Pusha
  <2> QED BY <2>1, <2>2 DEF offset
<1>2. offset(cpu_exception_state, "error_code") = 10
  <2>1. DOMAIN cpu_exception_state = 1 .. 15 BY DEF cpu_exception_state, Pusha
  <2>2. \A i \in 1 .. 15 : cpu_exception_state[i] = "error_code" <=> i = 10
    BY DEF cpu_exception_state, Pusha
  <2> QED BY <2>1, <2>2 DEF offset
<1> QED BY <1>1, <1>2

(* What load_context saves is exact, and exception_handler finds the code. *)
LEMMA FieldsRight ==
  /\ \A use \in Nat : saved_esp(irq0_stub(3), 3, use) = use
  /\ \A use \in Nat : saved_esp(syscall_stub, 3, use) = use
  /\ \A use \in Nat : saved_esp(irq0_stub(0), 0, use) = use
  /\ field(isr_err_stub(3), cpu_exception_state, "error_code") = "error_code"
<1>1. irq0_stub(3).state = 1 /\ irq0_stub(0).state = 1 /\ syscall_stub.state = 4
  BY DEF irq0_stub, syscall_stub
<1>2. irq0_stub(3).words[13] = "useresp" BY DEF irq0_stub, Pusha, Pushed
<1>3. syscall_stub.words[16] = "useresp" BY DEF syscall_stub, Pusha, Pushed
<1>4. Len(irq0_stub(0).words) = 12 BY DEF irq0_stub, Pusha, Pushed
<1>5. isr_err_stub(3).words[10] = "error_code" BY DEF isr_err_stub, Pusha, Pushed
<1>6. field(irq0_stub(3), cpu_task_state, "useresp") = "useresp"
  BY <1>1, <1>2, Offsets DEF field
<1>7. field(syscall_stub, cpu_task_state, "useresp") = "useresp"
  BY <1>1, <1>3, Offsets DEF field
<1>8. field(isr_err_stub(3), cpu_exception_state, "error_code") = "error_code"
  BY <1>5, ErrorStub, Offsets DEF field
<1>9. \A use \in Nat : saved_esp(irq0_stub(3), 3, use) = use /\ saved_esp(syscall_stub, 3, use) = use
  BY <1>6, <1>7 DEF saved_esp
<1>10. ASSUME NEW use \in Nat, NEW l, l = Len(irq0_stub(0).words), NEW s, s = irq0_stub(0).state,
              NEW o, o = offset(cpu_task_state, "useresp")
       PROVE  saved_esp(irq0_stub(0), 0, use) = use
  <2>1. l = 12 /\ s = 1 /\ o = 13 BY <1>1, <1>4, <1>10, Offsets
  <2>2. saved_esp(irq0_stub(0), 0, use) = use + (l - s + 2 - o) BY <1>10 DEF saved_esp
  <2> QED BY <2>1, <2>2
<1> QED BY <1>8, <1>9, <1>10
-----------------------------------------------------------------------------
(***************************************************************************)
(* The invariant.  The user's stack is a chain of frames: the places c of  *)
(* the saved frame pointers, lowest first, of which each but the first     *)
(* leads to the one before it.  Under each lie the return address and the  *)
(* argument of its call, and nothing else, unless the task was resumed     *)
(* between two instructions of a call or a return or in a function that    *)
(* ends in pop %ebp.  Then a word that restore_task_context left may be    *)
(* one of the places c itself.                                             *)
(***************************************************************************)
Cell == [tag : {"arg", "ret", "ebp", "ds"}, at : 0 .. USTACK]

Chain(s, c, n, b) ==
  /\ c \in [0 .. n -> 1 .. Len(s)]
  /\ \A k \in 0 .. n : (~b => s[c[k]].tag = "ebp") /\ c[k] > 3 * k
  /\ \A j, k \in 0 .. n : j < k => c[j] + 2 < c[k]
  /\ \A k \in 1 .. n :
       /\ s[c[k]].tag = "ebp" => s[c[k]].at = c[k - 1]
       /\ ~b => s[c[k] - 1].tag = "ret" /\ s[c[k] - 2].tag = "arg"

(* The newest of n + 1 frames is at p. *)
Framed(s, n, b, p) ==
  \E c \in [0 .. n -> 1 .. Len(s)] : Chain(s, c, n, b) /\ c[n] = p

(* The call the code is in has no frame yet, or no longer. *)
Frameless == {"called", "pushed", "leaving"}

(* No frame at all yet. *)
First == phase = "entry" \/ (phase = "pushed" /\ depth = 0)

Frames ==
  program = "fine" =>
    LET n == IF phase \in Frameless THEN depth - 1 ELSE depth
    IN IF First THEN depth = 0 ELSE n \in Nat /\ Framed(stack, n, bare, ebp)

(* The return address and the argument are the words below place i. *)
Called(s, i) == s[i].tag = "ret" /\ s[i - 1].tag = "arg"

(* What lies on top of the newest frame in the middle of a call, and on top of *)
(* that of a function which ends in pop %ebp. *)
Pending ==
  program = "fine" =>
    LET L == Len(stack)
    IN /\ phase = "calling" => L > ebp /\ (~bare => stack[L].tag = "arg")
       /\ phase \in {"called", "leaving"} => L >= ebp + 2 /\ (~bare => Called(stack, L))
       /\ phase = "pushed" =>
            /\ L >= 1 /\ (~bare => stack[L].tag = "ebp")
            /\ depth > 0 => /\ L >= ebp + 3
                            /\ stack[L].tag = "ebp" => stack[L].at = ebp
                            /\ ~bare => Called(stack, L - 1)
       /\ phase = "leaf" =>
            /\ depth > 0
            /\ ~bare \/ stack[L].tag = "ebp" => L = ebp

(* The stack pointers that are saved are those the tasks had. *)
SavedRight ==
  /\ current = "user" => alive
  /\ alive /\ current # "user" => esp.user = Len(stack)
  /\ esp.idle = IDLE_USE + 2 * resumes
  /\ current # "idle" => esp.idle + HANDLER <= ISTACK

TrapsInv ==
  TypeOK /\ Frames /\ Pending /\ SavedRight /\ StraysOnlyIfBare /\ KernelLossExplained

-----------------------------------------------------------------------------
(* The constants. *)
LEMMA Numbers ==
  /\ USTACK \in Nat /\ ISTACK \in Nat /\ IDLE_USE \in Nat /\ HANDLER \in Nat
  /\ USTACK > 0 /\ IDLE_USE + HANDLER <= ISTACK
BY TrapsAssumption

(* What the type invariant says of the user's state. *)
LEMMA Typed ==
  ASSUME TypeOK
  PROVE  /\ stack \in Seq(Cell) /\ Len(stack) \in Nat /\ Len(stack) <= USTACK
         /\ alive \in BOOLEAN /\ bare \in BOOLEAN
         /\ ebp \in Nat /\ depth \in Nat /\ ebp <= USTACK /\ depth <= USTACK
         /\ phase \in {"entry", "calling", "called", "pushed", "body", "leaf", "leaving"}
         /\ program \in {"fine", "strayed"}
         /\ DOMAIN stack = 1 .. Len(stack)
<1>1. stack \in Seq(Cell) BY DEF TypeOK, Cell
<1>2. Len(stack) \in Nat /\ DOMAIN stack = 1 .. Len(stack) BY <1>1, LenProperties
<1>3. ebp \in 0 .. USTACK /\ depth \in 0 .. USTACK BY DEF TypeOK
<1> QED BY <1>1, <1>2, <1>3, Numbers DEF TypeOK

(* A chain, or the lower part of one, stays one on a stack that agrees so far. *)
LEMMA ChainPart ==
  ASSUME NEW s \in Seq(Cell), NEW t \in Seq(Cell), NEW n \in Nat, NEW m \in 0 .. n,
         NEW b, NEW b2, b => b2,
         NEW c, Chain(s, c, n, b), c[m] <= Len(t), \A i \in 1 .. c[m] : t[i] = s[i]
  PROVE  Framed(t, m, b2, c[m])
<1> DEFINE e == [k \in 0 .. m |-> c[k]]
<1>0. Len(s) \in Nat /\ Len(t) \in Nat BY LenProperties
<1>1. c \in [0 .. n -> 1 .. Len(s)] BY DEF Chain
<1>2. \A k \in 0 .. m : k \in 0 .. n /\ c[k] \in Nat /\ c[k] >= 1 /\ c[k] <= c[m]
  <2>1. SUFFICES ASSUME NEW k \in 0 .. m
                 PROVE  k \in 0 .. n /\ c[k] \in Nat /\ c[k] >= 1 /\ c[k] <= c[m]
    OBVIOUS
  <2>2. k \in 0 .. n /\ m \in 0 .. n OBVIOUS
  <2>3. c[k] \in 1 .. Len(s) /\ c[m] \in 1 .. Len(s) BY <1>1, <2>2
  <2>4. k < m => c[k] + 2 < c[m] BY <2>2 DEF Chain
  <2>5. k < m \/ k = m OBVIOUS
  <2> QED BY <1>0, <2>2, <2>3, <2>4, <2>5
<1>3. \A k \in 0 .. m : e[k] = c[k] OBVIOUS
<1>4. e \in [0 .. m -> 1 .. Len(t)] BY <1>0, <1>2
<1> HIDE DEF e
<1>5. \A k \in 0 .. m : (~b2 => t[e[k]].tag = "ebp") /\ e[k] > 3 * k
  <2>1. SUFFICES ASSUME NEW k \in 0 .. m PROVE (~b2 => t[c[k]].tag = "ebp") /\ c[k] > 3 * k BY <1>3
  <2>2. t[c[k]] = s[c[k]] BY <1>2
  <2>3. (~b => s[c[k]].tag = "ebp") /\ c[k] > 3 * k BY <1>2 DEF Chain
  <2> QED BY <2>2, <2>3
<1>6. \A j, k \in 0 .. m : j < k => e[j] + 2 < e[k]
  <2>1. \A j, k \in 0 .. m : j < k => c[j] + 2 < c[k] BY <1>2 DEF Chain
  <2> QED BY <2>1, <1>3
<1>7. \A k \in 1 .. m :
        /\ t[e[k]].tag = "ebp" => t[e[k]].at = e[k - 1]
        /\ ~b2 => t[e[k] - 1].tag = "ret" /\ t[e[k] - 2].tag = "arg"
  <2>1. SUFFICES ASSUME NEW k \in 1 .. m
                 PROVE  /\ t[c[k]].tag = "ebp" => t[c[k]].at = c[k - 1]
                        /\ ~b2 => t[c[k] - 1].tag = "ret" /\ t[c[k] - 2].tag = "arg"
    <3>1. \A k \in 1 .. m : k \in 0 .. m /\ k - 1 \in 0 .. m OBVIOUS
    <3> QED BY <1>3, <3>1
  <2>2. k \in 1 .. n /\ k \in 0 .. m /\ k - 1 \in 0 .. m /\ k - 1 \in 0 .. n /\ k \in 0 .. n OBVIOUS
  <2>3. c[k - 1] + 2 < c[k] BY <2>2 DEF Chain
  <2>4. c[k] - 1 \in 1 .. c[m] /\ c[k] - 2 \in 1 .. c[m] /\ c[k] \in 1 .. c[m]
    <3>1. c[k] \in Nat /\ c[k] <= c[m] BY <1>2, <2>2
    <3>2. c[k - 1] \in Nat /\ c[k - 1] >= 1 BY <1>2, <2>2
    <3>3. c[m] \in Nat
      <4>1. m \in 0 .. m OBVIOUS
      <4> QED BY <1>2, <4>1
    <3>4. \A x, y, z \in Nat : x >= 1 /\ x + 2 < y /\ y <= z
                               => y - 1 \in 1 .. z /\ y - 2 \in 1 .. z /\ y \in 1 .. z
      OBVIOUS
    <3> QED BY <2>3, <3>1, <3>2, <3>3, <3>4
  <2>5. /\ s[c[k]].tag = "ebp" => s[c[k]].at = c[k - 1]
        /\ ~b => s[c[k] - 1].tag = "ret" /\ s[c[k] - 2].tag = "arg"
    BY <2>2 DEF Chain
  <2>6. t[c[k]] = s[c[k]] /\ t[c[k] - 1] = s[c[k] - 1] /\ t[c[k] - 2] = s[c[k] - 2] BY <2>4
  <2> QED BY <2>5, <2>6
<1>8. Chain(t, e, m, b2) BY <1>4, <1>5, <1>6, <1>7 DEF Chain
<1>9. e[m] = c[m]
  <2>1. m \in 0 .. m OBVIOUS
  <2> QED BY <1>3, <2>1
<1> QED BY <1>4, <1>8, <1>9 DEF Framed

(* A new frame, on top of a call's argument and return address. *)
LEMMA ChainGrows ==
  ASSUME NEW s, NEW L \in Nat, Len(s) = L, NEW n \in Nat, NEW b, NEW c, Chain(s, c, n, b),
         L >= c[n] + 3,
         ~b => s[L].tag = "ebp" /\ s[L - 1].tag = "ret" /\ s[L - 2].tag = "arg",
         s[L].tag = "ebp" => s[L].at = c[n]
  PROVE  Framed(s, n + 1, b, L)
<1> DEFINE e == [k \in 0 .. n + 1 |-> IF k = n + 1 THEN L ELSE c[k]]
<1>2. c \in [0 .. n -> 1 .. L] BY DEF Chain
<1>3. \A k \in 0 .. n : e[k] = c[k] /\ c[k] \in 1 .. L
  <2>1. ASSUME NEW k \in 0 .. n PROVE e[k] = c[k] /\ c[k] \in 1 .. L
    <3>1. k \in 0 .. n + 1 /\ k # n + 1 OBVIOUS
    <3> QED BY <3>1, <1>2
  <2> QED BY <2>1
<1>4. e[n + 1] = L
  <2>1. n + 1 \in 0 .. n + 1 OBVIOUS
  <2> QED BY <2>1
<1>a. c[n] \in 1 .. L
  <2>1. n \in 0 .. n OBVIOUS
  <2> QED BY <2>1, <1>3
<1>5. e \in [0 .. n + 1 -> 1 .. L] BY <1>2, <1>a
<1>6. \A k \in 0 .. n + 1 : k \in 0 .. n \/ k = n + 1 OBVIOUS
<1>7. \A k \in 0 .. n : c[k] + 2 < L
  <2>1. SUFFICES ASSUME NEW k \in 0 .. n PROVE c[k] + 2 < L OBVIOUS
  <2>2. k < n => c[k] + 2 < c[n] BY DEF Chain
  <2>3. k < n \/ k = n OBVIOUS
  <2>4. c[k] \in 1 .. L BY <1>3
  <2> QED BY <2>2, <2>3, <2>4, <1>a
<1> HIDE DEF e
<1>8. \A k \in 0 .. n + 1 : (~b => s[e[k]].tag = "ebp") /\ e[k] > 3 * k
  <2>1. ASSUME NEW k \in 0 .. n PROVE (~b => s[e[k]].tag = "ebp") /\ e[k] > 3 * k
    <3>1. (~b => s[c[k]].tag = "ebp") /\ c[k] > 3 * k BY DEF Chain
    <3> QED BY <1>3, <3>1
  <2>2. ~b => s[e[n + 1]].tag = "ebp" BY <1>4
  <2>3. e[n + 1] > 3 * (n + 1)
    <3>1. n \in 0 .. n OBVIOUS
    <3>2. c[n] > 3 * n /\ c[n] \in Nat BY <3>1, <1>3 DEF Chain
    <3> QED BY <1>4, <3>2
  <2> QED BY <1>6, <2>1, <2>2, <2>3
<1>9. \A j, k \in 0 .. n + 1 : j < k => e[j] + 2 < e[k]
  <2>1. ASSUME NEW j \in 0 .. n + 1, NEW k \in 0 .. n + 1, j < k PROVE e[j] + 2 < e[k]
    <3>1. j \in 0 .. n BY <2>1
    <3>2. CASE k \in 0 .. n
      <4>1. c[j] + 2 < c[k] BY <2>1, <3>1, <3>2 DEF Chain
      <4> QED BY <1>3, <3>1, <3>2, <4>1
    <3>3. CASE k = n + 1 BY <1>3, <1>4, <1>7, <3>1, <3>3
    <3> QED BY <1>6, <3>2, <3>3
  <2> QED BY <2>1
<1>10. \A k \in 1 .. n + 1 :
         /\ s[e[k]].tag = "ebp" => s[e[k]].at = e[k - 1]
         /\ ~b => s[e[k] - 1].tag = "ret" /\ s[e[k] - 2].tag = "arg"
  <2>1. ASSUME NEW k \in 1 .. n
        PROVE  /\ s[e[k]].tag = "ebp" => s[e[k]].at = e[k - 1]
               /\ ~b => s[e[k] - 1].tag = "ret" /\ s[e[k] - 2].tag = "arg"
    <3>1. k \in 0 .. n /\ k - 1 \in 0 .. n OBVIOUS
    <3>2. /\ s[c[k]].tag = "ebp" => s[c[k]].at = c[k - 1]
          /\ ~b => s[c[k] - 1].tag = "ret" /\ s[c[k] - 2].tag = "arg"
      BY DEF Chain
    <3> QED BY <1>3, <3>1, <3>2
  <2>2. s[e[n + 1]].tag = "ebp" => s[e[n + 1]].at = e[n]
    <3>1. n \in 0 .. n OBVIOUS
    <3> QED BY <1>3, <1>4, <3>1
  <2>3. ~b => s[e[n + 1] - 1].tag = "ret" /\ s[e[n + 1] - 2].tag = "arg" BY <1>4
  <2>4. \A k \in 1 .. n + 1 : k \in 1 .. n \/ k = n + 1 OBVIOUS
  <2>5. n + 1 - 1 = n OBVIOUS
  <2>6. ASSUME NEW k \in 1 .. n + 1
        PROVE  /\ s[e[k]].tag = "ebp" => s[e[k]].at = e[k - 1]
               /\ ~b => s[e[k] - 1].tag = "ret" /\ s[e[k] - 2].tag = "arg"
    <3>1. CASE k \in 1 .. n BY <2>1, <3>1
    <3>2. CASE k = n + 1 BY <2>2, <2>3, <2>5, <3>2
    <3> QED BY <2>4, <3>1, <3>2
  <2> QED BY <2>6
<1>11. Chain(s, e, n + 1, b) BY <1>5, <1>8, <1>9, <1>10 DEF Chain
<1> QED BY <1>4, <1>5, <1>11 DEF Framed

-----------------------------------------------------------------------------
(* What the newest frame says. *)
LEMMA FramedTop ==
  ASSUME NEW s \in Seq(Cell), NEW n \in Nat, NEW b, NEW p, Framed(s, n, b, p)
  PROVE  p \in Nat /\ p >= 1 /\ p <= Len(s) /\ p > 3 * n /\ (~b => s[p].tag = "ebp")
<1>1. PICK c \in [0 .. n -> 1 .. Len(s)] : Chain(s, c, n, b) /\ c[n] = p BY DEF Framed
<1>2. n \in 0 .. n OBVIOUS
<1>3. Len(s) \in Nat BY LenProperties
<1>4. p \in 1 .. Len(s) BY <1>1, <1>2
<1>5. p > 3 * n /\ (~b => s[p].tag = "ebp") BY <1>1, <1>2 DEF Chain
<1> QED BY <1>3, <1>4, <1>5

(* Frames stay when the stack changes above them. *)
LEMMA FramedKeeps ==
  ASSUME NEW s \in Seq(Cell), NEW t \in Seq(Cell), NEW n \in Nat,
         NEW b, NEW b2, b => b2,
         NEW p, Framed(s, n, b, p), p <= Len(t), \A i \in 1 .. p : t[i] = s[i]
  PROVE  Framed(t, n, b2, p)
<1>1. PICK c \in [0 .. n -> 1 .. Len(s)] : Chain(s, c, n, b) /\ c[n] = p BY DEF Framed
<1>2. n \in 0 .. n OBVIOUS
<1>3. c[n] <= Len(t) /\ \A i \in 1 .. c[n] : t[i] = s[i] BY <1>1
<1>4. Framed(t, n, b2, c[n]) BY <1>1, <1>2, <1>3, ChainPart
<1> QED BY <1>1, <1>4

(* `leave' goes back to the frame below. *)
LEMMA FramedLeaves ==
  ASSUME NEW s \in Seq(Cell), NEW t \in Seq(Cell), NEW n \in Nat, n > 0,
         NEW b,
         NEW p \in Nat, Framed(s, n, b, p), Len(t) = p - 1, \A i \in 1 .. p - 1 : t[i] = s[i]
  PROVE  /\ s[p].tag = "ebp" => /\ Framed(t, n - 1, b, s[p].at)
                                /\ s[p].at \in Nat /\ s[p].at + 2 < p
         /\ p > 3
         /\ ~b => s[p - 1].tag = "ret" /\ s[p - 2].tag = "arg"
<1>1. PICK c \in [0 .. n -> 1 .. Len(s)] : Chain(s, c, n, b) /\ c[n] = p BY DEF Framed
<1>2. n \in 0 .. n /\ n \in 1 .. n /\ n - 1 \in 0 .. n /\ n - 1 \in Nat /\ n - 1 < n OBVIOUS
<1>3. /\ s[p].tag = "ebp" => s[p].at = c[n - 1]
      /\ c[n - 1] + 2 < p
      /\ ~b => s[p - 1].tag = "ret" /\ s[p - 2].tag = "arg"
  BY <1>1, <1>2 DEF Chain
<1>4. c[n - 1] \in 1 .. Len(s) /\ Len(s) \in Nat BY <1>1, <1>2, LenProperties
<1>5. c[n - 1] <= Len(t) /\ c[n - 1] \in Nat BY <1>3, <1>4
<1>6. \A i \in 1 .. c[n - 1] : t[i] = s[i]
  <2>1. \A i \in 1 .. c[n - 1] : i \in 1 .. p - 1 BY <1>3, <1>4
  <2> QED BY <2>1
<1>7. Framed(t, n - 1, b, c[n - 1])
  <2>1. b => b OBVIOUS
  <2> QED BY <1>1, <1>2, <1>5, <1>6, <2>1, ChainPart
<1> QED BY <1>3, <1>5, <1>7

(* `mov %esp, %ebp' adds one. *)
LEMMA FramedGrows ==
  ASSUME NEW s, NEW L \in Nat, Len(s) = L, NEW n \in Nat, NEW b,
         NEW p, Framed(s, n, b, p), L >= p + 3,
         ~b => s[L].tag = "ebp" /\ s[L - 1].tag = "ret" /\ s[L - 2].tag = "arg",
         s[L].tag = "ebp" => s[L].at = p
  PROVE  Framed(s, n + 1, b, L)
<1>1. PICK c \in [0 .. n -> 1 .. Len(s)] : Chain(s, c, n, b) /\ c[n] = p BY DEF Framed
<1>2. L >= c[n] + 3 /\ (s[L].tag = "ebp" => s[L].at = c[n]) BY <1>1
<1> QED BY <1>1, <1>2, ChainGrows

(* The first frame of a program. *)
LEMMA FramedFirst ==
  ASSUME NEW t, NEW L \in Nat, L >= 1, Len(t) = L, NEW b, ~b => t[L].tag = "ebp"
  PROVE  Framed(t, 0, b, L)
<1> DEFINE e == [k \in 0 .. 0 |-> L]
<1>1. e \in [0 .. 0 -> 1 .. Len(t)] /\ \A k \in 0 .. 0 : k = 0 /\ e[k] = L OBVIOUS
<1> HIDE DEF e
<1>2. e[0] = L BY <1>1
<1>3. Chain(t, e, 0, b)
  <2>1. \A k \in 0 .. 0 : (~b => t[e[k]].tag = "ebp") /\ e[k] > 3 * k BY <1>1
  <2>2. \A j, k \in 0 .. 0 : j < k => e[j] + 2 < e[k] BY <1>1
  <2>3. \A k : k \notin 1 .. 0 OBVIOUS
  <2> QED BY <1>1, <2>1, <2>2, <2>3 DEF Chain
<1> QED BY <1>1, <1>2, <1>3 DEF Framed

-----------------------------------------------------------------------------
(* A word is pushed. *)
LEMMA PushCell ==
  ASSUME NEW s \in Seq(Cell), NEW w \in Cell
  PROVE  /\ Append(s, w) \in Seq(Cell) /\ Len(Append(s, w)) = Len(s) + 1
         /\ \A i \in 1 .. Len(s) : Append(s, w)[i] = s[i]
         /\ Append(s, w)[Len(s) + 1] = w
BY AppendProperties

(* Words are popped. *)
LEMMA PopTo ==
  ASSUME NEW s \in Seq(Cell), NEW n \in Nat, n <= Len(s)
  PROVE  /\ SubSeq(s, 1, n) \in Seq(Cell) /\ Len(SubSeq(s, 1, n)) = n
         /\ \A i \in 1 .. n : SubSeq(s, 1, n)[i] = s[i]
<1>0. Len(s) \in Nat BY LenProperties
<1>1. \A i \in 1 .. n : s[i] \in Cell
  <2>1. \A i \in 1 .. n : i \in 1 .. Len(s) BY <1>0
  <2> QED BY <2>1, ElementOfSeq
<1>2. /\ SubSeq(s, 1, n) \in Seq(Cell)
      /\ Len(SubSeq(s, 1, n)) = IF 1 <= n THEN n - 1 + 1 ELSE 0
      /\ \A i \in 1 .. n - 1 + 1 : SubSeq(s, 1, n)[i] = s[1 + i - 1]
  <2>1. 1 \in Int /\ n \in Int OBVIOUS
  <2> QED BY <1>1, <2>1, SubSeqProperties
<1>3. Len(SubSeq(s, 1, n)) = n BY <1>2
<1>4. \A i \in 1 .. n : SubSeq(s, 1, n)[i] = s[i]
  <2>1. n - 1 + 1 = n /\ \A i \in 1 .. n : 1 + i - 1 = i OBVIOUS
  <2> QED BY <1>2, <2>1
<1> QED BY <1>2, <1>3, <1>4

(* While the program runs, the kernel's side stays as it is. *)
LEMMA UserRest ==
  ASSUME TrapsInv, status = "up", current = "user", alive' = alive,
         UNCHANGED <<current, esp, status, resumes, odd, misled>>
  PROVE  SavedRight' /\ KernelLossExplained'
<1>1. SavedRight' BY DEF TrapsInv, SavedRight
<1>2. KernelLossExplained' BY DEF KernelLossExplained
<1> QED BY <1>1, <1>2

(* An argument is pushed. *)
LEMMA ArgumentInv ==
  ASSUME TrapsInv, status = "up", current = "user", program = "fine", argument,
         UNCHANGED <<current, esp, status, resumes, odd, misled>>
  PROVE  TrapsInv'
<1> DEFINE L == Len(stack)
<1>1. TypeOK /\ Frames BY DEF TrapsInv
<1>2. /\ stack \in Seq(Cell) /\ L \in Nat /\ bare \in BOOLEAN /\ depth \in Nat BY <1>1, Typed
<1>3. /\ phase = "body" /\ L < USTACK /\ stack' = Append(stack, Word("arg")) /\ phase' = "calling"
      /\ alive' = alive /\ program' = program /\ bare' = bare /\ ebp' = ebp /\ depth' = depth
  BY DEF argument, push
<1>4. Word("arg") \in Cell /\ Word("arg").tag = "arg" BY Numbers DEF Cell, Word
<1>5. /\ stack' \in Seq(Cell) /\ Len(stack') = L + 1
      /\ \A i \in 1 .. L : stack'[i] = stack[i]
      /\ stack'[L + 1] = Word("arg")
  BY <1>2, <1>3, <1>4, PushCell
<1>6. Framed(stack, depth, bare, ebp) BY <1>1, <1>3 DEF Frames, Frameless, First
<1>7. ebp \in Nat /\ ebp >= 1 /\ ebp <= L BY <1>2, <1>6, FramedTop
<1>8. Framed(stack', depth, bare, ebp)
  <2>1. ebp <= Len(stack') /\ \A i \in 1 .. ebp : stack'[i] = stack[i] BY <1>2, <1>5, <1>7
  <2>2. bare => bare OBVIOUS
  <2> HIDE DEF L
  <2> QED BY <1>2, <1>5, <1>6, <2>1, <2>2, FramedKeeps
<1>9. Frames' BY <1>2, <1>3, <1>8 DEF Frames, Frameless, First
<1>10. Pending' BY <1>2, <1>3, <1>4, <1>5, <1>7 DEF Pending
<1>11. TypeOK'
  <2>1. Len(stack') <= USTACK BY <1>2, <1>3, <1>5, Numbers
  <2> QED BY <1>1, <1>3, <1>5, <2>1 DEF TypeOK, Cell
<1>12. StraysOnlyIfBare' BY <1>3 DEF StraysOnlyIfBare
<1> QED BY <1>3, <1>9, <1>10, <1>11, <1>12, UserRest DEF TrapsInv

(* A return address is pushed. *)
LEMMA CallInv ==
  ASSUME TrapsInv, status = "up", current = "user", program = "fine", call,
         UNCHANGED <<current, esp, status, resumes, odd, misled>>
  PROVE  TrapsInv'
<1> DEFINE L == Len(stack)
<1>1. TypeOK /\ Frames /\ Pending BY DEF TrapsInv
<1>2. /\ stack \in Seq(Cell) /\ L \in Nat /\ bare \in BOOLEAN /\ depth \in Nat BY <1>1, Typed
<1>3. /\ phase = "calling" /\ L < USTACK /\ stack' = Append(stack, Word("ret")) /\ phase' = "called"
      /\ alive' = alive /\ program' = program /\ bare' = bare /\ ebp' = ebp /\ depth' = depth + 1
  BY DEF call, push
<1>4. Word("ret") \in Cell /\ Word("ret").tag = "ret" BY Numbers DEF Cell, Word
<1>5. /\ stack' \in Seq(Cell) /\ Len(stack') = L + 1
      /\ \A i \in 1 .. L : stack'[i] = stack[i]
      /\ stack'[L + 1] = Word("ret")
  BY <1>2, <1>3, <1>4, PushCell
<1>6. Framed(stack, depth, bare, ebp) BY <1>1, <1>3 DEF Frames, Frameless, First
<1>7. ebp \in Nat /\ ebp >= 1 /\ ebp <= L /\ ebp > 3 * depth BY <1>2, <1>6, FramedTop
<1>8. Framed(stack', depth, bare, ebp)
  <2>1. ebp <= Len(stack') /\ \A i \in 1 .. ebp : stack'[i] = stack[i] BY <1>2, <1>5, <1>7
  <2>2. bare => bare OBVIOUS
  <2> HIDE DEF L
  <2> QED BY <1>2, <1>5, <1>6, <2>1, <2>2, FramedKeeps
<1>9. Frames'
  <2>1. depth' - 1 = depth BY <1>2, <1>3
  <2> QED BY <1>2, <1>3, <1>8, <2>1 DEF Frames, Frameless, First
<1>10. Pending'
  <2>1. L > ebp /\ (~bare => stack[L].tag = "arg") BY <1>1, <1>3 DEF Pending
  <2>2. L \in 1 .. L /\ (L + 1) - 1 = L BY <1>2, <1>7
  <2>3. stack'[L] = stack[L] BY <1>5, <2>2
  <2>4. L + 1 >= ebp + 2 BY <1>2, <1>7, <2>1
  <2> HIDE DEF L
  <2> QED BY <1>3, <1>4, <1>5, <2>1, <2>2, <2>3, <2>4 DEF Pending, Called
<1>11. TypeOK'
  <2>1. Len(stack') <= USTACK BY <1>2, <1>3, <1>5, Numbers
  <2>2. depth' \in 0 .. USTACK BY <1>2, <1>3, <1>7, Numbers
  <2> QED BY <1>1, <1>3, <1>5, <2>1, <2>2 DEF TypeOK, Cell
<1>12. StraysOnlyIfBare' BY <1>3 DEF StraysOnlyIfBare
<1> QED BY <1>3, <1>9, <1>10, <1>11, <1>12, UserRest DEF TrapsInv

(* The frame pointer is pushed: the program's first instruction, or that of a *)
(* function which was called. *)
LEMMA PushEbpInv ==
  ASSUME TrapsInv, status = "up", current = "user", program = "fine", push_ebp,
         UNCHANGED <<current, esp, status, resumes, odd, misled>>
  PROVE  TrapsInv'
<1> DEFINE L == Len(stack)
           w == [tag |-> "ebp", at |-> ebp]
<1>1. TypeOK /\ Frames /\ Pending BY DEF TrapsInv
<1>2. /\ stack \in Seq(Cell) /\ L \in Nat /\ bare \in BOOLEAN /\ depth \in Nat
      /\ ebp \in Nat /\ ebp <= USTACK
  BY <1>1, Typed
<1>3. /\ phase \in {"entry", "called"} /\ L < USTACK /\ stack' = Append(stack, w) /\ phase' = "pushed"
      /\ alive' = alive /\ program' = program /\ bare' = bare /\ ebp' = ebp /\ depth' = depth
  BY DEF push_ebp, push
<1>4. w \in Cell /\ w.tag = "ebp" /\ w.at = ebp BY <1>2, Numbers DEF Cell
<1> HIDE DEF w
<1>5. /\ stack' \in Seq(Cell) /\ Len(stack') = L + 1
      /\ \A i \in 1 .. L : stack'[i] = stack[i]
      /\ stack'[L + 1] = w
  BY <1>2, <1>3, <1>4, PushCell
<1>6. phase = "entry" => depth = 0 BY <1>1 DEF Frames, First
<1>7. phase = "called" => depth - 1 \in Nat /\ depth > 0 /\ Framed(stack, depth - 1, bare, ebp)
  BY <1>1, <1>2 DEF Frames, Frameless, First
<1>8. phase = "called" => L >= ebp + 2 /\ (~bare => stack[L].tag = "ret" /\ stack[L - 1].tag = "arg")
  BY <1>1 DEF Pending, Called
<1>9. Frames'
  <2>1. CASE phase = "entry" BY <1>3, <1>6, <2>1 DEF Frames, First
  <2>2. CASE phase = "called"
    <3>1. ebp >= 1 /\ ebp <= L BY <1>2, <1>7, <2>2, FramedTop
    <3>2. ebp <= Len(stack') /\ \A i \in 1 .. ebp : stack'[i] = stack[i] BY <1>2, <1>5, <3>1
    <3>3. bare => bare OBVIOUS
    <3>4. Framed(stack', depth - 1, bare, ebp)
      <4> HIDE DEF L
      <4> QED BY <1>2, <1>5, <1>7, <2>2, <3>2, <3>3, FramedKeeps
    <3> QED BY <1>3, <1>7, <2>2, <3>4 DEF Frames, Frameless, First
  <2> QED BY <1>3, <2>1, <2>2
<1>10. Pending'
  <2>1. stack'[L + 1].tag = "ebp" /\ stack'[L + 1].at = ebp BY <1>4, <1>5
  <2>2. depth > 0 => phase = "called" BY <1>3, <1>6
  <2>3. depth > 0 => L + 1 >= ebp + 3 BY <1>2, <1>8, <2>2
  <2>4. depth > 0 /\ ~bare => stack'[L].tag = "ret" /\ stack'[L - 1].tag = "arg"
    <3>1. depth > 0 => L \in 1 .. L /\ L - 1 \in 1 .. L BY <1>2, <1>8, <2>2
    <3> QED BY <1>5, <1>8, <2>2, <3>1
  <2>5. (L + 1) - 1 = L /\ L + 1 >= 1 BY <1>2
  <2> HIDE DEF L
  <2> QED BY <1>3, <1>5, <2>1, <2>3, <2>4, <2>5 DEF Pending, Called
<1>11. TypeOK'
  <2>1. Len(stack') <= USTACK BY <1>2, <1>3, <1>5, Numbers
  <2> QED BY <1>1, <1>3, <1>5, <2>1 DEF TypeOK, Cell
<1>12. StraysOnlyIfBare' BY <1>3 DEF StraysOnlyIfBare
<1> QED BY <1>3, <1>9, <1>10, <1>11, <1>12, UserRest DEF TrapsInv

(* The frame is set up: the program's first, or that of a call. *)
LEMMA MovEbpInv ==
  ASSUME TrapsInv, status = "up", current = "user", program = "fine", mov_ebp,
         UNCHANGED <<current, esp, status, resumes, odd, misled>>
  PROVE  TrapsInv'
<1> DEFINE L == Len(stack)
<1>1. TypeOK /\ Frames /\ Pending BY DEF TrapsInv
<1>2. /\ stack \in Seq(Cell) /\ L \in Nat /\ L <= USTACK /\ bare \in BOOLEAN /\ depth \in Nat
  BY <1>1, Typed
<1>3. /\ phase = "pushed" /\ ebp' = L
      /\ phase' \in {"body", "leaf"} /\ (depth = 0 => phase' = "body")
      /\ alive' = alive /\ stack' = stack /\ depth' = depth /\ program' = program /\ bare' = bare
  BY DEF mov_ebp
<1>4. /\ L >= 1 /\ (~bare => stack[L].tag = "ebp")
      /\ depth > 0 => /\ L >= ebp + 3
                      /\ stack[L].tag = "ebp" => stack[L].at = ebp
                      /\ ~bare => stack[L - 1].tag = "ret" /\ stack[L - 2].tag = "arg"
  <2>1. (L - 1) - 1 = L - 2 BY <1>2
  <2> QED BY <1>1, <1>3, <2>1 DEF Pending, Called
<1>5. Framed(stack, depth, bare, L)
  <2>0. Len(stack) = L OBVIOUS
  <2>1. CASE depth = 0
    <3> HIDE DEF L
    <3>1. Framed(stack, 0, bare, L) BY <1>2, <1>4, <2>0, FramedFirst
    <3> QED BY <2>1, <3>1
  <2>2. CASE depth > 0
    <3> DEFINE n == depth - 1
    <3>1. n \in Nat /\ Framed(stack, n, bare, ebp) /\ n + 1 = depth
      BY <1>1, <1>2, <1>3, <2>2 DEF Frames, Frameless, First
    <3> HIDE DEF L, n
    <3>2. Framed(stack, n + 1, bare, L) BY <1>2, <1>4, <2>0, <2>2, <3>1, FramedGrows
    <3> QED BY <3>1, <3>2
  <2> QED BY <1>2, <2>1, <2>2
<1>6. Frames' BY <1>2, <1>3, <1>5 DEF Frames, Frameless, First
<1>7. Pending' BY <1>2, <1>3 DEF Pending
<1>8. TypeOK'
  <2>1. ebp' \in 0 .. USTACK BY <1>2, <1>3, Numbers
  <2> QED BY <1>1, <1>3, <2>1 DEF TypeOK
<1>9. StraysOnlyIfBare' BY <1>3 DEF StraysOnlyIfBare
<1> QED BY <1>3, <1>6, <1>7, <1>8, <1>9, UserRest DEF TrapsInv

(* Whatever place is looked at, there is a word. *)
LEMMA AtCell ==
  ASSUME stack \in Seq(Cell), NEW i
  PROVE  At(i) \in Cell /\ At(i).at \in 0 .. USTACK
<1>1. Word("ds") \in Cell BY Numbers DEF Word, Cell
<1>2. DOMAIN stack = 1 .. Len(stack) BY LenProperties
<1>3. i \in DOMAIN stack => stack[i] \in Cell BY <1>2, ElementOfSeq
<1>4. At(i) \in Cell BY <1>1, <1>3 DEF At
<1> QED BY <1>4 DEF Cell

(* In the body of a function that was called, the words its code uses lie      *)
(* where it looks for them. *)
LEMMA BodyWords ==
  ASSUME TypeOK, Frames, program = "fine", phase \in {"body", "leaf"}, depth > 0
  PROVE  /\ ebp \in Nat /\ ebp > 3 /\ ebp <= Len(stack) /\ (~bare => At(ebp).tag = "ebp")
         /\ At(ebp).tag = "ebp" =>
              /\ At(ebp).at \in Nat /\ At(ebp).at + 2 < ebp
              /\ Framed(SubSeq(stack, 1, ebp - 1), depth - 1, bare, At(ebp).at)
         /\ ~bare => /\ At(ebp - 2).tag = "arg"
                     /\ SubSeq(stack, 1, ebp - 1)[ebp - 1].tag = "ret"
                     /\ SubSeq(stack, 1, ebp - 1)[ebp - 2].tag = "arg"
<1> DEFINE t == SubSeq(stack, 1, ebp - 1)
<1>1. /\ stack \in Seq(Cell) /\ Len(stack) \in Nat /\ bare \in BOOLEAN /\ depth \in Nat
      /\ DOMAIN stack = 1 .. Len(stack)
  BY Typed
<1>2. Framed(stack, depth, bare, ebp) BY DEF Frames, Frameless, First
<1>3. ebp \in Nat /\ ebp >= 1 /\ ebp <= Len(stack) /\ (~bare => stack[ebp].tag = "ebp")
  BY <1>1, <1>2, FramedTop
<1>4. t \in Seq(Cell) /\ Len(t) = ebp - 1 /\ \A i \in 1 .. ebp - 1 : t[i] = stack[i]
  <2>1. ebp - 1 \in Nat /\ ebp - 1 <= Len(stack) BY <1>1, <1>3
  <2> QED BY <1>1, <2>1, PopTo
<1> HIDE DEF t
<1>5. /\ stack[ebp].tag = "ebp" => /\ Framed(t, depth - 1, bare, stack[ebp].at)
                                   /\ stack[ebp].at \in Nat /\ stack[ebp].at + 2 < ebp
      /\ ebp > 3
      /\ ~bare => stack[ebp - 1].tag = "ret" /\ stack[ebp - 2].tag = "arg"
  BY <1>1, <1>2, <1>3, <1>4, FramedLeaves
<1>6. ebp \in DOMAIN stack /\ ebp - 2 \in DOMAIN stack /\ ebp - 1 \in 1 .. ebp - 1
      /\ ebp - 2 \in 1 .. ebp - 1
  BY <1>1, <1>3, <1>5
<1>7. At(ebp) = stack[ebp] /\ At(ebp - 2) = stack[ebp - 2] BY <1>6 DEF At
<1>8. t[ebp - 1] = stack[ebp - 1] /\ t[ebp - 2] = stack[ebp - 2] BY <1>4, <1>6
<1> QED BY <1>3, <1>5, <1>7, <1>8 DEF t

(* A function takes its argument, or a push meets the end of the stack. *)
LEMMA UseInv ==
  ASSUME TrapsInv, status = "up", current = "user", program = "fine", use_argument \/ overflow,
         UNCHANGED <<current, esp, status, resumes, odd, misled>>
  PROVE  TrapsInv'
<1>1. TypeOK /\ Frames /\ Pending BY DEF TrapsInv
<1>2. UNCHANGED <<alive, stack, ebp, depth, phase, bare>> BY DEF use_argument, overflow
<1>3. program' \in {"fine", "strayed"} BY DEF use_argument, overflow, Expects
<1>4. Frames' BY <1>1, <1>2 DEF Frames, First
<1>5. Pending' BY <1>1, <1>2 DEF Pending
<1>6. TypeOK' BY <1>1, <1>2, <1>3 DEF TypeOK
<1>7. StraysOnlyIfBare'
  <2>1. CASE overflow
    <3>1. Len(stack) = USTACK BY <2>1 DEF overflow
    <3> QED BY <1>2, <3>1, Numbers DEF StraysOnlyIfBare
  <2>2. CASE use_argument
    <3>1. ~bare => At(ebp - 2).tag = "arg" BY <1>1, <2>2, BodyWords DEF use_argument
    <3>2. ~bare => program' = "fine" BY <2>2, <3>1 DEF use_argument, Expects
    <3> QED BY <1>2, <3>2 DEF StraysOnlyIfBare
  <2> QED BY <2>1, <2>2
<1> QED BY <1>2, <1>4, <1>5, <1>6, <1>7, UserRest DEF TrapsInv

(* A frame is removed: all of it, with whatever a resume left on top, or only  *)
(* the word on top. *)
LEMMA LeaveInv ==
  ASSUME TrapsInv, status = "up", current = "user", program = "fine", leave \/ pop_ebp,
         UNCHANGED <<current, esp, status, resumes, odd, misled>>
  PROVE  TrapsInv'
<1> DEFINE L == Len(stack)
<1>1. TypeOK /\ Frames /\ Pending BY DEF TrapsInv
<1>2. /\ stack \in Seq(Cell) /\ L \in Nat /\ L <= USTACK
      /\ bare \in BOOLEAN /\ depth \in Nat /\ DOMAIN stack = 1 .. L
  BY <1>1, Typed
<1>3. phase \in {"body", "leaf"} /\ depth > 0
  BY <1>1 DEF leave, pop_ebp, Pending
<1>4. /\ ebp \in Nat /\ ebp > 3 /\ ebp <= L /\ (~bare => At(ebp).tag = "ebp")
      /\ At(ebp).tag = "ebp" =>
           /\ At(ebp).at \in Nat /\ At(ebp).at + 2 < ebp
           /\ Framed(SubSeq(stack, 1, ebp - 1), depth - 1, bare, At(ebp).at)
      /\ ~bare => /\ SubSeq(stack, 1, ebp - 1)[ebp - 1].tag = "ret"
                  /\ SubSeq(stack, 1, ebp - 1)[ebp - 2].tag = "arg"
  BY <1>1, <1>3, BodyWords
<1>5. PICK q \in Nat : /\ q >= ebp /\ q <= L
                       /\ program' = IF At(q).tag = "ebp" THEN program ELSE "strayed"
                       /\ stack' = SubSeq(stack, 1, q - 1)
                       /\ ebp' = At(q).at
                       /\ (~bare \/ At(q).tag = "ebp" => q = ebp)
  <2>1. CASE leave BY <1>2, <1>4, <2>1 DEF leave, Expects
  <2>2. CASE pop_ebp
    <3>1. L \in DOMAIN stack BY <1>2, <1>4
    <3>2. At(L) = stack[L] BY <3>1 DEF At
    <3>3. ~bare \/ stack[L].tag = "ebp" => L = ebp BY <1>1, <2>2 DEF pop_ebp, Pending
    <3>4. L >= ebp /\ L <= L BY <1>2, <1>4
    <3>5. /\ program' = IF At(L).tag = "ebp" THEN program ELSE "strayed"
          /\ stack' = SubSeq(stack, 1, L - 1)
          /\ ebp' = At(L).at
      BY <2>2, Zenon DEF pop_ebp, Expects
    <3>6. ~bare \/ At(L).tag = "ebp" => L = ebp
      BY <3>2, <3>3, Zenon
    <3> HIDE DEF L
    <3> QED BY <1>2, <3>4, <3>5, <3>6, Zenon
  <2> QED BY <2>1, <2>2
<1>6. phase' = "leaving" /\ alive' = alive /\ depth' = depth /\ bare' = bare
  BY DEF leave, pop_ebp
<1>7. stack' \in Seq(Cell) /\ Len(stack') = q - 1 /\ q - 1 \in Nat
  <2>1. q - 1 \in Nat /\ q - 1 <= Len(stack) BY <1>2, <1>4, <1>5
  <2> QED BY <1>2, <1>5, <2>1, PopTo
<1>8. program' \in {"fine", "strayed"} /\ (program' = "fine" => At(q).tag = "ebp") BY <1>5
<1>9. Frames' /\ Pending'
  <2>1. CASE program' # "fine" BY <2>1 DEF Frames, Pending
  <2>2. CASE program' = "fine"
    <3>1. q = ebp /\ At(ebp).tag = "ebp" BY <1>5, <1>8, <2>2
    <3>2. /\ ebp' \in Nat /\ ebp' + 2 < ebp /\ Framed(stack', depth - 1, bare, ebp')
          /\ ~bare => stack'[ebp - 1].tag = "ret" /\ stack'[ebp - 2].tag = "arg"
      BY <1>4, <1>5, <3>1
    <3>3. PICK e \in Nat : ebp' = e /\ e + 2 < ebp BY <3>2
    <3>4. depth - 1 \in Nat BY <1>2, <1>3
    <3>5. (ebp - 1) - 1 = ebp - 2 /\ ebp - 1 >= ebp' + 2 BY <1>4, <3>3
    <3>6. Frames' BY <1>6, <3>2, <3>4 DEF Frames, Frameless, First
    <3>7. Pending' BY <1>6, <1>7, <3>1, <3>2, <3>5 DEF Pending, Called
    <3> QED BY <3>6, <3>7
  <2> QED BY <2>1, <2>2
<1>10. TypeOK'
  <2>1. ebp' \in 0 .. USTACK BY <1>2, <1>5, AtCell
  <2>2. Len(stack') <= USTACK BY <1>2, <1>5, <1>7, Numbers
  <2> QED BY <1>1, <1>6, <1>7, <1>8, <2>1, <2>2 DEF TypeOK, Cell
<1>11. StraysOnlyIfBare'
  <2>1. ~bare => program' = "fine" BY <1>4, <1>5
  <2> QED BY <1>6, <2>1 DEF StraysOnlyIfBare
<1> QED BY <1>6, <1>9, <1>10, <1>11, UserRest DEF TrapsInv

(* A function returns. *)
LEMMA RetInv ==
  ASSUME TrapsInv, status = "up", current = "user", program = "fine", ret,
         UNCHANGED <<current, esp, status, resumes, odd, misled>>
  PROVE  TrapsInv'
<1> DEFINE L == Len(stack)
<1>1. TypeOK /\ Frames /\ Pending BY DEF TrapsInv
<1>2. /\ stack \in Seq(Cell) /\ L \in Nat /\ L <= USTACK /\ DOMAIN stack = 1 .. L
      /\ bare \in BOOLEAN /\ depth \in Nat /\ depth <= USTACK
  BY <1>1, Typed
<1>3. /\ phase = "leaving" /\ stack' = SubSeq(stack, 1, L - 2)
      /\ depth' = depth - 1 /\ phase' = "body"
      /\ alive' = alive /\ ebp' = ebp /\ bare' = bare
      /\ program' = IF At(L).tag = "ret" THEN program ELSE "strayed"
  BY DEF ret, Expects
<1>4. depth - 1 \in Nat /\ Framed(stack, depth - 1, bare, ebp)
  BY <1>1, <1>3 DEF Frames, Frameless, First
<1>5. L >= ebp + 2 /\ (~bare => stack[L].tag = "ret")
  BY <1>1, <1>3 DEF Pending, Called
<1>6. ebp \in Nat /\ ebp >= 1 BY <1>2, <1>4, FramedTop
<1>7. stack' \in Seq(Cell) /\ Len(stack') = L - 2 /\ \A i \in 1 .. L - 2 : stack'[i] = stack[i]
  <2>1. L - 2 \in Nat /\ L - 2 <= Len(stack) BY <1>2, <1>5, <1>6
  <2> QED BY <1>2, <1>3, <2>1, PopTo
<1>8. Framed(stack', depth - 1, bare, ebp)
  <2>1. ebp <= Len(stack') /\ \A i \in 1 .. ebp : stack'[i] = stack[i] BY <1>2, <1>5, <1>6, <1>7
  <2>2. bare => bare OBVIOUS
  <2> HIDE DEF L
  <2> QED BY <1>2, <1>4, <1>7, <2>1, <2>2, FramedKeeps
<1>9. Frames' BY <1>3, <1>4, <1>8 DEF Frames, Frameless, First
<1>10. Pending' BY <1>3 DEF Pending
<1>11. TypeOK'
  <2>1. depth' \in 0 .. USTACK /\ Len(stack') <= USTACK BY <1>2, <1>3, <1>4, <1>7, Numbers
  <2>2. program' \in {"fine", "strayed"} BY <1>3
  <2> QED BY <1>1, <1>3, <1>7, <2>1, <2>2 DEF TypeOK, Cell
<1>12. StraysOnlyIfBare'
  <2>1. L \in DOMAIN stack BY <1>2, <1>5, <1>6
  <2>2. ~bare => program' = "fine" BY <1>3, <1>5, <2>1 DEF At
  <2> QED BY <1>3, <2>2 DEF StraysOnlyIfBare
<1> QED BY <1>3, <1>9, <1>10, <1>11, <1>12, UserRest DEF TrapsInv

(* Every instruction of the program. *)
LEMMA UserCodeInv == TrapsInv /\ user_code => TrapsInv'
BY ArgumentInv, CallInv, PushEbpInv, MovEbpInv, UseInv, LeaveInv, RetInv DEF user_code

-----------------------------------------------------------------------------
(* What load_context saves of the task that runs, from the clock's frame or    *)
(* the system call's, is where its stack was. *)
LEMMA SavedIs ==
  ASSUME TrapsInv, NEW f, f = irq0_stub(Ring) \/ (f = syscall_stub /\ current # "idle")
  PROVE  /\ Saved(f) \in [user : 0 .. USTACK, idle : IDLE_USE .. ISTACK - HANDLER + 2]
         /\ Saved(f).idle = esp.idle
         /\ alive => Saved(f).user = Len(stack)
<1>1. TypeOK /\ SavedRight BY DEF TrapsInv
<1>2. esp \in [user : 0 .. USTACK, idle : IDLE_USE .. ISTACK - HANDLER + 2] BY <1>1 DEF TypeOK
<1>3. Len(stack) \in Nat /\ Len(stack) <= USTACK BY <1>1, Typed
<1>4. current \in {"user", "idle", "other"} BY <1>1 DEF TypeOK, Task
<1>5. CASE current = "user"
  <2>1. saved_esp(f, 3, Len(stack)) = Len(stack)
    <3>1. Ring = 3 BY <1>5 DEF Ring
    <3> QED BY <1>3, <3>1, FieldsRight
  <2>2. Saved(f) = [esp EXCEPT !.user = Len(stack)] BY <1>5, <2>1 DEF Saved
  <2> QED BY <1>2, <1>3, <2>2, Numbers
<1>6. CASE current = "idle"
  <2>1. esp.idle \in Nat BY <1>2, Numbers
  <2>2. saved_esp(f, 0, esp.idle) = esp.idle
    <3>1. Ring = 0 BY <1>6 DEF Ring
    <3> QED BY <1>6, <2>1, <3>1, FieldsRight
  <2>3. Saved(f) = [esp EXCEPT !.idle = esp.idle] BY <1>6, <2>2 DEF Saved
  <2>4. Saved(f) = esp BY <1>2, <2>3
  <2>5. alive => esp.user = Len(stack) BY <1>1, <1>6 DEF SavedRight
  <2> QED BY <1>2, <2>4, <2>5
<1>7. CASE current = "other"
  <2>1. Saved(f) = esp BY <1>7 DEF Saved
  <2>2. alive => esp.user = Len(stack) BY <1>1, <1>7 DEF SavedRight
  <2> QED BY <1>2, <2>1, <2>2
<1> QED BY <1>4, <1>5, <1>6, <1>7

(* Another task is resumed. *)
LEMMA ResumeInv ==
  ASSUME TrapsInv, status = "up", NEW saved, NEW living \in BOOLEAN, odd' = odd, misled' = misled,
         saved \in [user : 0 .. USTACK, idle : IDLE_USE .. ISTACK - HANDLER + 2],
         saved.idle = esp.idle, esp.idle + HANDLER <= ISTACK,
         living => alive /\ (saved.user = Len(stack)),
         resume(saved, living)
  PROVE  TrapsInv'
<1> DEFINE L == Len(stack)
           W == [user : 0 .. USTACK, idle : IDLE_USE .. ISTACK - HANDLER + 2]
<1>1. TypeOK /\ Frames /\ Pending /\ SavedRight /\ StraysOnlyIfBare BY DEF TrapsInv
<1>2. /\ stack \in Seq(Cell) /\ L \in Nat /\ L <= USTACK /\ bare \in BOOLEAN /\ depth \in Nat
      /\ program \in {"fine", "strayed"} /\ ebp \in Nat
      /\ phase \in {"entry", "calling", "called", "pushed", "body", "leaf", "leaving"}
  BY <1>1, Typed
<1>3. PICK t \in Task \ {current} :
        /\ t = "user" => living
        /\ current' = t
        /\ alive' = living
        /\ IF t = "user" THEN restore_user(saved.user) ELSE UNCHANGED <<status, stack, bare, program>>
        /\ IF t = "idle"
           THEN /\ esp' = [saved EXCEPT !.idle = restored_esp(0, saved.idle)]
                /\ resumes' = resumes + 1
           ELSE esp' = saved /\ UNCHANGED resumes
        /\ UNCHANGED <<ebp, depth, phase>>
  BY DEF resume
<1>4. esp.idle = IDLE_USE + 2 * resumes /\ resumes \in Nat /\ resumes' \in Nat
  BY <1>1, <1>3 DEF SavedRight, TypeOK
<1>5. /\ esp' \in W /\ esp'.user = saved.user
      /\ esp'.idle = IDLE_USE + 2 * resumes'
      /\ t # "idle" => esp'.idle + HANDLER <= ISTACK
  <2>1. CASE t = "idle"
    <3>1. esp' = [saved EXCEPT !.idle = esp.idle + 2] /\ resumes' = resumes + 1
      BY <1>3, <2>1 DEF restored_esp
    <3>2. esp.idle + 2 \in IDLE_USE .. ISTACK - HANDLER + 2 BY <1>4, Numbers
    <3>3. esp' \in W /\ esp'.user = saved.user /\ esp'.idle = esp.idle + 2 BY <3>1, <3>2
    <3>4. esp.idle + 2 = IDLE_USE + 2 * resumes' BY <1>4, <3>1, Numbers
    <3> HIDE DEF W
    <3> QED BY <2>1, <3>3, <3>4
  <2>2. CASE t # "idle" BY <1>3, <1>4, <2>2
  <2> QED BY <2>1, <2>2
<1>7. /\ stack' \in Seq(Cell) /\ Len(stack') <= USTACK /\ bare' \in BOOLEAN
      /\ program' \in {"fine", "strayed"} /\ status' \in {"up", "halted", "wild"}
      /\ t # "user" => stack' = stack
      /\ Frames' /\ Pending' /\ StraysOnlyIfBare'
      /\ program' = "fine" => status' = "up"
  <2>1. CASE UNCHANGED <<stack, bare>> /\ program' \in {"fine", "strayed"}
             /\ status' \in {"up", "halted", "wild"}
             /\ (program' = "strayed" => program = "strayed" \/ L + 5 > USTACK)
             /\ (program' = "fine" => program = "fine" /\ status' = "up")
    <3>1. Frames' BY <1>1, <1>3, <2>1 DEF Frames, First
    <3>2. Pending' BY <1>1, <1>3, <2>1 DEF Pending
    <3>3. StraysOnlyIfBare' BY <1>1, <2>1 DEF StraysOnlyIfBare
    <3> QED BY <1>2, <2>1, <3>1, <3>2, <3>3
  <2>2. CASE t = "user" /\ program = "fine" /\ saved.user + 5 <= USTACK
             /\ stack' = SubSeq(stack, 1, restored_esp(3, saved.user) - 1) \o <<Word("ds")>>
             /\ bare' = (bare \/ phase \notin {"entry", "body"})
             /\ UNCHANGED <<program, status>>
    <3>1. saved.user = L BY <1>3, <2>2
    <3>2. restored_esp(3, saved.user) - 1 = L BY <1>2, <3>1 DEF restored_esp
    <3>3. SubSeq(stack, 1, L) = stack BY <1>2, SubSeqFull
    <3>4. Word("ds") \in Cell BY Numbers DEF Word, Cell
    <3>5. stack' = stack \o <<Word("ds")>> BY <2>2, <3>2, <3>3
    <3>6. stack' = Append(stack, Word("ds")) BY <1>2, <3>4, <3>5, AppendIsConcat
    <3>7. /\ stack' \in Seq(Cell) /\ Len(stack') = L + 1
          /\ \A i \in 1 .. L : stack'[i] = stack[i]
          /\ stack'[L + 1] = Word("ds")
      BY <1>2, <3>4, <3>6, PushCell
    <3>8. bare' \in BOOLEAN /\ (bare => bare') /\ (phase \notin {"entry", "body"} => bare') BY <2>2
    <3>9. Len(stack') <= USTACK BY <1>2, <2>2, <3>1, <3>7, Numbers
    <3>10. ASSUME NEW n \in Nat, Framed(stack, n, bare, ebp) PROVE Framed(stack', n, bare', ebp)
      <4>1. ebp >= 1 /\ ebp <= L BY <1>2, <3>10, FramedTop
      <4>2. ebp <= Len(stack') /\ \A i \in 1 .. ebp : stack'[i] = stack[i] BY <1>2, <3>7, <4>1
      <4> HIDE DEF L
      <4> QED BY <1>2, <3>7, <3>8, <3>10, <4>2, FramedKeeps
    <3>11. Frames' BY <1>1, <1>2, <1>3, <2>2, <3>10 DEF Frames, First
    <3>12. Pending'
      <4>1. phase = "calling" => L > ebp BY <1>1, <2>2 DEF Pending
      <4>2. phase \in {"called", "leaving"} => L >= ebp + 2 BY <1>1, <2>2 DEF Pending
      <4>3. phase \in {"calling", "called", "leaving", "pushed", "leaf"} => bare' BY <3>8
      <4>4. phase = "pushed" /\ depth > 0 => L >= ebp + 3 BY <1>1, <2>2 DEF Pending
      <4>5. phase = "leaf" => depth > 0 BY <1>1, <2>2 DEF Pending
      <4>6. stack'[L + 1].tag = "ds" BY <3>7 DEF Word
      <4>7. /\ L > ebp => L + 1 > ebp
            /\ L >= ebp + 2 => L + 1 >= ebp + 2
            /\ L >= ebp + 3 => L + 1 >= ebp + 3
            /\ L + 1 >= 1
        BY <1>2
      <4> HIDE DEF L
      <4> QED BY <1>3, <3>7, <4>1, <4>2, <4>3, <4>4, <4>5, <4>6, <4>7 DEF Pending
    <3>13. StraysOnlyIfBare' BY <2>2 DEF StraysOnlyIfBare
    <3> QED BY <2>2, <3>7, <3>8, <3>9, <3>11, <3>12, <3>13
  <2>3. CASE t # "user"
    <3>1. UNCHANGED <<status, stack, bare, program>> BY <1>3, <2>3
    <3> QED BY <1>2, <2>1, <3>1
  <2>4. CASE t = "user"
    <3>1. restore_user(saved.user) /\ saved.user = L BY <1>3, <2>4
    <3> QED BY <1>2, <2>1, <2>2, <2>4, <3>1 DEF restore_user
  <2> QED BY <2>3, <2>4
<1>8. TypeOK'
  <2>1. current' \in Task BY <1>3
  <2> QED BY <1>1, <1>3, <1>4, <1>5, <1>7, <2>1 DEF TypeOK, Cell
<1>9. SavedRight'
  <2>1. alive' /\ current' # "user" => esp'.user = Len(stack') BY <1>3, <1>5, <1>7
  <2> QED BY <1>3, <1>5, <2>1 DEF SavedRight
<1>10. KernelLossExplained' BY <1>7 DEF KernelLossExplained
<1> QED BY <1>7, <1>8, <1>9, <1>10 DEF TrapsInv

(* Only the kernel's status and the last exception change. *)
LEMMA StillInv ==
  ASSUME TrapsInv, UNCHANGED <<current, esp, user, resumes>>, odd' \in 0 .. 32,
         misled' \in {"no", "touched", "overwrote"}, status' \in {"up", "halted", "wild"}, KernelLossExplained'
  PROVE  TrapsInv'
<1>1. TypeOK' BY DEF TrapsInv, TypeOK, user
<1>2. Frames' BY DEF TrapsInv, Frames, First, user
<1>3. Pending' BY DEF TrapsInv, Pending, user
<1>4. SavedRight' BY DEF TrapsInv, SavedRight, user
<1>5. StraysOnlyIfBare' BY DEF TrapsInv, StraysOnlyIfBare, user
<1> QED BY <1>1, <1>2, <1>3, <1>4, <1>5 DEF TrapsInv

(* The boot stack is used up. *)
LEMMA NoRoomInv ==
  ASSUME TrapsInv, NoRoom, Ends("wild"), odd' = odd, misled' = misled
  PROVE  TrapsInv'
<1>1. odd \in 0 .. 32 /\ misled \in {"no", "touched", "overwrote"} BY DEF TrapsInv, TypeOK
<1>2. esp.idle = IDLE_USE + 2 * resumes BY DEF TrapsInv, SavedRight
<1>3. KernelLossExplained' BY <1>2 DEF KernelLossExplained, Ends, NoRoom
<1> QED BY <1>1, <1>3, StillInv DEF Ends

(* The clock: the handler returns, switches, or finds no room on the stack. *)
LEMMA TimerInv == TrapsInv /\ timer_interrupt_handler => TrapsInv'
<1> SUFFICES ASSUME TrapsInv, timer_interrupt_handler PROVE TrapsInv' OBVIOUS
<1>1. /\ status = "up" /\ odd \in 0 .. 32 /\ misled \in {"no", "touched", "overwrote"}
      /\ odd' = odd /\ misled' = misled
  BY DEF timer_interrupt_handler, TrapsInv, TypeOK
<1>2. CASE NoRoom
  BY <1>1, <1>2, NoRoomInv DEF timer_interrupt_handler
<1>3. CASE ~NoRoom
  <2>0. Ring \in {0, 3} BY DEF Ring
  <2>1. CASE UNCHANGED vars
    <3>1. KernelLossExplained' BY <1>1, <2>1 DEF KernelLossExplained, vars
    <3> QED BY <1>1, <2>1, <3>1, StillInv DEF vars
  <2>2. CASE resume(Saved(irq0_stub(Ring)), alive)
    <3>1. alive \in BOOLEAN BY Typed DEF TrapsInv
    <3>2. esp.idle + HANDLER <= ISTACK
      <4>1. current # "idle" => esp.idle + HANDLER <= ISTACK BY DEF TrapsInv, SavedRight
      <4>2. esp.idle \in Nat BY Numbers DEF TrapsInv, TypeOK
      <4> QED BY <1>3, <4>1, <4>2, Numbers DEF NoRoom
    <3> DEFINE f == irq0_stub(Ring)
    <3>3. /\ Saved(f) \in [user : 0 .. USTACK, idle : IDLE_USE .. ISTACK - HANDLER + 2]
          /\ Saved(f).idle = esp.idle
          /\ alive => Saved(f).user = Len(stack)
      BY SavedIs
    <3> HIDE DEF f
    <3>4. resume(Saved(f), alive) BY <2>2 DEF f
    <3> QED BY <1>1, <2>2, <3>1, <3>2, <3>3, <3>4, ResumeInv
  <2> QED BY <1>3, <2>0, <2>1, <2>2, StubsReturn DEF timer_interrupt_handler
<1> QED BY <1>2, <1>3

(* A task that ends itself, or is ended by a page fault, is not resumed. *)
LEMMA ExitInv ==
  ASSUME TrapsInv, status = "up", current # "idle", odd' = odd, misled' = misled,
         resume(esp, alive /\ current # "user")
  PROVE  TrapsInv'
<1> DEFINE l == alive /\ current # "user"
<1>1. alive \in BOOLEAN BY Typed DEF TrapsInv
<1>2. l \in BOOLEAN OBVIOUS
<1>3. esp \in [user : 0 .. USTACK, idle : IDLE_USE .. ISTACK - HANDLER + 2]
  BY DEF TrapsInv, TypeOK
<1>4. esp.idle + HANDLER <= ISTACK BY DEF TrapsInv, SavedRight
<1>5. l => alive /\ (esp.user = Len(stack)) BY DEF TrapsInv, SavedRight
<1>6. resume(esp, l) OBVIOUS
<1> HIDE DEF l
<1> QED BY <1>2, <1>3, <1>4, <1>5, <1>6, ResumeInv

(* A system call returns, sleeps, exits or overwrites the kernel. *)
LEMMA SyscallInv == TrapsInv /\ syscall_handler => TrapsInv'
<1> SUFFICES ASSUME TrapsInv, syscall_handler PROVE TrapsInv' OBVIOUS
<1>1. /\ status = "up" /\ odd \in 0 .. 32 /\ misled \in {"no", "touched", "overwrote"}
      /\ current # "idle" /\ odd' = odd
  BY DEF syscall_handler, TrapsInv, TypeOK
<1>2. CASE UNCHANGED <<current, esp, status, user, resumes>> /\ UNCHANGED misled
  <2>1. KernelLossExplained' BY <1>1, <1>2 DEF KernelLossExplained
  <2> QED BY <1>1, <1>2, <2>1, StillInv
<1>3. CASE resume(Saved(syscall_stub), alive) /\ UNCHANGED misled
  <2>1. alive \in BOOLEAN BY Typed DEF TrapsInv
  <2>2. esp.idle + HANDLER <= ISTACK BY <1>1 DEF TrapsInv, SavedRight
  <2>3. /\ Saved(syscall_stub) \in [user : 0 .. USTACK, idle : IDLE_USE .. ISTACK - HANDLER + 2]
        /\ Saved(syscall_stub).idle = esp.idle
        /\ alive => Saved(syscall_stub).user = Len(stack)
    BY <1>1, SavedIs
  <2> QED BY <1>1, <1>3, <2>1, <2>2, <2>3, ResumeInv
<1>4. CASE resume(esp, alive /\ current # "user") /\ UNCHANGED misled BY <1>1, <1>4, ExitInv
<1>5. CASE Ends("wild") /\ misled' = "overwrote"
  <2>1. KernelLossExplained' BY <1>5 DEF KernelLossExplained, Ends
  <2> QED BY <1>1, <1>5, <2>1, StillInv DEF Ends
<1> QED BY <1>2, <1>3, <1>4, <1>5, StubsReturn DEF syscall_handler

(* The three ways out of exception_handler for a program. *)
LEMMA ExceptionInv == TrapsInv /\ user_exception => TrapsInv'
<1> SUFFICES ASSUME TrapsInv, user_exception PROVE TrapsInv' OBVIOUS
<1>1. /\ status = "up" /\ odd \in 0 .. 32 /\ misled \in {"no", "touched", "overwrote"}
      /\ current # "idle" /\ misled' = misled
  BY DEF user_exception, TrapsInv, TypeOK
<1> DEFINE stub(v) == IF v \in HasCode THEN isr_err_stub(3) ELSE isr_no_err_stub(3)
<1>2. PICK v \in Vector :
        /\ CASE stub(v).state = 0 -> Ends("halted")
              [] stub(v).state # 0 /\ v = 14 ->
                   IF 3 = 3 /\ field(stub(v), cpu_exception_state, "error_code") = "error_code"
                   THEN resume(esp, alive /\ current # "user") ELSE Ends("halted")
              [] stub(v).state # 0 /\ v # 14 ->
                   IF Returns(stub(v)) THEN UNCHANGED <<current, esp, status, user, resumes>>
                   ELSE Ends("wild")
        /\ odd' = IF v = 14 THEN odd ELSE v
  BY DEF user_exception, exception_handler
<1>3. v \in 0 .. 31 BY TrapsAssumption
<1>4. CASE v \notin HasCode
  <2>1. stub(v) = isr_no_err_stub(3) /\ stub(v).state = 0 BY <1>4, ErrorStub
  <2>2. Ends("halted") BY <1>2, <2>1
  <2>3. v # 14 /\ odd' = v BY <1>2, <1>4 DEF HasCode
  <2>4. KernelLossExplained' BY <1>3, <1>4, <2>2, <2>3 DEF KernelLossExplained, Ends
  <2> QED BY <1>1, <1>3, <2>2, <2>3, <2>4, StillInv DEF Ends
<1>5. CASE v \in HasCode /\ v = 14
  <2>1. stub(v) = isr_err_stub(3) /\ stub(v).state # 0 BY <1>5, ErrorStub
  <2>2. resume(esp, alive /\ current # "user") BY <1>2, <1>5, <2>1, FieldsRight
  <2> QED BY <1>1, <1>2, <1>5, <2>2, ExitInv
<1>6. CASE v \in HasCode /\ v # 14
  <2>1. stub(v) = isr_err_stub(3) /\ stub(v).state # 0 BY <1>6, ErrorStub
  <2>2. Ends("wild") BY <1>2, <1>6, <2>1, ErrorStub
  <2>3. odd' = v BY <1>2, <1>6
  <2>4. KernelLossExplained' BY <1>6, <2>2, <2>3 DEF KernelLossExplained, Ends
  <2> QED BY <1>1, <1>3, <2>2, <2>3, <2>4, StillInv DEF Ends
<1> QED BY <1>4, <1>5, <1>6

(* A page fault of the kernel is the end. *)
LEMMA KernelFaultInv == TrapsInv /\ kernel_fault => TrapsInv'
<1> SUFFICES ASSUME TrapsInv, kernel_fault PROVE TrapsInv' OBVIOUS
<1>1. odd \in 0 .. 32 /\ odd' = odd BY DEF kernel_fault, TrapsInv, TypeOK
<1>2. CASE NoRoom BY <1>1, <1>2, NoRoomInv DEF kernel_fault
<1>3. CASE ~NoRoom
  <2>1. misled' = "touched" /\ exception_handler(0, 14) BY <1>3 DEF kernel_fault
  <2>2. 14 \in HasCode BY DEF HasCode
  <2>3. isr_err_stub(0).state = 1 BY ErrorStub
  <2>4. Ends("halted")
    <3>1. ASSUME NEW ring, ring = 0, NEW v, v = 14, exception_handler(ring, v) PROVE Ends("halted")
      <4>1. v \in HasCode /\ isr_err_stub(ring).state # 0 BY <2>2, <2>3, <3>1
      <4> QED BY <3>1, <4>1 DEF exception_handler
    <3> QED BY <2>1, <3>1
  <2>5. KernelLossExplained' BY <2>1, <2>4 DEF KernelLossExplained, Ends
  <2> QED BY <1>1, <2>1, <2>4, <2>5, StillInv DEF Ends
<1> QED BY <1>2, <1>3

(* A new program starts on an empty stack. *)
LEMMA CreateInv == TrapsInv /\ create_task => TrapsInv'
<1> SUFFICES ASSUME TrapsInv, create_task PROVE TrapsInv' OBVIOUS
<1>1. TypeOK /\ SavedRight BY DEF TrapsInv
<1>2. /\ status = "up" /\ ~alive /\ alive' = TRUE /\ esp' = [esp EXCEPT !.user = 0]
      /\ stack' = <<>> /\ ebp' = 0 /\ depth' = 0 /\ phase' = "entry" /\ program' = "fine"
      /\ bare' = FALSE /\ current' = current /\ status' = status /\ resumes' = resumes
      /\ odd' = odd /\ misled' = misled
  BY DEF create_task
<1>3. stack' \in Seq(Cell) /\ Len(stack') = 0 BY <1>2, EmptySeq
<1>4. /\ esp' \in [user : 0 .. USTACK, idle : IDLE_USE .. ISTACK - HANDLER + 2]
      /\ esp'.user = 0 /\ esp'.idle = esp.idle
  <2>1. esp \in [user : 0 .. USTACK, idle : IDLE_USE .. ISTACK - HANDLER + 2] BY <1>1 DEF TypeOK
  <2>2. 0 \in 0 .. USTACK BY Numbers
  <2>3. esp' = [esp EXCEPT !.user = 0] BY <1>2
  <2> QED BY <2>1, <2>2, <2>3
<1>5. TypeOK'
  <2>1. ebp' \in 0 .. USTACK /\ depth' \in 0 .. USTACK /\ Len(stack') <= USTACK
    BY <1>2, <1>3, Numbers
  <2> QED BY <1>1, <1>2, <1>3, <1>4, <2>1 DEF TypeOK, Cell
<1>6. SavedRight' BY <1>1, <1>2, <1>3, <1>4 DEF SavedRight
<1>7. Frames' /\ Pending' BY <1>2 DEF Frames, Pending, First
<1>8. StraysOnlyIfBare' /\ KernelLossExplained'
  BY <1>2 DEF StraysOnlyIfBare, KernelLossExplained
<1> QED BY <1>5, <1>6, <1>7, <1>8 DEF TrapsInv

(* The invariant holds at the start. *)
LEMMA TrapsInit == Init => TrapsInv
<1> SUFFICES ASSUME Init PROVE TrapsInv OBVIOUS
<1>1. stack \in Seq(Cell) /\ Len(stack) = 0 BY EmptySeq DEF Init
<1>2. /\ esp \in [user : 0 .. USTACK, idle : IDLE_USE .. ISTACK - HANDLER + 2]
      /\ esp.idle = IDLE_USE
  BY Numbers DEF Init
<1>3. TypeOK
  <2>1. ebp \in 0 .. USTACK /\ depth \in 0 .. USTACK /\ Len(stack) <= USTACK
    BY <1>1, Numbers DEF Init
  <2>2. /\ current \in Task /\ resumes \in Nat /\ odd \in 0 .. 32
        /\ status = "up" /\ phase = "entry" /\ program = "fine" /\ misled = "no"
    BY SMT DEF Init, Task
  <2>3. alive \in BOOLEAN /\ bare \in BOOLEAN BY Zenon DEF Init
  <2> QED BY <1>1, <1>2, <2>1, <2>2, <2>3 DEF TypeOK, Cell
<1>4. SavedRight BY <1>2, Numbers DEF Init, SavedRight
<1>5. Frames /\ Pending BY DEF Init, Frames, Pending, First
<1>6. StraysOnlyIfBare /\ KernelLossExplained BY DEF Init, StraysOnlyIfBare, KernelLossExplained
<1> QED BY <1>3, <1>4, <1>5, <1>6 DEF TrapsInv

(* Every step preserves it. *)
LEMMA TrapsStep == TrapsInv /\ [Next]_vars => TrapsInv'
<1> SUFFICES ASSUME TrapsInv, [Next]_vars PROVE TrapsInv' OBVIOUS
<1>1. CASE UNCHANGED vars
  <2>1. KernelLossExplained' BY <1>1 DEF TrapsInv, KernelLossExplained, vars, user
  <2>2. /\ odd' \in 0 .. 32 /\ status' \in {"up", "halted", "wild"}
        /\ misled' \in {"no", "touched", "overwrote"}
    BY <1>1 DEF TrapsInv, TypeOK, vars
  <2> QED BY <1>1, <2>1, <2>2, StillInv DEF vars
<1> QED BY <1>1, TimerInv, SyscallInv, ExceptionInv, KernelFaultInv, CreateInv, UserCodeInv DEF Next

(* It holds always. *)
LEMMA TrapsAlways == Spec => []TrapsInv
BY TrapsInit, TrapsStep, PTL DEF Spec

(* The stack pointers, the user's stack and where its code is keep their       *)
(* types: in particular the words in use never exceed the stack. *)
THEOREM TrapsTypes == Spec => []TypeOK
<1>1. TrapsInv => TypeOK BY DEF TrapsInv
<1> QED BY <1>1, TrapsAlways, PTL

(* restore_task_context harms a program only between two instructions of a    *)
(* call or a return, in a function that ends in pop %ebp, or when it is nearly *)
(* out of stack (scheduler.s:12-16). *)
THEOREM StraysExplained == Spec => []StraysOnlyIfBare
<1>1. TrapsInv => StraysOnlyIfBare BY DEF TrapsInv
<1> QED BY <1>1, TrapsAlways, PTL

(* As long as no program has strayed, the kernel halts only when it touches    *)
(* what is not mapped or for an exception without error code, and runs wild    *)
(* only when it overwrites itself for a program, after an exception with a     *)
(* code that is no page fault, or when the resumes of idle have used up the    *)
(* boot stack (idt.c:33-37, idt.s:7-18, scheduler.c:68, scheduler.s:12-25). *)
THEOREM KernelLossIs == Spec => []KernelLossExplained
<1>1. TrapsInv => KernelLossExplained BY DEF TrapsInv
<1> QED BY <1>1, TrapsAlways, PTL
=============================================================================
