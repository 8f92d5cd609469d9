---------------------------- MODULE PagingProofs ----------------------------
(***************************************************************************)
(* Proofs about Paging.  The inductive invariant is PagingInv: as long as   *)
(* nothing is wild, no frame has two uses and the frames taken are the      *)
(* reserved ones and those in use (Owned), exactly the pages of the runs    *)
(* are mapped in the heap (RunsSound), and a mapped page has a table and a  *)
(* task that is not torn has its regions mapped (SpacesSound).              *)
(*                                                                         *)
(* The loops of mmap and sys_mmap are recursive functions.  What they keep  *)
(* is shown by the least-number principle: there is no first round that     *)
(* breaks it.  That sys_mmap always finds a free page is the pigeonhole     *)
(* principle: mapped pages have frames of their own, one frame more is the  *)
(* directory, and there are fewer frames than pages below KERNEL_BASE.      *)
(***************************************************************************)
EXTENDS Paging, FiniteSetTheorems, WellFoundedInduction, TLAPS

(* There is no infinite descent in the natural numbers. *)
LEMMA Descending == IsWellFoundedOn({ss \in Nat \X Nat : ss[1] < ss[2]}, Nat)
<1>1. OpToRel(<, Nat) = {ss \in Nat \X Nat : ss[1] < ss[2]}
  BY Zenon DEF OpToRel
<1> QED BY <1>1, NatLessThanWellFounded, Zenon

(* A nonempty set of natural numbers has a least member. *)
LEMMA LeastOf ==
  ASSUME NEW S \in SUBSET Nat, S # {}
  PROVE \E m \in S : \A x \in S : m <= x
<1> DEFINE R == {ss \in Nat \X Nat : ss[1] < ss[2]}
<1>1. \A x, y \in Nat : <<x, y>> \in R <=> x < y
  OBVIOUS
<1>2. IsWellFoundedOn(R, Nat)
  BY Descending
<1> HIDE DEF R
<1>3. PICK m \in S : \A y \in S : ~(<<y, m>> \in R)
  BY <1>2, WFMin
<1>4. ASSUME NEW y \in S PROVE m <= y
  <2>1. y \in Nat /\ m \in Nat
    OBVIOUS
  <2>2. ~(y < m)
    BY <2>1, <1>3, <1>1
  <2> QED BY <2>1, <2>2
<1> QED BY <1>4

-----------------------------------------------------------------------------
(* Pages as <<directory entry, slot>>. *)

(* A product grows with its factor. *)
LEMMA Scale == \A a, b, w \in Nat : a <= b => a * w <= b * w
  OBVIOUS

(* Division by the entries of a table. *)
LEMMA DivMod ==
  ASSUME NEW v \in Nat
  PROVE  /\ v \div PTES \in Nat /\ v % PTES \in Slot
         /\ v = (v \div PTES) * PTES + (v % PTES)
<1>1. PTES \in Nat \ {0}
  BY PagingAssumption
<1>2. \A a \in Nat : \A d \in Nat \ {0} :
        a \div d \in Nat /\ a % d \in 0 .. d - 1 /\ a = (a \div d) * d + (a % d)
  OBVIOUS
<1> QED BY <1>1, <1>2 DEF Slot

(* An entry and a slot determine the page. *)
LEMMA DivModOf ==
  ASSUME NEW i \in Nat, NEW j \in Slot
  PROVE  At(i * PTES + j) = <<i, j>> /\ i * PTES + j \in Nat
<1> DEFINE v == i * PTES + j
           q == v \div PTES
           r == v % PTES
<1>1. PTES \in Nat \ {0} /\ j \in 0 .. PTES - 1
  BY PagingAssumption DEF Slot
<1>2. v \in Nat
  BY <1>1
<1>3. q \in Nat /\ r \in 0 .. PTES - 1 /\ v = q * PTES + r
  BY <1>2, DivMod DEF Slot
<1> HIDE DEF q, r
<1>4. q = i
  <2>1. CASE q < i
    <3>1. (q + 1) * PTES <= i * PTES
      BY <1>1, <1>3, <2>1, Scale
    <3>2. (q + 1) * PTES = q * PTES + PTES /\ q * PTES \in Nat /\ i * PTES \in Nat
      BY <1>1, <1>3
    <3> QED BY <1>1, <1>3, <3>1, <3>2
  <2>2. CASE i < q
    <3>1. (i + 1) * PTES <= q * PTES
      BY <1>1, <1>3, <2>2, Scale
    <3>2. (i + 1) * PTES = i * PTES + PTES /\ q * PTES \in Nat /\ i * PTES \in Nat
      BY <1>1, <1>3
    <3> QED BY <1>1, <1>3, <3>1, <3>2
  <2> QED BY <1>3, <2>1, <2>2
<1>5. i * PTES \in Nat
  BY <1>1
<1>6. r = j
  BY <1>1, <1>3, <1>4, <1>5
<1> QED BY <1>2, <1>4, <1>6 DEF At, q, r

(* Two pages differ in their entry or in their slot. *)
LEMMA AtOneToOne ==
  ASSUME NEW v \in Nat, NEW w \in Nat, At(v) = At(w)
  PROVE  v = w
  BY DivMod DEF At

(* The pages below n tables lie in them. *)
LEMMA AtBound ==
  ASSUME NEW n \in Nat, NEW v \in 0 .. n * PTES - 1
  PROVE  At(v) \in (0 .. n - 1) \X Slot /\ v \in Nat
<1>1. PTES \in Nat \ {0} /\ n * PTES \in Nat
  BY PagingAssumption
<1>2. v \in Nat /\ v < n * PTES
  BY <1>1
<1> DEFINE q == v \div PTES
<1>3. q \in Nat /\ v % PTES \in Slot /\ v = q * PTES + (v % PTES) /\ v % PTES \in Nat
  BY <1>2, DivMod DEF Slot
<1> HIDE DEF q
<1>4. q < n
  <2> SUFFICES ASSUME n <= q PROVE FALSE
    BY <1>3
  <2>1. n * PTES <= q * PTES /\ q * PTES \in Nat
    BY <1>1, <1>3, Scale
  <2> QED BY <1>1, <1>2, <1>3, <2>1
<1> QED BY <1>2, <1>3, <1>4 DEF At, q

(* And each entry and slot of n tables is a page below them. *)
LEMMA AtOnto ==
  ASSUME NEW n \in Nat, NEW i \in 0 .. n - 1, NEW j \in Slot
  PROVE  \E v \in 0 .. n * PTES - 1 : At(v) = <<i, j>>
<1>1. PTES \in Nat \ {0} /\ j \in 0 .. PTES - 1 /\ i \in Nat
  BY PagingAssumption DEF Slot
<1>2. (i + 1) * PTES <= n * PTES /\ (i + 1) * PTES = i * PTES + PTES /\ i * PTES \in Nat
      /\ n * PTES \in Nat
  BY <1>1, Scale
<1>3. i * PTES + j \in 0 .. n * PTES - 1
  BY <1>1, <1>2
<1> QED BY <1>1, <1>3, DivModOf

-----------------------------------------------------------------------------
(* pmm_alloc returns a frame that is not taken, or FRAMES. *)
LEMMA Allocated ==
  ASSUME NEW used
  PROVE  \/ pmm_alloc(used) \in Frame \ used
         \/ pmm_alloc(used) = FRAMES
<1>1. CASE Frame \subseteq used
  BY <1>1 DEF pmm_alloc
<1>2. CASE ~(Frame \subseteq used)
  <2>1. Frame \ used # {} /\ Frame \ used \in SUBSET Nat
    BY <1>2, PagingAssumption DEF Frame
  <2>2. \E f \in Frame \ used : \A g \in Frame \ used : f <= g
    BY <2>1, LeastOf
  <2> DEFINE f == CHOOSE f \in Frame \ used : \A g \in Frame \ used : f <= g
  <2>3. f \in Frame \ used
    BY <2>2
  <2>4. pmm_alloc(used) = f
    BY <1>2 DEF pmm_alloc
  <2> QED BY <2>3, <2>4
<1> QED BY <1>1, <1>2

-----------------------------------------------------------------------------
(* The frame in each use. *)
Uses(pd, sp) == [u \in Use |-> FrameAt(pd, sp, u)]

(* No frame is in two uses, a frame in use is taken, and a frame that is taken *)
(* is reserved or in use. *)
Owned(F, used) ==
  /\ \A u, v \in Use : (F[u] # ABSENT /\ F[u] = F[v]) => u = v
  /\ \A u \in Use : F[u] # ABSENT => F[u] \in used
  /\ \A f \in used : f \in RESERVED \/ \E u \in Use : F[u] = f

(* A frame that was not taken goes into a use that had none. *)
LEMMA Take ==
  ASSUME NEW F, NEW used, Owned(F, used), NEW G, NEW u \in Use, F[u] = ABSENT,
         G[u] \notin used, G[u] # ABSENT, \A v \in Use : v # u => G[v] = F[v],
         ABSENT \notin used
  PROVE  Owned(G, used \cup {G[u]})
  BY DEF Owned

(* The frames of some uses are given back. *)
LEMMA Give ==
  ASSUME NEW F, NEW used, Owned(F, used), NEW G, NEW frames, NEW D \in SUBSET Use,
         \A v \in D : G[v] = ABSENT, \A v \in Use : v \notin D => G[v] = F[v],
         \A v \in D : F[v] # ABSENT => F[v] \in frames,
         \A f \in used : f \in frames => \E v \in D : F[v] = f,
         ABSENT \notin used
  PROVE  Owned(G, used \ frames)
  BY DEF Owned

-----------------------------------------------------------------------------
(* The pages a user half maps, and that it has a table for each. *)
PagesIn(user) == {p \in (0 .. UPDE - 1) \X Slot : user[p[1]].pte[p[2]] # ABSENT}

HasTables(user) == \A p \in PagesIn(user) : user[p[1]].frame # ABSENT

(* The pages of the heap that are mapped. *)
HeapPagesIn(pd) == {p \in (0 .. KPDE - 1) \X Slot : pd[p[1]].pte[p[2]] # ABSENT}

RegionsOf(t) == {r \in regions : r.task = t}

RegionPages(r) == Pages(r.first, r.len)

(* What RegionsSound says of one task, and that no region holds the code or the *)
(* stack. *)
Tidy(t) ==
  /\ UserPages(space[t]) = {CODE, STACK} \cup UNION {RegionPages(r) : r \in RegionsOf(t)}
  /\ \A r, s \in RegionsOf(t) : r # s => RegionPages(r) \cap RegionPages(s) = {}
  /\ \A r \in RegionsOf(t) : CODE \notin RegionPages(r) /\ STACK \notin RegionPages(r)

RunsSound ==
  /\ \A r, s \in runs : r # s => Pages(r[1], r[2]) \cap Pages(s[1], s[2]) = {}
  /\ kheap_pages = UNION {r[1] .. r[1] + r[2] - 1 : r \in runs}
  /\ HeapPagesIn(kernel_pd) = {At(v) : v \in kheap_pages}

SpacesSound ==
  /\ \A t \in Task : space[t].cr3 = ABSENT => space[t].user = NoSpace.user
  /\ \A t \in Task : HasTables(space[t].user)
  /\ \A r \in regions : space[r.task].cr3 # ABSENT
  /\ \A t \in Task \ torn : space[t].cr3 # ABSENT => Tidy(t)

FramesSound == FRAMES \notin bitmap /\ Owned(Uses(kernel_pd, space), bitmap)

PagingInv ==
  /\ TypeOK /\ KernelHalfFresh /\ WildExplained
  /\ ~wild => FramesSound /\ RunsSound /\ SpacesSound

-----------------------------------------------------------------------------
(* f is the memory before each of the first k rounds and behind them: the      *)
(* recurrence of HeapRounds. *)
HeapRuns(f, k, m, v) ==
  f = [i \in 0 .. k |-> IF i = 0 THEN m ELSE MapHeapPage(f[i - 1], v + i - 1)]

(* There is such an f for any number of rounds: there is no least for which    *)
(* there is none. *)
LEMMA HeapRunExists ==
  ASSUME NEW m, NEW v, NEW n \in Nat
  PROVE  \E f : HeapRuns(f, n, m, v)
<1> DEFINE Bad == {k \in Nat : ~\E f : HeapRuns(f, k, m, v)}
<1>1. SUFFICES ASSUME Bad # {} PROVE FALSE
  OBVIOUS
<1>2. Bad \in SUBSET Nat
  OBVIOUS
<1>3. PICK b \in Bad : \A x \in Bad : b <= x
  BY <1>1, <1>2, LeastOf
<1>4. CASE b = 0
  <2>1. HeapRuns([i \in 0 .. 0 |-> m], 0, m, v)
    BY DEF HeapRuns
  <2> QED BY <1>4, <2>1
<1>5. CASE b # 0
  <2>1. b \in Nat /\ b - 1 \in Nat /\ ~(b <= b - 1)
    BY <1>5
  <2>2. b - 1 \notin Bad
    BY <1>3, <2>1
  <2>3. PICK f : HeapRuns(f, b - 1, m, v)
    BY <2>1, <2>2
  <2> DEFINE g == [i \in 0 .. b |-> IF i = b THEN MapHeapPage(f[b - 1], v + b - 1) ELSE f[i]]
  <2>4. f = [i \in 0 .. b - 1 |-> IF i = 0 THEN m ELSE MapHeapPage(f[i - 1], v + i - 1)]
    BY <2>3 DEF HeapRuns
  <2>5. ASSUME NEW i \in 0 .. b
        PROVE  g[i] = IF i = 0 THEN m ELSE MapHeapPage(g[i - 1], v + i - 1)
    <3>1. CASE i = b
      <4>1. i # 0 /\ b - 1 \in 0 .. b /\ b - 1 # b
        BY <1>5, <2>1, <3>1
      <4>2. g[b - 1] = f[b - 1] /\ g[i] = MapHeapPage(f[b - 1], v + b - 1)
        BY <3>1, <4>1
      <4> HIDE DEF g
      <4> QED BY <3>1, <4>1, <4>2
    <3>2. CASE i # b
      <4>1. i \in 0 .. b - 1 /\ (i # 0 => i - 1 \in 0 .. b /\ i - 1 # b)
        BY <2>1, <3>2
      <4>2. g[i] = f[i] /\ (i # 0 => g[i - 1] = f[i - 1])
        BY <3>2, <4>1
      <4>3. f[i] = IF i = 0 THEN m ELSE MapHeapPage(f[i - 1], v + i - 1)
        BY <2>4, <4>1
      <4> HIDE DEF g
      <4> QED BY <4>2, <4>3
    <3> QED BY <3>1, <3>2
  <2>6. g = [i \in 0 .. b |-> g[i]]
    OBVIOUS
  <2> HIDE DEF g
  <2>7. HeapRuns(g, b, m, v)
    BY <2>5, <2>6 DEF HeapRuns
  <2> QED BY <2>7
<1> QED BY <1>4, <1>5

(* So HeapRounds, which is chosen by the recurrence, satisfies it. *)
LEMMA HeapRoundsRun ==
  ASSUME NEW m, NEW v, NEW n \in Nat
  PROVE  HeapRuns(HeapRounds(m, v, n), n, m, v)
<1>1. \E f : HeapRuns(f, n, m, v)
  BY HeapRunExists
<1>2. HeapRounds(m, v, n) = CHOOSE f : HeapRuns(f, n, m, v)
  BY Zenon DEF HeapRounds, HeapRuns
<1> QED BY <1>1, <1>2, Zenon

(* f is the memory before each of the first k rounds and behind them: the      *)
(* recurrence of UserRounds. *)
UserRuns(f, k, m) ==
  f = [i \in 0 .. k |-> IF i = 0 THEN m ELSE MapUserPage(f[i - 1])]

(* There is such an f for any number of rounds: there is no least for which    *)
(* there is none. *)
LEMMA UserRunExists ==
  ASSUME NEW m, NEW n \in Nat
  PROVE  \E f : UserRuns(f, n, m)
<1> DEFINE Bad == {k \in Nat : ~\E f : UserRuns(f, k, m)}
<1>1. SUFFICES ASSUME Bad # {} PROVE FALSE
  OBVIOUS
<1>2. Bad \in SUBSET Nat
  OBVIOUS
<1>3. PICK b \in Bad : \A x \in Bad : b <= x
  BY <1>1, <1>2, LeastOf
<1>4. CASE b = 0
  <2>1. UserRuns([i \in 0 .. 0 |-> m], 0, m)
    BY DEF UserRuns
  <2> QED BY <1>4, <2>1
<1>5. CASE b # 0
  <2>1. b \in Nat /\ b - 1 \in Nat /\ ~(b <= b - 1)
    BY <1>5
  <2>2. b - 1 \notin Bad
    BY <1>3, <2>1
  <2>3. PICK f : UserRuns(f, b - 1, m)
    BY <2>1, <2>2
  <2> DEFINE g == [i \in 0 .. b |-> IF i = b THEN MapUserPage(f[b - 1]) ELSE f[i]]
  <2>4. f = [i \in 0 .. b - 1 |-> IF i = 0 THEN m ELSE MapUserPage(f[i - 1])]
    BY <2>3 DEF UserRuns
  <2>5. ASSUME NEW i \in 0 .. b
        PROVE  g[i] = IF i = 0 THEN m ELSE MapUserPage(g[i - 1])
    <3>1. CASE i = b
      <4>1. i # 0 /\ b - 1 \in 0 .. b /\ b - 1 # b
        BY <1>5, <2>1, <3>1
      <4>2. g[b - 1] = f[b - 1] /\ g[i] = MapUserPage(f[b - 1])
        BY <3>1, <4>1
      <4> HIDE DEF g
      <4> QED BY <3>1, <4>1, <4>2
    <3>2. CASE i # b
      <4>1. i \in 0 .. b - 1 /\ (i # 0 => i - 1 \in 0 .. b /\ i - 1 # b)
        BY <2>1, <3>2
      <4>2. g[i] = f[i] /\ (i # 0 => g[i - 1] = f[i - 1])
        BY <3>2, <4>1
      <4>3. f[i] = IF i = 0 THEN m ELSE MapUserPage(f[i - 1])
        BY <2>4, <4>1
      <4> HIDE DEF g
      <4> QED BY <4>2, <4>3
    <3> QED BY <3>1, <3>2
  <2>6. g = [i \in 0 .. b |-> g[i]]
    OBVIOUS
  <2> HIDE DEF g
  <2>7. UserRuns(g, b, m)
    BY <2>5, <2>6 DEF UserRuns
  <2> QED BY <2>7
<1> QED BY <1>4, <1>5

(* So UserRounds, which is chosen by the recurrence, satisfies it. *)
LEMMA UserRoundsRun ==
  ASSUME NEW m, NEW n \in Nat
  PROVE  UserRuns(UserRounds(m, n), n, m)
<1>1. \E f : UserRuns(f, n, m)
  BY UserRunExists
<1>2. UserRounds(m, n) = CHOOSE f : UserRuns(f, n, m)
  BY Zenon DEF UserRounds, UserRuns
<1> QED BY <1>1, <1>2, Zenon

-----------------------------------------------------------------------------
(* Entries of the directories, at most N of them, change one at a time. *)
WithPte(pd, i, j, f) == [pd EXCEPT ![i].pte[j] = f]
WithFrame(pd, i, f) == [pd EXCEPT ![i].frame = f]

(* pd and pd2 differ at most in the frame at entry i and slot l, PTES for the  *)
(* table itself, which is f in pd2. *)
PutAt(N, pd, pd2, i, l, f) ==
  \A k \in 0 .. N - 1, n \in 0 .. PTES :
    InTable(pd2[k], n) = IF k = i /\ n = l THEN f ELSE InTable(pd[k], n)

(* A page put into a slot changes that slot only. *)
LEMMA PutPte ==
  ASSUME NEW N \in Nat, NEW pd \in [0 .. N - 1 -> Table], NEW i \in 0 .. N - 1,
         NEW j \in Slot, NEW f \in Entry
  PROVE  /\ WithPte(pd, i, j, f) \in [0 .. N - 1 -> Table]
         /\ PutAt(N, pd, WithPte(pd, i, j, f), i, j, f)
<1> DEFINE pd2 == WithPte(pd, i, j, f)
<1>1. PTES \in Nat /\ j # PTES
  BY PagingAssumption DEF Slot
<1>2. pd[i] \in Table
  OBVIOUS
<1>3. /\ pd2 = [pd EXCEPT ![i] = [pd[i] EXCEPT !.pte = [pd[i].pte EXCEPT ![j] = f]]]
  BY DEF WithPte
<1> HIDE DEF pd2
<1> DEFINE tab == [pd[i] EXCEPT !.pte = [pd[i].pte EXCEPT ![j] = f]]
<1>4. tab \in Table /\ tab.frame = pd[i].frame /\ tab.pte = [pd[i].pte EXCEPT ![j] = f]
  BY <1>2 DEF Table
<1>5. pd2 \in [0 .. N - 1 -> Table] /\ pd2[i] = tab /\ \A k \in 0 .. N - 1 : k # i => pd2[k] = pd[k]
  BY <1>3, <1>4
<1> HIDE DEF tab
<1>6. \A n \in 0 .. PTES : InTable(tab, n) = IF n = j THEN f ELSE InTable(pd[i], n)
  BY <1>1, <1>2, <1>4 DEF InTable, Table, Slot
<1> QED BY <1>5, <1>6 DEF PutAt, pd2

(* A table put into an entry changes the entry's frame only. *)
LEMMA PutFrame ==
  ASSUME NEW N \in Nat, NEW pd \in [0 .. N - 1 -> Table], NEW i \in 0 .. N - 1, NEW f \in Entry
  PROVE  /\ WithFrame(pd, i, f) \in [0 .. N - 1 -> Table]
         /\ PutAt(N, pd, WithFrame(pd, i, f), i, PTES, f)
<1> DEFINE pd2 == WithFrame(pd, i, f)
<1>2. pd[i] \in Table
  OBVIOUS
<1>3. /\ pd2 = [pd EXCEPT ![i] = [pd[i] EXCEPT !.frame = f]]
  BY DEF WithFrame
<1> HIDE DEF pd2
<1> DEFINE tab == [pd[i] EXCEPT !.frame = f]
<1>4. tab \in Table /\ tab.frame = f /\ tab.pte = pd[i].pte
  BY <1>2 DEF Table
<1>5. pd2 \in [0 .. N - 1 -> Table] /\ pd2[i] = tab /\ \A k \in 0 .. N - 1 : k # i => pd2[k] = pd[k]
  BY <1>3, <1>4
<1> HIDE DEF tab
<1>6. \A n \in 0 .. PTES : InTable(tab, n) = IF n = PTES THEN f ELSE InTable(pd[i], n)
  BY <1>4 DEF InTable
<1> QED BY <1>5, <1>6 DEF PutAt, pd2

(* A frame put into an empty place of the heap. *)
LEMMA HeapTake ==
  ASSUME NEW pd, NEW pd2, NEW sp, NEW used, Owned(Uses(pd, sp), used), ABSENT \notin used,
         NEW i \in 0 .. KPDE - 1, NEW l \in 0 .. PTES, NEW f, PutAt(KPDE, pd, pd2, i, l, f),
         InTable(pd[i], l) = ABSENT, f \notin used, f # ABSENT
  PROVE  Owned(Uses(pd2, sp), used \cup {f})
<1> DEFINE u == <<"heap", 0, i, l>>
           F == Uses(pd, sp)
           G == Uses(pd2, sp)
<1>1. u \in Use /\ u[1] = "heap" /\ u[3] = i /\ u[4] = l
  BY DEF Use
<1>2. F[u] = ABSENT /\ G[u] = f
  BY <1>1 DEF Uses, FrameAt, PutAt
<1>3. ASSUME NEW v \in Use, v # u PROVE G[v] = F[v]
  <2>1. G[v] = FrameAt(pd2, sp, v) /\ F[v] = FrameAt(pd, sp, v)
    BY DEF Uses
  <2>2. CASE v[1] = "heap"
    <3>1. v \in {"heap"} \X {0} \X (0 .. KPDE - 1) \X (0 .. PTES)
      BY <2>2 DEF Use
    <3>2. v[3] \in 0 .. KPDE - 1 /\ v[4] \in 0 .. PTES /\ ~(v[3] = i /\ v[4] = l)
      BY <1>3, <3>1
    <3>3. InTable(pd2[v[3]], v[4]) = InTable(pd[v[3]], v[4])
      BY <3>2 DEF PutAt
    <3> QED BY <2>1, <2>2, <3>3 DEF FrameAt
  <2>3. CASE v[1] # "heap"
    BY <2>1, <2>3 DEF FrameAt
  <2> QED BY <2>2, <2>3
<1> HIDE DEF u, F, G
<1> QED BY <1>1, <1>2, <1>3, Take DEF F, G

(* A frame put into an empty place of a task. *)
LEMMA TaskTake ==
  ASSUME NEW pd, NEW sp, NEW sp2, NEW used, Owned(Uses(pd, sp), used), ABSENT \notin used,
         NEW t \in Task, NEW i \in 0 .. UPDE - 1, NEW l \in 0 .. PTES, NEW f,
         PutAt(UPDE, sp[t].user, sp2[t].user, i, l, f), sp2[t].cr3 = sp[t].cr3,
         \A s \in Task : s # t => sp2[s] = sp[s],
         InTable(sp[t].user[i], l) = ABSENT, f \notin used, f # ABSENT
  PROVE  Owned(Uses(pd, sp2), used \cup {f})
<1> DEFINE u == <<"task", t, i, l>>
           F == Uses(pd, sp)
           G == Uses(pd, sp2)
<1>1. u \in Use /\ u[1] = "task" /\ u[2] = t /\ u[3] = i /\ u[4] = l
  BY DEF Use
<1>2. F[u] = ABSENT /\ G[u] = f
  BY <1>1 DEF Uses, FrameAt, PutAt
<1>3. ASSUME NEW v \in Use, v # u PROVE G[v] = F[v]
  <2>1. G[v] = FrameAt(pd, sp2, v) /\ F[v] = FrameAt(pd, sp, v)
    BY DEF Uses
  <2>2. CASE v[1] = "task"
    <3>1. v \in {"task"} \X Task \X (0 .. UPDE - 1) \X (0 .. PTES)
      BY <2>2 DEF Use
    <3>2. /\ v[2] \in Task /\ v[3] \in 0 .. UPDE - 1 /\ v[4] \in 0 .. PTES
          /\ ~(v[2] = t /\ v[3] = i /\ v[4] = l)
      BY <1>3, <3>1
    <3>3. InTable(sp2[v[2]].user[v[3]], v[4]) = InTable(sp[v[2]].user[v[3]], v[4])
      <4>1. CASE v[2] = t
        BY <3>2, <4>1 DEF PutAt
      <4>2. CASE v[2] # t
        BY <3>2, <4>2
      <4> QED BY <4>1, <4>2
    <3> QED BY <2>1, <2>2, <3>3 DEF FrameAt
  <2>3. CASE v[1] = "dir"
    <3>1. v[2] \in Task
      BY <2>3 DEF Use
    <3>2. sp2[v[2]].cr3 = sp[v[2]].cr3
      BY <3>1
    <3> QED BY <2>1, <2>3, <3>2 DEF FrameAt
  <2>4. CASE v[1] = "heap"
    BY <2>1, <2>4 DEF FrameAt
  <2>5. v[1] \in {"heap", "task", "dir"}
    BY DEF Use
  <2> QED BY <2>2, <2>3, <2>4, <2>5
<1> HIDE DEF u, F, G
<1> QED BY <1>1, <1>2, <1>3, Take DEF F, G

(* A round of mmap for page v made r of m: the frames are still sound, if       *)
(* memory did not run out and the page was not mapped. *)
HeapMore(m, r, sp, v) ==
  (/\ FRAMES \notin r.used
   /\ Owned(Uses(m.pd, sp), m.used)
   /\ At(v) \notin HeapPagesIn(m.pd))
    => /\ Owned(Uses(r.pd, sp), r.used)
       /\ HeapPagesIn(r.pd) = HeapPagesIn(m.pd) \cup {At(v)}

(* One round of mmap. *)
LEMMA HeapRound ==
  ASSUME NEW m, m.used \in SUBSET (0 .. FRAMES), m.pd \in [0 .. KPDE - 1 -> Table],
         NEW v \in 0 .. KPDE * PTES - 1, NEW sp
  PROVE  /\ MapHeapPage(m, v).used \in SUBSET (0 .. FRAMES)
         /\ m.used \subseteq MapHeapPage(m, v).used
         /\ MapHeapPage(m, v).pd \in [0 .. KPDE - 1 -> Table]
         /\ \A k \in 0 .. KPDE - 1 : m.pd[k].frame \in {ABSENT, MapHeapPage(m, v).pd[k].frame}
         /\ HeapMore(m, MapHeapPage(m, v), sp, v)
<1> DEFINE i     == At(v)[1]
           j     == At(v)[2]
           page  == pmm_alloc(m.used)
           used1 == m.used \cup {page}
           new   == m.pd[i].frame = ABSENT
           table == pmm_alloc(used1)
           pd1   == WithPte(m.pd, i, j, page)
           r     == MapHeapPage(m, v)
<1>1. KPDE \in Nat /\ PTES \in Nat /\ FRAMES \in Nat /\ ABSENT \notin 0 .. FRAMES
  BY PagingAssumption DEF ABSENT
<1>2. i \in 0 .. KPDE - 1 /\ j \in Slot /\ At(v) = <<i, j>> /\ j \in 0 .. PTES /\ j # PTES
  <2>1. At(v) \in (0 .. KPDE - 1) \X Slot
    BY <1>1, AtBound
  <2> QED BY <1>1, <2>1 DEF Slot
<1>3. page \in 0 .. FRAMES /\ table \in 0 .. FRAMES
      /\ (page # FRAMES => page \notin m.used) /\ (table # FRAMES => table \notin used1)
  BY <1>1, Allocated DEF Frame
<1>4. page \in Entry /\ table \in Entry
  BY <1>1, <1>3 DEF Entry
<1>5. r.used = IF new THEN used1 \cup {table} ELSE used1
  BY DEF MapHeapPage
<1>6. r.pd = [m.pd EXCEPT ![i].frame = IF new THEN table ELSE @, ![i].pte[j] = page]
  BY DEF MapHeapPage
<1> HIDE DEF i, j, page, table
<1>7. pd1 \in [0 .. KPDE - 1 -> Table] /\ PutAt(KPDE, m.pd, pd1, i, j, page)
  BY <1>1, <1>2, <1>4, PutPte
<1>8. pd1[i].frame = m.pd[i].frame
  BY <1>1, <1>2, <1>7 DEF PutAt, InTable
<1>9. r.pd = IF new THEN WithFrame(pd1, i, table) ELSE pd1
  <2>1. m.pd[i] \in Table
    BY <1>2
  <2>2. CASE new
    BY <1>2, <1>6, <2>1, <2>2 DEF WithFrame, WithPte, Table
  <2>3. CASE ~new
    <3>1. r.pd = [m.pd EXCEPT ![i] = [[m.pd[i] EXCEPT !.frame = m.pd[i].frame]
                                        EXCEPT !.pte = [m.pd[i].pte EXCEPT ![j] = page]]]
      BY <1>2, <1>6, <2>1, <2>3 DEF Table
    <3>2. [m.pd[i] EXCEPT !.frame = m.pd[i].frame] = m.pd[i]
      BY <2>1 DEF Table
    <3> QED BY <2>3, <3>1, <3>2 DEF WithPte
  <2> QED BY <2>2, <2>3
<1> HIDE DEF r, pd1
<1>10. new => /\ WithFrame(pd1, i, table) \in [0 .. KPDE - 1 -> Table]
              /\ PutAt(KPDE, pd1, WithFrame(pd1, i, table), i, PTES, table)
  BY <1>1, <1>2, <1>4, <1>7, PutFrame
<1>11. r.pd \in [0 .. KPDE - 1 -> Table]
  BY <1>7, <1>9, <1>10
<1>12. r.used \in SUBSET (0 .. FRAMES) /\ m.used \subseteq r.used
  BY <1>3, <1>5
<1>13. ASSUME NEW k \in 0 .. KPDE - 1, NEW l \in 0 .. PTES
       PROVE  /\ InTable(r.pd[k], l) = IF k = i /\ l = j THEN page
                                       ELSE IF new /\ k = i /\ l = PTES THEN table
                                       ELSE InTable(m.pd[k], l)
  BY <1>1, <1>2, <1>7, <1>9, <1>10 DEF PutAt
<1>14. ASSUME NEW k \in 0 .. KPDE - 1
       PROVE  m.pd[k].frame \in {ABSENT, r.pd[k].frame}
  <2>1. PTES \in 0 .. PTES
    BY <1>1
  <2>2. InTable(r.pd[k], PTES) = r.pd[k].frame /\ InTable(m.pd[k], PTES) = m.pd[k].frame
    BY DEF InTable
  <2> QED BY <1>2, <1>13, <2>1, <2>2
<1>15. ASSUME FRAMES \notin r.used, Owned(Uses(m.pd, sp), m.used), At(v) \notin HeapPagesIn(m.pd)
       PROVE  Owned(Uses(r.pd, sp), r.used) /\ HeapPagesIn(r.pd) = HeapPagesIn(m.pd) \cup {At(v)}
  <2>1. page # FRAMES /\ (new => table # FRAMES)
    BY <1>5, <1>15
  <2>2. m.pd[i].pte[j] = ABSENT /\ InTable(m.pd[i], j) = ABSENT
    BY <1>2, <1>15 DEF HeapPagesIn, InTable
  <2>3. page # ABSENT /\ table # ABSENT /\ ABSENT \notin m.used /\ ABSENT \notin used1
    BY <1>1, <1>3
  <2>4. Owned(Uses(pd1, sp), used1)
    BY <1>2, <1>3, <1>7, <1>15, <2>1, <2>2, <2>3, HeapTake
  <2>5. Owned(Uses(r.pd, sp), r.used)
    <3>1. CASE new
      <4>1. InTable(pd1[i], PTES) = ABSENT /\ PTES \in 0 .. PTES
        BY <1>1, <1>8, <3>1 DEF InTable
      <4>2. Owned(Uses(WithFrame(pd1, i, table), sp), used1 \cup {table})
        BY <1>2, <1>3, <1>10, <2>1, <2>3, <2>4, <3>1, <4>1, HeapTake
      <4> QED BY <1>5, <1>9, <3>1, <4>2
    <3>2. CASE ~new
      BY <1>5, <1>9, <2>4, <3>2
    <3> QED BY <3>1, <3>2
  <2>6. ASSUME NEW k \in 0 .. KPDE - 1, NEW l \in Slot
        PROVE  <<k, l>> \in HeapPagesIn(r.pd) <=> <<k, l>> \in HeapPagesIn(m.pd) \/ <<k, l>> = At(v)
    <3>1. l \in 0 .. PTES /\ l # PTES
      BY <1>1 DEF Slot
    <3>2. InTable(r.pd[k], l) = r.pd[k].pte[l] /\ InTable(m.pd[k], l) = m.pd[k].pte[l]
      BY <3>1 DEF InTable
    <3>3. r.pd[k].pte[l] = IF k = i /\ l = j THEN page ELSE m.pd[k].pte[l]
      BY <1>13, <3>1, <3>2
    <3>4. /\ <<k, l>> \in HeapPagesIn(r.pd) <=> r.pd[k].pte[l] # ABSENT
          /\ <<k, l>> \in HeapPagesIn(m.pd) <=> m.pd[k].pte[l] # ABSENT
      BY DEF HeapPagesIn
    <3>5. <<k, l>> = At(v) <=> k = i /\ l = j
      BY <1>2
    <3> QED BY <2>3, <3>3, <3>4, <3>5
  <2>7. HeapPagesIn(r.pd) = HeapPagesIn(m.pd) \cup {At(v)}
    <3>1. HeapPagesIn(r.pd) \subseteq (0 .. KPDE - 1) \X Slot
          /\ HeapPagesIn(m.pd) \cup {At(v)} \subseteq (0 .. KPDE - 1) \X Slot
      BY <1>2 DEF HeapPagesIn
    <3>2. \A p \in (0 .. KPDE - 1) \X Slot : p = <<p[1], p[2]>> /\ p[1] \in 0 .. KPDE - 1 /\ p[2] \in Slot
      OBVIOUS
    <3> QED BY <2>6, <3>1, <3>2
  <2> QED BY <2>5, <2>7
<1> QED BY <1>11, <1>12, <1>14, <1>15 DEF r, HeapMore

(* What i rounds of mmap from page v on have made of m. *)
HeapMapped(m, r, sp, v, i) ==
  /\ r.used \in SUBSET (0 .. FRAMES) /\ m.used \subseteq r.used
  /\ r.pd \in [0 .. KPDE - 1 -> Table]
  /\ \A k \in 0 .. KPDE - 1 : m.pd[k].frame \in {ABSENT, r.pd[k].frame}
  /\ (/\ FRAMES \notin r.used
      /\ Owned(Uses(m.pd, sp), m.used)
      /\ \A w \in v .. v + i - 1 : At(w) \notin HeapPagesIn(m.pd))
       => /\ Owned(Uses(r.pd, sp), r.used)
          /\ HeapPagesIn(r.pd) = HeapPagesIn(m.pd) \cup Pages(v, i)

(* One more page of a run. *)
LEMMA PagesMore ==
  ASSUME NEW v \in Nat, NEW i \in Nat
  PROVE  /\ Pages(v, i + 1) = Pages(v, i) \cup {At(v + i)}
         /\ At(v + i) \notin Pages(v, i)
         /\ Pages(v, 0) = {}
<1>1. v .. v + (i + 1) - 1 = (v .. v + i - 1) \cup {v + i}
  OBVIOUS
<1>2. Pages(v, i + 1) = Pages(v, i) \cup {At(v + i)}
  BY <1>1 DEF Pages
<1>3. \A w \in v .. v + i - 1 : w \in Nat /\ w # v + i
  OBVIOUS
<1>4. At(v + i) \notin Pages(v, i)
  BY <1>3, AtOneToOne DEF Pages
<1>5. v .. v + 0 - 1 = {}
  OBVIOUS
<1> QED BY <1>2, <1>4, <1>5 DEF Pages

(* Any number of rounds. *)
LEMMA HeapLoop ==
  ASSUME NEW m, m.used \in SUBSET (0 .. FRAMES), m.pd \in [0 .. KPDE - 1 -> Table],
         NEW sp, NEW v \in Nat, NEW n \in Nat, v + n <= KPDE * PTES
  PROVE  HeapMapped(m, HeapRounds(m, v, n)[n], sp, v, n)
<1> DEFINE f == HeapRounds(m, v, n)
           Bad == {i \in 0 .. n : ~HeapMapped(m, f[i], sp, v, i)}
<1>1. f = [i \in 0 .. n |-> IF i = 0 THEN m ELSE MapHeapPage(f[i - 1], v + i - 1)]
  BY HeapRoundsRun DEF HeapRuns
<1>2. n \in 0 .. n
  OBVIOUS
<1> HIDE DEF f
<1>3. SUFFICES ASSUME Bad # {} PROVE FALSE
  BY <1>2 DEF f
<1>4. Bad \in SUBSET Nat
  OBVIOUS
<1>5. PICK b \in Bad : \A x \in Bad : b <= x
  BY <1>3, <1>4, LeastOf
<1>6. b \in 0 .. n /\ ~HeapMapped(m, f[b], sp, v, b)
  OBVIOUS
<1>7. CASE b = 0
  <2>1. f[b] = m
    BY <1>1, <1>6, <1>7
  <2>2. HeapMapped(m, m, sp, v, 0)
    BY PagesMore DEF HeapMapped
  <2> QED BY <1>6, <1>7, <2>1, <2>2
<1>8. CASE b # 0
  <2> DEFINE a == b - 1
  <2>1. a \in 0 .. n /\ ~(b <= a) /\ a \in Nat /\ b = a + 1 /\ v + b - 1 = v + a
    BY <1>6, <1>8
  <2>2. HeapMapped(m, f[a], sp, v, a)
    <3>1. a \notin Bad
      BY <1>5, <2>1
    <3> QED BY <2>1, <3>1
  <2>3. f[b] = MapHeapPage(f[a], v + a)
    BY <1>1, <1>6, <1>8, <2>1
  <2> HIDE DEF a
  <2>4. v + a \in 0 .. KPDE * PTES - 1 /\ v + a \in Nat
    <3>1. KPDE * PTES \in Nat
      BY PagingAssumption
    <3> QED BY <1>6, <2>1, <3>1
  <2>5. f[a].used \in SUBSET (0 .. FRAMES) /\ m.used \subseteq f[a].used
        /\ f[a].pd \in [0 .. KPDE - 1 -> Table]
        /\ \A k \in 0 .. KPDE - 1 : m.pd[k].frame \in {ABSENT, f[a].pd[k].frame}
    BY <2>2 DEF HeapMapped
  <2>6. /\ f[b].used \in SUBSET (0 .. FRAMES)
        /\ f[a].used \subseteq f[b].used
        /\ f[b].pd \in [0 .. KPDE - 1 -> Table]
        /\ \A k \in 0 .. KPDE - 1 : f[a].pd[k].frame \in {ABSENT, f[b].pd[k].frame}
    BY <2>3, <2>4, <2>5, HeapRound, ZenonT(60)
  <2>7. HeapMore(f[a], f[b], sp, v + a)
    BY <2>3, <2>4, <2>5, HeapRound
  <2>8. ASSUME FRAMES \notin f[b].used, Owned(Uses(m.pd, sp), m.used),
               \A w \in v .. v + b - 1 : At(w) \notin HeapPagesIn(m.pd)
        PROVE  /\ Owned(Uses(f[b].pd, sp), f[b].used)
               /\ HeapPagesIn(f[b].pd) = HeapPagesIn(m.pd) \cup Pages(v, b)
    <3>1. FRAMES \notin f[a].used
      BY <2>6, <2>8
    <3>2. \A w \in v .. v + a - 1 : At(w) \notin HeapPagesIn(m.pd)
      BY <2>1, <2>8
    <3>3. /\ Owned(Uses(f[a].pd, sp), f[a].used)
          /\ HeapPagesIn(f[a].pd) = HeapPagesIn(m.pd) \cup Pages(v, a)
      BY <2>2, <2>8, <3>1, <3>2 DEF HeapMapped
    <3>4. At(v + a) \notin HeapPagesIn(m.pd)
      <4>1. v + a \in v .. v + b - 1
        BY <2>1
      <4> QED BY <2>8, <4>1
    <3>5. At(v + a) \notin Pages(v, a) /\ Pages(v, b) = Pages(v, a) \cup {At(v + a)}
      BY <2>1, PagesMore
    <3>6. At(v + a) \notin HeapPagesIn(f[a].pd)
      BY <3>3, <3>4, <3>5
    <3> QED BY <2>7, <2>8, <3>3, <3>5, <3>6 DEF HeapMore
  <2>9. m.used \subseteq f[b].used
    BY <2>5, <2>6
  <2>10. \A k \in 0 .. KPDE - 1 : m.pd[k].frame \in {ABSENT, f[b].pd[k].frame}
    BY <2>5, <2>6
  <2>11. HeapMapped(m, f[b], sp, v, b)
    BY <2>6, <2>8, <2>9, <2>10 DEF HeapMapped
  <2> QED BY <1>6, <2>11
<1> QED BY <1>7, <1>8

-----------------------------------------------------------------------------
(* What a step leaves alone stays sound. *)
LEMMA SpacesFrame == SpacesSound /\ UNCHANGED <<space, regions, torn>> => SpacesSound'
  BY DEF SpacesSound, Tidy, RegionsOf

(* The same for the heap. *)
LEMMA RunsFrame == RunsSound /\ UNCHANGED <<kernel_pd, kheap_pages, runs>> => RunsSound'
  BY DEF RunsSound

(* The constants, once and for all. *)
LEMMA Numbers ==
  /\ KPDE \in Nat \ {0} /\ UPDE \in Nat \ {0} /\ PTES \in Nat \ {0} /\ FRAMES \in Nat
  /\ KPDE * PTES \in Nat /\ UPDE * PTES \in Nat /\ ABSENT \notin 0 .. FRAMES
  /\ FRAMES < UPDE * PTES /\ RUN_BOUND \in Nat
  BY PagingAssumption DEF ABSENT

(* mmap keeps the invariant. *)
LEMMA MmapKeeps ==
  ASSUME PagingInv, ~wild, mmap
  PROVE  PagingInv'
<1>1. TypeOK /\ KernelHalfFresh /\ FramesSound /\ RunsSound /\ SpacesSound
  BY DEF PagingInv
<1>2. PICK n \in npages :
        IF FreeRuns(n) = {}
        THEN wild' = TRUE /\ UNCHANGED <<bitmap, kernel_pd, kheap_pages, runs, space, regions, torn>>
        ELSE LET v == CHOOSE x \in FreeRuns(n) : \A y \in FreeRuns(n) : x <= y
                 m == HeapRounds([used |-> bitmap, pd |-> kernel_pd], v, n)[n]
             IN /\ bitmap' = m.used
                /\ kernel_pd' = m.pd
                /\ kheap_pages' = kheap_pages \cup v .. v + n - 1
                /\ runs' = runs \cup {<<v, n>>}
                /\ wild' = Overrun(m.used)
                /\ UNCHANGED <<space, regions, torn>>
  BY DEF mmap
<1>3. n \in 1 .. RUN_BOUND /\ n \in Nat
  BY Numbers DEF npages
<1>4. CASE FreeRuns(n) = {}
  <2>1. wild' = TRUE /\ UNCHANGED <<bitmap, kernel_pd, kheap_pages, runs, space, regions, torn>>
    BY <1>2, <1>4
  <2>2. TypeOK' /\ KernelHalfFresh'
    BY <1>1, <2>1 DEF TypeOK, KernelHalfFresh
  <2>3. WildExplained'
    BY <1>4, <2>1 DEF WildExplained, FreeRuns, npages
  <2> QED BY <2>1, <2>2, <2>3 DEF PagingInv
<1>5. CASE FreeRuns(n) # {}
  <2> DEFINE v == CHOOSE x \in FreeRuns(n) : \A y \in FreeRuns(n) : x <= y
             m == [used |-> bitmap, pd |-> kernel_pd]
             r == HeapRounds(m, v, n)[n]
  <2>1. v \in FreeRuns(n)
    <3>1. FreeRuns(n) \in SUBSET Nat
      BY Numbers, <1>3 DEF FreeRuns
    <3>2. \E x \in FreeRuns(n) : \A y \in FreeRuns(n) : x <= y
      BY <1>5, <3>1, LeastOf
    <3> QED BY <3>2
  <2>2. /\ bitmap' = r.used /\ kernel_pd' = r.pd
        /\ kheap_pages' = kheap_pages \cup v .. v + n - 1
        /\ runs' = runs \cup {<<v, n>>} /\ wild' = (FRAMES \in r.used)
        /\ UNCHANGED <<space, regions, torn>>
    BY <1>2, <1>5 DEF Overrun
  <2> HIDE DEF v
  <2>3. v \in Nat /\ v + n <= KPDE * PTES /\ (v .. v + n - 1) \cap kheap_pages = {}
    BY <1>3, <2>1, Numbers DEF FreeRuns
  <2>4. /\ m.used = bitmap /\ m.pd = kernel_pd
        /\ bitmap \in SUBSET (0 .. FRAMES) /\ kernel_pd \in [0 .. KPDE - 1 -> Table]
    BY <1>1 DEF TypeOK
  <2> HIDE DEF m
  <2>5. HeapMapped(m, r, space, v, n)
    BY <1>3, <2>3, <2>4, HeapLoop
  <2> HIDE DEF r
  <2>6. TypeOK'
    <3>1. bitmap' \subseteq 0 .. FRAMES /\ kernel_pd' \in [0 .. KPDE - 1 -> Table]
      BY <2>2, <2>5 DEF HeapMapped
    <3>2. kheap_pages' \subseteq 0 .. KPDE * PTES - 1
      BY <1>1, <1>3, <2>2, <2>3, Numbers DEF TypeOK
    <3>3. <<v, n>> \in (0 .. KPDE * PTES - 1) \X (1 .. RUN_BOUND)
      BY <1>3, <2>3, Numbers
    <3>4. runs' \subseteq (0 .. KPDE * PTES - 1) \X (1 .. RUN_BOUND)
      BY <1>1, <2>2, <3>3 DEF TypeOK
    <3>5. wild' \in BOOLEAN
      BY <2>2
    <3>6. UNCHANGED <<space, regions, torn>>
      BY <2>2
    <3> QED BY <1>1, <3>1, <3>2, <3>4, <3>5, <3>6 DEF TypeOK
  <2>7. KernelHalfFresh'
    <3>1. \A i \in 0 .. KPDE - 1 : kernel_pd[i].frame \in {ABSENT, kernel_pd'[i].frame}
      BY <2>2, <2>4, <2>5 DEF HeapMapped
    <3> QED BY <1>1, <2>2, <3>1 DEF KernelHalfFresh
  <2>8. WildExplained'
    BY <2>2 DEF WildExplained
  <2>9. ASSUME ~wild' PROVE FramesSound' /\ RunsSound'
    <3>1. FRAMES \notin r.used
      BY <2>2, <2>9
    <3>2. Owned(Uses(m.pd, space), m.used)
      BY <1>1, <2>4 DEF FramesSound
    <3>3. HeapPagesIn(kernel_pd) = {At(x) : x \in kheap_pages} /\ kheap_pages \subseteq Nat
      BY <1>1, Numbers DEF RunsSound, TypeOK
    <3>4. ASSUME NEW w \in v .. v + n - 1 PROVE At(w) \notin HeapPagesIn(m.pd)
      <4>1. w \in Nat /\ w \notin kheap_pages
        BY <1>3, <2>3
      <4> QED BY <2>4, <3>3, <4>1, AtOneToOne
    <3>5. Owned(Uses(r.pd, space), r.used) /\ HeapPagesIn(r.pd) = HeapPagesIn(m.pd) \cup Pages(v, n)
      BY <2>5, <3>1, <3>2, <3>4 DEF HeapMapped
    <3>6. FramesSound'
      BY <2>2, <3>1, <3>5 DEF FramesSound
    <3>7. HeapPagesIn(kernel_pd') = {At(x) : x \in kheap_pages'}
      BY <2>2, <2>4, <3>3, <3>5 DEF Pages
    <3>8. kheap_pages' = UNION {q[1] .. q[1] + q[2] - 1 : q \in runs'}
      <4>1. kheap_pages = UNION {q[1] .. q[1] + q[2] - 1 : q \in runs}
        BY <1>1 DEF RunsSound
      <4>2. <<v, n>>[1] = v /\ <<v, n>>[2] = n
        OBVIOUS
      <4> QED BY <2>2, <4>1, <4>2
    <3>9. \A q \in runs : Pages(q[1], q[2]) \subseteq HeapPagesIn(m.pd)
      BY <1>1, <2>4, <3>3 DEF RunsSound, Pages
    <3>10. \A q \in runs : Pages(q[1], q[2]) \cap Pages(v, n) = {}
      BY <3>4, <3>9 DEF Pages
    <3>11. \A p, q \in runs' : p # q => Pages(p[1], p[2]) \cap Pages(q[1], q[2]) = {}
      <4> SUFFICES ASSUME NEW p \in runs', NEW q \in runs', p # q
                   PROVE  Pages(p[1], p[2]) \cap Pages(q[1], q[2]) = {}
        OBVIOUS
      <4>1. (p \in runs \/ p = <<v, n>>) /\ (q \in runs \/ q = <<v, n>>)
        BY <2>2
      <4>2. CASE p \in runs /\ q \in runs
        BY <1>1, <4>2 DEF RunsSound
      <4>3. CASE p \in runs /\ q = <<v, n>>
        BY <3>10, <4>3
      <4>4. CASE p = <<v, n>> /\ q \in runs
        BY <3>10, <4>4
      <4> QED BY <4>1, <4>2, <4>3, <4>4
    <3> QED BY <3>6, <3>7, <3>8, <3>11 DEF RunsSound
  <2>10. SpacesSound'
    BY <1>1, <2>2, SpacesFrame
  <2> QED BY <2>6, <2>7, <2>8, <2>9, <2>10 DEF PagingInv
<1> QED BY <1>4, <1>5

-----------------------------------------------------------------------------
(* A directory in which the pages of gone are taken out; their tables stay. *)
Cleared(N, pd, gone) ==
  [i \in 0 .. N - 1 |-> [pd[i] EXCEPT !.pte =
     [j \in Slot |-> IF <<i, j>> \in gone THEN ABSENT ELSE @[j]]]]

(* What is left in the tables. *)
LEMMA ClearedTables ==
  ASSUME NEW N \in Nat, NEW pd \in [0 .. N - 1 -> Table], NEW gone
  PROVE  /\ Cleared(N, pd, gone) \in [0 .. N - 1 -> Table]
         /\ \A k \in 0 .. N - 1 : Cleared(N, pd, gone)[k].frame = pd[k].frame
         /\ \A k \in 0 .. N - 1, l \in Slot :
              Cleared(N, pd, gone)[k].pte[l] = IF <<k, l>> \in gone THEN ABSENT ELSE pd[k].pte[l]
<1>1. ASSUME NEW k \in 0 .. N - 1
      PROVE  /\ Cleared(N, pd, gone)[k] \in Table
             /\ Cleared(N, pd, gone)[k].frame = pd[k].frame
             /\ \A l \in Slot : Cleared(N, pd, gone)[k].pte[l]
                                  = IF <<k, l>> \in gone THEN ABSENT ELSE pd[k].pte[l]
  <2> DEFINE pte == [j \in Slot |-> IF <<k, j>> \in gone THEN ABSENT ELSE pd[k].pte[j]]
  <2>1. pd[k] \in Table
    OBVIOUS
  <2>2. Cleared(N, pd, gone)[k] = [pd[k] EXCEPT !.pte = pte]
    BY DEF Cleared
  <2>3. ABSENT \in Entry
    BY Numbers DEF ABSENT, Entry
  <2>4. pte \in [Slot -> Entry] /\ \A l \in Slot : pte[l] = IF <<k, l>> \in gone THEN ABSENT ELSE pd[k].pte[l]
    BY <2>1, <2>3 DEF Table
  <2> HIDE DEF pte
  <2> QED BY <2>1, <2>2, <2>4 DEF Table
<1>2. Cleared(N, pd, gone) = [k \in 0 .. N - 1 |-> Cleared(N, pd, gone)[k]]
  BY DEF Cleared
<1> QED BY <1>1, <1>2

(* Pages of the heap are taken out and their frames freed. *)
LEMMA HeapGive ==
  ASSUME NEW pd \in [0 .. KPDE - 1 -> Table], NEW sp, NEW used, Owned(Uses(pd, sp), used),
         ABSENT \notin used, NEW gone \in SUBSET HeapPagesIn(pd)
  PROVE  /\ Owned(Uses(Cleared(KPDE, pd, gone), sp), used \ {pd[p[1]].pte[p[2]] : p \in gone})
         /\ HeapPagesIn(Cleared(KPDE, pd, gone)) = HeapPagesIn(pd) \ gone
<1> DEFINE pd2 == Cleared(KPDE, pd, gone)
           F == Uses(pd, sp)
           G == Uses(pd2, sp)
           D == {<<"heap", 0, p[1], p[2]>> : p \in gone}
           frames == {pd[p[1]].pte[p[2]] : p \in gone}
<1>1. /\ \A k \in 0 .. KPDE - 1 : pd2[k].frame = pd[k].frame
      /\ \A k \in 0 .. KPDE - 1, l \in Slot :
           pd2[k].pte[l] = IF <<k, l>> \in gone THEN ABSENT ELSE pd[k].pte[l]
  BY Numbers, ClearedTables
<1> HIDE DEF pd2
<1>2. \A p \in gone : p = <<p[1], p[2]>> /\ p[1] \in 0 .. KPDE - 1 /\ p[2] \in Slot
                      /\ p[2] \in 0 .. PTES /\ p[2] # PTES
  BY Numbers DEF HeapPagesIn, Slot
<1>3. D \in SUBSET Use
  BY <1>2 DEF Use
<1>4. ASSUME NEW p \in gone
      PROVE  /\ F[<<"heap", 0, p[1], p[2]>>] = pd[p[1]].pte[p[2]]
             /\ G[<<"heap", 0, p[1], p[2]>>] = ABSENT
  <2> DEFINE u == <<"heap", 0, p[1], p[2]>>
  <2>1. u \in Use /\ u[1] = "heap" /\ u[3] = p[1] /\ u[4] = p[2]
    BY <1>3
  <2>2. F[u] = InTable(pd[p[1]], p[2]) /\ G[u] = InTable(pd2[p[1]], p[2])
    BY <2>1 DEF Uses, FrameAt
  <2> HIDE DEF u
  <2>3. pd2[p[1]].pte[p[2]] = ABSENT
    BY <1>1, <1>2
  <2> QED BY <1>2, <2>2, <2>3 DEF InTable, u
<1>5. ASSUME NEW v \in Use, v \notin D PROVE G[v] = F[v]
  <2>1. G[v] = FrameAt(pd2, sp, v) /\ F[v] = FrameAt(pd, sp, v)
    BY DEF Uses
  <2>2. CASE v[1] = "heap"
    <3>1. v \in {"heap"} \X {0} \X (0 .. KPDE - 1) \X (0 .. PTES)
      BY <2>2 DEF Use
    <3>2. v[3] \in 0 .. KPDE - 1 /\ v[4] \in 0 .. PTES /\ v = <<"heap", 0, v[3], v[4]>>
      BY <3>1
    <3>3. <<v[3], v[4]>> \notin gone
      <4>1. <<v[3], v[4]>>[1] = v[3] /\ <<v[3], v[4]>>[2] = v[4]
        OBVIOUS
      <4> QED BY <1>5, <3>2, <4>1
    <3>4. v[4] # PTES => v[4] \in Slot
      BY <3>2, Numbers DEF Slot
    <3>5. InTable(pd2[v[3]], v[4]) = InTable(pd[v[3]], v[4])
      BY <1>1, <3>2, <3>3, <3>4 DEF InTable
    <3> QED BY <2>1, <2>2, <3>5 DEF FrameAt
  <2>3. CASE v[1] # "heap"
    BY <2>1, <2>3 DEF FrameAt
  <2> QED BY <2>2, <2>3
<1> HIDE DEF F, G
<1>6. /\ \A v \in D : G[v] = ABSENT
      /\ \A v \in D : F[v] # ABSENT => F[v] \in frames
      /\ \A f \in used : f \in frames => \E v \in D : F[v] = f
  BY <1>4
<1> HIDE DEF D, frames
<1>7. Owned(G, used \ frames)
  BY <1>3, <1>5, <1>6, Give DEF F
<1>8. HeapPagesIn(pd2) = HeapPagesIn(pd) \ gone
  <2>1. ASSUME NEW p \in (0 .. KPDE - 1) \X Slot
        PROVE  p \in HeapPagesIn(pd2) <=> p \in HeapPagesIn(pd) /\ p \notin gone
    <3>1. p = <<p[1], p[2]>> /\ p[1] \in 0 .. KPDE - 1 /\ p[2] \in Slot
      OBVIOUS
    <3>2. pd2[p[1]].pte[p[2]] = IF p \in gone THEN ABSENT ELSE pd[p[1]].pte[p[2]]
      BY <1>1, <3>1
    <3> QED BY <3>2 DEF HeapPagesIn
  <2>2. HeapPagesIn(pd2) \subseteq (0 .. KPDE - 1) \X Slot
        /\ HeapPagesIn(pd) \subseteq (0 .. KPDE - 1) \X Slot
    BY DEF HeapPagesIn
  <2> QED BY <2>1, <2>2
<1> QED BY <1>7, <1>8 DEF G, frames, pd2

(* unmmap keeps the invariant. *)
LEMMA UnmmapKeeps ==
  ASSUME PagingInv, ~wild, unmmap
  PROVE  PagingInv'
<1>1. TypeOK /\ KernelHalfFresh /\ FramesSound /\ RunsSound /\ SpacesSound
  BY DEF PagingInv
<1>2. PICK r \in runs :
        /\ kernel_pd' = Cleared(KPDE, kernel_pd, Pages(r[1], r[2]))
        /\ bitmap' = bitmap \ {kernel_pd[p[1]].pte[p[2]] : p \in Pages(r[1], r[2])}
        /\ kheap_pages' = kheap_pages \ r[1] .. r[1] + r[2] - 1
        /\ runs' = runs \ {r}
        /\ UNCHANGED <<space, regions, torn, wild>>
  BY DEF unmmap, Cleared, pmm_free
<1> DEFINE gone == Pages(r[1], r[2])
<1>3. /\ bitmap \in SUBSET (0 .. FRAMES) /\ kernel_pd \in [0 .. KPDE - 1 -> Table]
      /\ kheap_pages \subseteq Nat /\ ABSENT \notin bitmap
  <2>1. bitmap \in SUBSET (0 .. FRAMES) /\ kernel_pd \in [0 .. KPDE - 1 -> Table]
    BY <1>1 DEF TypeOK
  <2>2. kheap_pages \subseteq Nat
    BY <1>1, Numbers DEF TypeOK
  <2> QED BY <2>1, <2>2, Numbers
<1>4. /\ HeapPagesIn(kernel_pd) = {At(x) : x \in kheap_pages}
      /\ \A q \in runs : q[1] .. q[1] + q[2] - 1 \subseteq kheap_pages
      /\ kheap_pages = UNION {s[1] .. s[1] + s[2] - 1 : s \in runs}
  <2>1. /\ HeapPagesIn(kernel_pd) = {At(x) : x \in kheap_pages}
        /\ kheap_pages = UNION {s[1] .. s[1] + s[2] - 1 : s \in runs}
    BY <1>1 DEF RunsSound
  <2>2. \A q \in runs : q[1] .. q[1] + q[2] - 1 \subseteq kheap_pages
    BY <2>1
  <2> QED BY <2>1, <2>2
<1>5. gone \in SUBSET HeapPagesIn(kernel_pd)
  BY <1>4 DEF Pages
<1>6. Owned(Uses(kernel_pd', space), bitmap') /\ HeapPagesIn(kernel_pd') = HeapPagesIn(kernel_pd) \ gone
  BY <1>1, <1>2, <1>3, <1>5, HeapGive DEF FramesSound
<1>7. kernel_pd' \in [0 .. KPDE - 1 -> Table]
      /\ \A k \in 0 .. KPDE - 1 : kernel_pd'[k].frame = kernel_pd[k].frame
  BY <1>2, <1>3, Numbers, ClearedTables
<1>8. TypeOK'
  BY <1>1, <1>2, <1>7 DEF TypeOK
<1>9. KernelHalfFresh'
  BY <1>1, <1>2, <1>7 DEF KernelHalfFresh
<1>10. FramesSound'
  <2>1. FRAMES \notin bitmap'
    BY <1>1, <1>2 DEF FramesSound
  <2> QED BY <1>2, <1>6, <2>1 DEF FramesSound
<1>11. RunsSound'
  <2>1. \A x \in kheap_pages : At(x) \in gone <=> x \in r[1] .. r[1] + r[2] - 1
    BY <1>3, <1>4, AtOneToOne DEF Pages
  <2>2. HeapPagesIn(kernel_pd') = {At(x) : x \in kheap_pages'}
    BY <1>2, <1>4, <1>6, <2>1
  <2>3. \A q \in runs : q # r => (q[1] .. q[1] + q[2] - 1) \cap (r[1] .. r[1] + r[2] - 1) = {}
    BY <1>1 DEF RunsSound, Pages
  <2>4. kheap_pages' = UNION {q[1] .. q[1] + q[2] - 1 : q \in runs'}
    BY <1>2, <1>4, <2>3
  <2>5. \A p, q \in runs' : p # q => Pages(p[1], p[2]) \cap Pages(q[1], q[2]) = {}
    BY <1>1, <1>2 DEF RunsSound
  <2> QED BY <2>2, <2>4, <2>5 DEF RunsSound
<1>12. SpacesSound'
  BY <1>1, <1>2, SpacesFrame
<1>13. ~wild'
  BY <1>2
<1> QED BY <1>8, <1>9, <1>10, <1>11, <1>12, <1>13 DEF PagingInv, WildExplained

(* A task that a step does not touch stays tidy. *)
LEMMA TidyFrame ==
  ASSUME NEW s, Tidy(s), space'[s] = space[s], RegionsOf(s)' = RegionsOf(s)
  PROVE  Tidy(s)'
  BY DEF Tidy

(* A use is one of the heap, of a user half, or a directory. *)
LEMMA UseCases ==
  ASSUME NEW v \in Use
  PROVE  \/ v[1] = "heap" /\ v[2] = 0 /\ v[3] \in 0 .. KPDE - 1 /\ v[4] \in 0 .. PTES
         \/ /\ v[1] = "task" /\ v[2] \in Task /\ v[3] \in 0 .. UPDE - 1 /\ v[4] \in 0 .. PTES
            /\ v = <<"task", v[2], v[3], v[4]>>
         \/ v[1] = "dir" /\ v[2] \in Task /\ v = <<"dir", v[2], 0, 0>>
<1>1. CASE v \in {"heap"} \X {0} \X (0 .. KPDE - 1) \X (0 .. PTES)
  BY <1>1
<1>2. CASE v \in {"task"} \X Task \X (0 .. UPDE - 1) \X (0 .. PTES)
  BY <1>2
<1>3. CASE v \in {"dir"} \X Task \X {0} \X {0}
  BY <1>3
<1> QED BY <1>1, <1>2, <1>3 DEF Use

(* An empty user half. *)
LEMMA EmptyHalf ==
  /\ NoSpace.user \in [0 .. UPDE - 1 -> Table]
  /\ \A i \in 0 .. UPDE - 1, l \in 0 .. PTES : InTable(NoSpace.user[i], l) = ABSENT
  /\ \A i \in 0 .. UPDE - 1 : NoSpace.user[i] = NoTable
  /\ NoTable \in Table
<1>1. ABSENT \in Entry
  BY Numbers DEF ABSENT, Entry
<1>2. NoTable \in Table
  BY <1>1 DEF NoTable, Table
<1>3. NoSpace.user = [i \in 0 .. UPDE - 1 |-> NoTable]
  BY DEF NoSpace
<1>4. \A l \in 0 .. PTES : InTable(NoTable, l) = ABSENT
  <2>1. \A l \in 0 .. PTES : l # PTES => l \in Slot
    BY Numbers DEF Slot
  <2> QED BY <2>1 DEF InTable, NoTable
<1> QED BY <1>2, <1>3, <1>4

(* Allocated again, as the steps below need it. *)
LEMMA AllocatedIn ==
  ASSUME NEW used
  PROVE  pmm_alloc(used) \in 0 .. FRAMES /\ (pmm_alloc(used) # FRAMES => pmm_alloc(used) \notin used)
  BY Numbers, Allocated DEF Frame

(* mmap_ring3 keeps the invariant. *)
LEMMA MmapRing3Keeps ==
  ASSUME PagingInv, ~wild, mmap_ring3
  PROVE  PagingInv'
<1>1. TypeOK /\ KernelHalfFresh /\ FramesSound /\ RunsSound /\ SpacesSound
  BY DEF PagingInv
<1>2. PICK t \in Task :
        /\ space[t].cr3 = ABSENT
        /\ LET u0 == bitmap
               code == pmm_alloc(u0)          u1 == u0 \cup {code}
               stack == pmm_alloc(u1)         u2 == u1 \cup {stack}
               table == pmm_alloc(u2)         u3 == u2 \cup {table}
               dir == pmm_alloc(u3)           u4 == u3 \cup {dir}
           IN /\ bitmap' = u4
              /\ wild' = Overrun(u4)
              /\ space' = [space EXCEPT ![t] =
                   [cr3 |-> dir,
                    user |-> [NoSpace.user EXCEPT ![0] =
                      [frame |-> table,
                       pte |-> [NoTable.pte EXCEPT ![CODE[2]] = code, ![STACK[2]] = stack]]],
                    kernel |-> [i \in 0 .. KPDE - 1 |-> kernel_pd[i].frame]]]
        /\ UNCHANGED <<kernel_pd, kheap_pages, runs, regions, torn>>
  BY DEF mmap_ring3
<1> DEFINE code  == pmm_alloc(bitmap)
           u1    == bitmap \cup {code}
           stack == pmm_alloc(u1)
           u2    == u1 \cup {stack}
           table == pmm_alloc(u2)
           u3    == u2 \cup {table}
           dir   == pmm_alloc(u3)
           u4    == u3 \cup {dir}
           pte   == [NoTable.pte EXCEPT ![1] = code, ![2] = stack]
           user  == [NoSpace.user EXCEPT ![0] = [frame |-> table, pte |-> pte]]
           kern  == [i \in 0 .. KPDE - 1 |-> kernel_pd[i].frame]
           new   == [cr3 |-> dir, user |-> user, kernel |-> kern]
<1>3. bitmap' = u4 /\ wild' = (FRAMES \in u4) /\ space' = [space EXCEPT ![t] = new]
      /\ UNCHANGED <<kernel_pd, kheap_pages, runs, regions, torn>>
  BY <1>2 DEF Overrun, CODE, STACK
<1>4. /\ code \in 0 .. FRAMES /\ (code # FRAMES => code \notin bitmap)
      /\ stack \in 0 .. FRAMES /\ (stack # FRAMES => stack \notin u1)
      /\ table \in 0 .. FRAMES /\ (table # FRAMES => table \notin u2)
      /\ dir \in 0 .. FRAMES /\ (dir # FRAMES => dir \notin u3)
  <2>1. code \in 0 .. FRAMES /\ (code # FRAMES => code \notin bitmap)
    BY AllocatedIn
  <2>2. stack \in 0 .. FRAMES /\ (stack # FRAMES => stack \notin u1)
    BY AllocatedIn
  <2>3. table \in 0 .. FRAMES /\ (table # FRAMES => table \notin u2)
    BY AllocatedIn
  <2>4. dir \in 0 .. FRAMES /\ (dir # FRAMES => dir \notin u3)
    BY AllocatedIn
  <2> QED BY <2>1, <2>2, <2>3, <2>4
<1>5. /\ bitmap \in SUBSET (0 .. FRAMES) /\ ABSENT \notin bitmap /\ kernel_pd \in [0 .. KPDE - 1 -> Table]
      /\ space \in [Task -> [cr3 : Entry, user : [0 .. UPDE - 1 -> Table], kernel : [0 .. KPDE - 1 -> Entry]]]
  <2>1. bitmap \in SUBSET (0 .. FRAMES) /\ kernel_pd \in [0 .. KPDE - 1 -> Table]
      /\ space \in [Task -> [cr3 : Entry, user : [0 .. UPDE - 1 -> Table], kernel : [0 .. KPDE - 1 -> Entry]]]
    BY <1>1 DEF TypeOK
  <2> QED BY <2>1, Numbers
<1> HIDE DEF code, stack, table, dir
<1>6. 1 \in Slot /\ 2 \in Slot /\ 0 \in 0 .. UPDE - 1 /\ 1 # PTES /\ 2 # PTES
      /\ 1 \in 0 .. PTES /\ 2 \in 0 .. PTES /\ PTES \in 0 .. PTES
  BY PagingAssumption DEF Slot
<1>7. /\ code \in Entry /\ stack \in Entry /\ table \in Entry /\ dir \in Entry
      /\ code # ABSENT /\ stack # ABSENT /\ table # ABSENT /\ dir # ABSENT
  BY <1>4, Numbers DEF Entry
<1>8. /\ pte \in [Slot -> Entry]
      /\ \A l \in Slot : pte[l] = IF l = 1 THEN code ELSE IF l = 2 THEN stack ELSE ABSENT
  <2>1. NoTable.pte = [j \in Slot |-> ABSENT] /\ NoTable.pte \in [Slot -> Entry]
    BY EmptyHalf DEF NoTable, Table
  <2> QED BY <1>6, <1>7, <2>1
<1> HIDE DEF pte
<1>9. /\ user \in [0 .. UPDE - 1 -> Table]
      /\ user[0] = [frame |-> table, pte |-> pte]
      /\ \A i \in 0 .. UPDE - 1 : i # 0 => user[i] = NoTable
  <2>1. [frame |-> table, pte |-> pte] \in Table
    BY <1>7, <1>8 DEF Table
  <2> QED BY <1>6, <2>1, EmptyHalf
<1>10. kern \in [0 .. KPDE - 1 -> Entry] /\ \A i \in 0 .. KPDE - 1 : kern[i] = kernel_pd[i].frame
  BY <1>5 DEF Table
<1> HIDE DEF user, kern
<1>11. new.cr3 = dir /\ new.user = user /\ new.kernel = kern
       /\ new \in [cr3 : Entry, user : [0 .. UPDE - 1 -> Table], kernel : [0 .. KPDE - 1 -> Entry]]
  BY <1>7, <1>9, <1>10
<1> HIDE DEF new
<1>12. space'[t] = new /\ \A s \in Task : s # t => space'[s] = space[s]
  BY <1>3, <1>5
<1>13. TypeOK'
  <2>1. u4 \subseteq 0 .. FRAMES
    BY <1>4, <1>5
  <2>2. space' \in [Task -> [cr3 : Entry, user : [0 .. UPDE - 1 -> Table], kernel : [0 .. KPDE - 1 -> Entry]]]
    BY <1>3, <1>5, <1>11
  <2>3. wild' \in BOOLEAN
    BY <1>3
  <2> QED BY <1>1, <1>3, <2>1, <2>2, <2>3 DEF TypeOK
<1>14. KernelHalfFresh'
  <2>1. \A i \in 0 .. KPDE - 1 : space'[t].kernel[i] = kernel_pd'[i].frame
    BY <1>3, <1>10, <1>11, <1>12
  <2>2. \A s \in Task, i \in 0 .. KPDE - 1 : s # t => space'[s].kernel[i] \in {ABSENT, kernel_pd'[i].frame}
    BY <1>1, <1>3, <1>12 DEF KernelHalfFresh
  <2> QED BY <2>1, <2>2 DEF KernelHalfFresh
<1>15. WildExplained'
  BY <1>3 DEF WildExplained
<1>16. ASSUME ~wild' PROVE FramesSound'
  <2> DEFINE F0 == Uses(kernel_pd, space)
             a  == <<"task", t, 0, 1>>
             b  == <<"task", t, 0, 2>>
             c  == <<"task", t, 0, PTES>>
             d  == <<"dir", t, 0, 0>>
             F1 == [F0 EXCEPT ![a] = code]
             F2 == [F1 EXCEPT ![b] = stack]
             F3 == [F2 EXCEPT ![c] = table]
             F4 == Uses(kernel_pd', space')
  <2>1. /\ code # FRAMES /\ stack # FRAMES /\ table # FRAMES /\ dir # FRAMES
        /\ ABSENT \notin u1 /\ ABSENT \notin u2 /\ ABSENT \notin u3 /\ FRAMES \notin u4
    BY <1>3, <1>5, <1>7, <1>16
  <2>2. a \in Use /\ b \in Use /\ c \in Use /\ d \in Use
    BY <1>6 DEF Use
  <2>3. a # b /\ a # c /\ a # d /\ b # c /\ b # d /\ c # d
    BY <1>6
  <2>4. \A i \in 0 .. UPDE - 1, l \in 0 .. PTES : InTable(space[t].user[i], l) = ABSENT
    BY <1>1, <1>2, EmptyHalf DEF SpacesSound
  <2>5. F0[a] = ABSENT /\ F0[b] = ABSENT /\ F0[c] = ABSENT /\ F0[d] = ABSENT
    BY <1>2, <1>6, <2>2, <2>4 DEF Uses, FrameAt
  <2>6. F4[a] = code /\ F4[b] = stack /\ F4[c] = table /\ F4[d] = dir
    <3>1. InTable(user[0], 1) = code /\ InTable(user[0], 2) = stack /\ InTable(user[0], PTES) = table
      BY <1>6, <1>8, <1>9 DEF InTable
    <3> QED BY <1>11, <1>12, <2>2, <3>1 DEF Uses, FrameAt
  <2>7. ASSUME NEW v \in Use, v # a, v # b, v # c, v # d
        PROVE  F4[v] = F0[v]
    <3>1. F4[v] = FrameAt(kernel_pd', space', v) /\ F0[v] = FrameAt(kernel_pd, space, v)
      BY DEF Uses
    <3>2. CASE v[1] = "heap"
      BY <1>3, <3>1, <3>2 DEF FrameAt
    <3>3. CASE v[1] # "heap" /\ v[2] # t
      <4>1. v[2] \in Task
        BY <3>3, UseCases
      <4>2. space'[v[2]] = space[v[2]]
        BY <1>12, <3>3, <4>1
      <4> QED BY <3>1, <3>3, <4>2 DEF FrameAt
    <3>4. CASE v[1] # "heap" /\ v[2] = t
      <4>1. v[1] = "task" /\ v[3] \in 0 .. UPDE - 1 /\ v[4] \in 0 .. PTES
            /\ ~(v[3] = 0 /\ v[4] \in {1, 2, PTES})
        BY <2>7, <3>4, UseCases
      <4>2. InTable(user[v[3]], v[4]) = ABSENT
        <5>1. CASE v[3] = 0
          <6>1. v[4] \in Slot /\ v[4] # 1 /\ v[4] # 2 /\ v[4] # PTES
            BY <4>1, <5>1, Numbers DEF Slot
          <6> QED BY <1>8, <1>9, <5>1, <6>1 DEF InTable
        <5>2. CASE v[3] # 0
          <6>1. user[v[3]] = NoSpace.user[v[3]]
            BY <1>9, <4>1, <5>2, EmptyHalf
          <6> QED BY <4>1, <6>1, EmptyHalf
        <5> QED BY <5>1, <5>2
      <4>3. InTable(space[t].user[v[3]], v[4]) = ABSENT
        BY <2>4, <4>1
      <4> QED BY <1>11, <1>12, <3>1, <3>4, <4>1, <4>2, <4>3 DEF FrameAt
    <3> QED BY <3>2, <3>3, <3>4
  <2>8. Owned(F0, bitmap)
    BY <1>1 DEF FramesSound
  <2>9. /\ DOMAIN F0 = Use
        /\ F1[a] = code /\ \A v \in Use : v # a => F1[v] = F0[v]
    BY <2>2 DEF Uses
  <2>10. F2[b] = stack /\ \A v \in Use : v # b => F2[v] = F1[v]
    BY <2>2, <2>9
  <2>11. F3[c] = table /\ \A v \in Use : v # c => F3[v] = F2[v]
    BY <2>2, <2>9
  <2> HIDE DEF F0, F1, F2, F3, F4, a, b, c, d
  <2>12. Owned(F1, u1)
    BY <1>4, <1>5, <1>7, <2>1, <2>2, <2>5, <2>8, <2>9, Take
  <2>13. Owned(F2, u2)
    <3>1. F1[b] = ABSENT
      BY <2>2, <2>3, <2>5, <2>9
    <3> QED BY <1>4, <1>7, <2>1, <2>2, <2>10, <2>12, <3>1, Take
  <2>14. Owned(F3, u3)
    <3>1. F2[c] = ABSENT
      BY <2>2, <2>3, <2>5, <2>9, <2>10
    <3> QED BY <1>4, <1>7, <2>1, <2>2, <2>11, <2>13, <3>1, Take
  <2>15. Owned(F4, u4)
    <3>1. F3[d] = ABSENT
      BY <2>2, <2>3, <2>5, <2>9, <2>10, <2>11
    <3>2. \A v \in Use : v # d => F4[v] = F3[v]
      BY <2>2, <2>3, <2>6, <2>7, <2>9, <2>10, <2>11
    <3> QED BY <1>4, <1>7, <2>1, <2>2, <2>6, <2>14, <3>1, <3>2, Take
  <2> QED BY <1>3, <2>1, <2>15 DEF FramesSound, F4
<1>17. RunsSound'
  BY <1>1, <1>3, RunsFrame
<1>18. SpacesSound'
  <2>1. /\ \A s \in Task : space[s].cr3 = ABSENT => space[s].user = NoSpace.user
        /\ \A s \in Task : HasTables(space[s].user)
        /\ \A r \in regions : space[r.task].cr3 # ABSENT
        /\ \A s \in Task \ torn : space[s].cr3 # ABSENT => Tidy(s)
    BY <1>1 DEF SpacesSound
  <2>2. ASSUME NEW k \in 0 .. UPDE - 1, NEW l \in Slot
        PROVE  user[k].pte[l] # ABSENT <=> k = 0 /\ l \in {1, 2}
    <3>1. CASE k = 0
      BY <1>7, <1>8, <1>9, <3>1
    <3>2. CASE k # 0
      BY <1>9, <3>2 DEF NoTable
    <3> QED BY <3>1, <3>2
  <2>3. PagesIn(user) = {CODE, STACK}
    <3>1. \A p \in (0 .. UPDE - 1) \X Slot : p = <<p[1], p[2]>> /\ p[1] \in 0 .. UPDE - 1 /\ p[2] \in Slot
      OBVIOUS
    <3>2. CODE \in (0 .. UPDE - 1) \X Slot /\ STACK \in (0 .. UPDE - 1) \X Slot
          /\ CODE[1] = 0 /\ CODE[2] = 1 /\ STACK[1] = 0 /\ STACK[2] = 2
      BY <1>6 DEF CODE, STACK
    <3>3. \A p \in PagesIn(user) : p = CODE \/ p = STACK
      BY <2>2, <3>1 DEF PagesIn, CODE, STACK
    <3>4. CODE \in PagesIn(user) /\ STACK \in PagesIn(user)
      BY <1>6, <2>2, <3>2 DEF PagesIn
    <3> QED BY <3>3, <3>4
  <2>4. HasTables(user)
    <3>1. \A p \in PagesIn(user) : p[1] = 0
      BY <2>3 DEF CODE, STACK
    <3>2. user[0].frame = table
      BY <1>9
    <3> QED BY <1>7, <3>1, <3>2 DEF HasTables
  <2>5. space'[t].cr3 # ABSENT /\ space'[t].user = user
    BY <1>7, <1>11, <1>12
  <2>6. \A s \in Task : space'[s].cr3 = ABSENT => space'[s].user = NoSpace.user
    BY <1>12, <2>1, <2>5
  <2>7. \A s \in Task : HasTables(space'[s].user)
    BY <1>12, <2>1, <2>4, <2>5
  <2>8. \A r \in regions' : space'[r.task].cr3 # ABSENT
    <3>1. \A r \in regions : r.task \in Task /\ r.task # t
      BY <1>1, <1>2, <2>1 DEF TypeOK
    <3> QED BY <1>3, <1>12, <2>1, <3>1
  <2>9. ASSUME NEW s \in Task \ torn', space'[s].cr3 # ABSENT PROVE Tidy(s)'
    <3>1. CASE s = t
      <4>1. RegionsOf(t)' = {}
        BY <1>2, <1>3, <2>1 DEF RegionsOf
      <4>2. UserPages(space'[t]) = {CODE, STACK}
        BY <2>3, <2>5 DEF UserPages, PagesIn
      <4> QED BY <3>1, <4>1, <4>2 DEF Tidy
    <3>2. CASE s # t
      <4>1. space'[s] = space[s] /\ RegionsOf(s)' = RegionsOf(s) /\ s \in Task \ torn
        BY <1>3, <1>12, <2>9, <3>2 DEF RegionsOf
      <4> QED BY <2>1, <2>9, <4>1, TidyFrame
    <3> QED BY <3>1, <3>2
  <2> QED BY <2>6, <2>7, <2>8, <2>9 DEF SpacesSound
<1> QED BY <1>13, <1>14, <1>15, <1>16, <1>17, <1>18 DEF PagingInv

(* unmmap_ring3 keeps the invariant. *)
LEMMA UnmmapRing3Keeps ==
  ASSUME PagingInv, ~wild, unmmap_ring3
  PROVE  PagingInv'
<1>1. TypeOK /\ KernelHalfFresh /\ FramesSound /\ RunsSound /\ SpacesSound
  BY DEF PagingInv
<1>2. PICK t \in Task :
        /\ space[t].cr3 # ABSENT
        /\ bitmap' = bitmap \ (UserFrames(space[t]) \cup UserTables(space[t]) \cup {space[t].cr3})
        /\ space' = [space EXCEPT ![t] = NoSpace]
        /\ regions' = {r \in regions : r.task # t}
        /\ torn' = torn \ {t}
        /\ UNCHANGED <<kernel_pd, kheap_pages, runs, wild>>
  BY DEF unmmap_ring3, pmm_free
<1> DEFINE frames == UserFrames(space[t]) \cup UserTables(space[t]) \cup {space[t].cr3}
<1>3. /\ bitmap \in SUBSET (0 .. FRAMES) /\ ABSENT \notin bitmap
      /\ space \in [Task -> [cr3 : Entry, user : [0 .. UPDE - 1 -> Table], kernel : [0 .. KPDE - 1 -> Entry]]]
  <2>1. bitmap \in SUBSET (0 .. FRAMES)
      /\ space \in [Task -> [cr3 : Entry, user : [0 .. UPDE - 1 -> Table], kernel : [0 .. KPDE - 1 -> Entry]]]
    BY <1>1 DEF TypeOK
  <2> QED BY <2>1, Numbers
<1>4. space'[t] = NoSpace /\ \A s \in Task : s # t => space'[s] = space[s]
  BY <1>2, <1>3
<1>5. /\ NoSpace.cr3 = ABSENT /\ NoSpace.kernel = [i \in 0 .. KPDE - 1 |-> ABSENT]
      /\ NoSpace \in [cr3 : Entry, user : [0 .. UPDE - 1 -> Table], kernel : [0 .. KPDE - 1 -> Entry]]
  <2>1. ABSENT \in Entry
    BY Numbers DEF ABSENT, Entry
  <2>2. NoSpace.cr3 = ABSENT /\ NoSpace.kernel = [i \in 0 .. KPDE - 1 |-> ABSENT]
        /\ NoSpace = [cr3 |-> NoSpace.cr3, user |-> NoSpace.user, kernel |-> NoSpace.kernel]
    BY DEF NoSpace
  <2> QED BY <2>1, <2>2, EmptyHalf
<1>6. TypeOK'
  <2>1. space' \in [Task -> [cr3 : Entry, user : [0 .. UPDE - 1 -> Table], kernel : [0 .. KPDE - 1 -> Entry]]]
    BY <1>2, <1>3, <1>5
  <2>2. bitmap' \subseteq 0 .. FRAMES /\ torn' \subseteq Task /\ regions' \subseteq regions
    BY <1>1, <1>2, <1>3 DEF TypeOK
  <2> QED BY <1>1, <1>2, <2>1, <2>2 DEF TypeOK
<1>7. KernelHalfFresh'
  <2>1. \A i \in 0 .. KPDE - 1 : space'[t].kernel[i] = ABSENT
    BY <1>4, <1>5
  <2>2. \A s \in Task, i \in 0 .. KPDE - 1 : s # t => space'[s].kernel[i] \in {ABSENT, kernel_pd'[i].frame}
    BY <1>1, <1>2, <1>4 DEF KernelHalfFresh
  <2> QED BY <2>1, <2>2 DEF KernelHalfFresh
<1>8. FramesSound'
  <2> DEFINE F == Uses(kernel_pd, space)
             G == Uses(kernel_pd', space')
             D == {v \in Use : v[1] # "heap" /\ v[2] = t}
  <2>1. \A v \in Use : F[v] = FrameAt(kernel_pd, space, v) /\ G[v] = FrameAt(kernel_pd', space', v)
    BY DEF Uses
  <2>2. Owned(F, bitmap) /\ FRAMES \notin bitmap
    BY <1>1 DEF FramesSound
  <2>3. ASSUME NEW v \in D PROVE G[v] = ABSENT /\ (F[v] # ABSENT => F[v] \in frames)
    <3>1. CASE v[1] = "task"
      <4>1. v[3] \in 0 .. UPDE - 1 /\ v[4] \in 0 .. PTES /\ v[2] = t
        BY <3>1, UseCases
      <4>2. G[v] = ABSENT
        BY <1>4, <2>1, <3>1, <4>1, EmptyHalf DEF FrameAt
      <4>3. F[v] = InTable(space[t].user[v[3]], v[4])
        BY <2>1, <3>1, <4>1 DEF FrameAt
      <4>4. CASE v[4] = PTES
        <5>1. F[v] = space[t].user[v[3]].frame
          BY <4>3, <4>4 DEF InTable
        <5>2. F[v] # ABSENT => F[v] \in UserTables(space[t])
          BY <4>1, <5>1, Zenon DEF UserTables
        <5> QED BY <4>2, <5>2
      <4>5. CASE v[4] # PTES
        <5>1. v[4] \in Slot /\ F[v] = space[t].user[v[3]].pte[v[4]]
          BY <4>1, <4>3, <4>5, Numbers DEF Slot, InTable
        <5>2. ASSUME F[v] # ABSENT PROVE F[v] \in UserFrames(space[t])
          <6>1. <<v[3], v[4]>> \in UserPages(space[t])
            BY <4>1, <5>1, <5>2 DEF UserPages
          <6> DEFINE p == <<v[3], v[4]>>
          <6>2. F[v] = space[t].user[p[1]].pte[p[2]]
            BY <5>1
          <6> HIDE DEF p, F
          <6> QED BY <6>1, <6>2 DEF UserFrames, p
        <5> QED BY <4>2, <5>2
      <4> QED BY <4>2, <4>4, <4>5
    <3>2. CASE v[1] = "dir"
      BY <1>4, <1>5, <2>1, <3>2 DEF FrameAt
    <3> QED BY <3>1, <3>2, UseCases
  <2>4. ASSUME NEW v \in Use, v \notin D PROVE G[v] = F[v]
    <3>1. CASE v[1] = "heap"
      BY <1>2, <2>1, <3>1 DEF FrameAt
    <3>2. CASE v[1] # "heap"
      <4>1. v[2] \in Task /\ v[2] # t
        BY <2>4, <3>2, UseCases
      <4>2. space'[v[2]] = space[v[2]]
        BY <1>4, <4>1
      <4> QED BY <2>1, <3>2, <4>2 DEF FrameAt
    <3> QED BY <3>1, <3>2
  <2>5. ASSUME NEW f \in bitmap, f \in frames PROVE \E v \in D : F[v] = f
    <3>1. CASE f = space[t].cr3
      <4>1. <<"dir", t, 0, 0>> \in D /\ F[<<"dir", t, 0, 0>>] = f
        BY <2>1, <3>1 DEF FrameAt, Use
      <4> QED BY <4>1
    <3>2. CASE f \in UserTables(space[t])
      <4>1. PICK i \in 0 .. UPDE - 1 : f = space[t].user[i].frame
        BY <3>2 DEF UserTables
      <4>2. <<"task", t, i, PTES>> \in D
        BY Numbers DEF Use
      <4>3. F[<<"task", t, i, PTES>>] = f
        BY <2>1, <4>1, <4>2 DEF FrameAt, InTable
      <4> QED BY <4>2, <4>3
    <3>3. CASE f \in UserFrames(space[t])
      <4>1. PICK p \in UserPages(space[t]) : f = space[t].user[p[1]].pte[p[2]]
        BY <3>3 DEF UserFrames
      <4>2. p[1] \in 0 .. UPDE - 1 /\ p[2] \in Slot /\ p[2] \in 0 .. PTES /\ p[2] # PTES
        BY Numbers DEF UserPages, Slot
      <4>3. <<"task", t, p[1], p[2]>> \in D
        BY <4>2 DEF Use
      <4>4. F[<<"task", t, p[1], p[2]>>] = f
        BY <2>1, <4>1, <4>2, <4>3 DEF FrameAt, InTable
      <4> QED BY <4>3, <4>4
    <3> QED BY <2>5, <3>1, <3>2, <3>3
  <2>6. D \in SUBSET Use
    OBVIOUS
  <2> HIDE DEF D, F, G, frames
  <2>7. Owned(G, bitmap \ frames)
    BY <1>3, <2>2, <2>3, <2>4, <2>5, <2>6, Give
  <2> QED BY <1>2, <2>2, <2>7 DEF FramesSound, G, frames
<1>9. RunsSound'
  BY <1>1, <1>2, RunsFrame
<1>10. SpacesSound'
  <2>1. /\ \A s \in Task : space[s].cr3 = ABSENT => space[s].user = NoSpace.user
        /\ \A s \in Task : HasTables(space[s].user)
        /\ \A r \in regions : space[r.task].cr3 # ABSENT
        /\ \A s \in Task \ torn : space[s].cr3 # ABSENT => Tidy(s)
    BY <1>1 DEF SpacesSound
  <2>2. HasTables(NoSpace.user)
    BY EmptyHalf DEF HasTables, PagesIn, NoTable
  <2>3. \A s \in Task : space'[s].cr3 = ABSENT => space'[s].user = NoSpace.user
    BY <1>4, <2>1
  <2>4. \A s \in Task : HasTables(space'[s].user)
    BY <1>4, <2>1, <2>2
  <2>5. \A r \in regions' : space'[r.task].cr3 # ABSENT
    <3>1. \A r \in regions' : r \in regions /\ r.task \in Task /\ r.task # t
      BY <1>1, <1>2 DEF TypeOK
    <3> QED BY <1>4, <2>1, <3>1
  <2>6. ASSUME NEW s \in Task \ torn', space'[s].cr3 # ABSENT PROVE Tidy(s)'
    <3>1. s # t
      BY <1>4, <1>5, <2>6
    <3>2. space'[s] = space[s] /\ RegionsOf(s)' = RegionsOf(s) /\ s \in Task \ torn
      BY <1>2, <1>4, <2>6, <3>1 DEF RegionsOf
    <3> QED BY <2>1, <2>6, <3>2, TidyFrame
  <2> QED BY <2>3, <2>4, <2>5, <2>6 DEF SpacesSound
<1>11. ~wild'
  BY <1>2
<1> QED BY <1>6, <1>7, <1>8, <1>9, <1>10, <1>11 DEF PagingInv, WildExplained

-----------------------------------------------------------------------------
SpaceType == [cr3 : Entry, user : [0 .. UPDE - 1 -> Table], kernel : [0 .. KPDE - 1 -> Entry]]

(* The spaces sp with another user half for task t. *)
SpaceWith(sp, t, user) == [sp EXCEPT ![t].user = user]

(* It differs from sp in that half only. *)
LEMMA SpaceWithIs ==
  ASSUME NEW sp \in [Task -> SpaceType], NEW t \in Task, NEW user \in [0 .. UPDE - 1 -> Table]
  PROVE  /\ SpaceWith(sp, t, user) \in [Task -> SpaceType]
         /\ SpaceWith(sp, t, user)[t].user = user
         /\ SpaceWith(sp, t, user)[t].cr3 = sp[t].cr3
         /\ SpaceWith(sp, t, user)[t].kernel = sp[t].kernel
         /\ \A s \in Task : s # t => SpaceWith(sp, t, user)[s] = sp[s]
<1> DEFINE d == [sp[t] EXCEPT !.user = user]
<1>1. sp[t] \in SpaceType
  OBVIOUS
<1>2. SpaceWith(sp, t, user) = [sp EXCEPT ![t] = d]
  BY DEF SpaceWith
<1>3. d \in SpaceType /\ d.user = user /\ d.cr3 = sp[t].cr3 /\ d.kernel = sp[t].kernel
  BY <1>1 DEF SpaceType
<1> HIDE DEF d
<1> QED BY <1>2, <1>3

(* v is the first page that sys_mmap finds free. *)
First(user, v) ==
  /\ v \in 1 .. UPDE * PTES - 1
  /\ At(v) \notin PagesIn(user)
  /\ \A w \in 1 .. v - 1 : At(w) \in PagesIn(user)

(* What is mapped, said of pages by their number. *)
LEMMA MappedAt ==
  ASSUME NEW user, NEW v \in 0 .. UPDE * PTES - 1
  PROVE  At(v) \in PagesIn(user) <=> user[At(v)[1]].pte[At(v)[2]] # ABSENT
<1>1. At(v) \in (0 .. UPDE - 1) \X Slot
  BY AtBound, Numbers
<1> QED BY <1>1 DEF PagesIn

(* There is a free page below KERNEL_BASE as long as memory has not run out:   *)
(* the mapped pages have frames of their own, one more is the directory, and    *)
(* there are fewer frames than pages. *)
LEMMA FreePageExists ==
  ASSUME NEW pd, NEW sp, NEW used \in SUBSET (0 .. FRAMES), FRAMES \notin used, NEW t \in Task,
         Owned(Uses(pd, sp), used), sp[t].cr3 # ABSENT
  PROVE  \E v \in 1 .. UPDE * PTES - 1 : At(v) \notin PagesIn(sp[t].user)
<1> SUFFICES ASSUME \A v \in 1 .. UPDE * PTES - 1 : At(v) \in PagesIn(sp[t].user)
             PROVE  FALSE
  OBVIOUS
<1> DEFINE N == UPDE * PTES
           user == sp[t].user
           U(v) == IF v = 0 THEN <<"dir", t, 0, 0>> ELSE <<"task", t, At(v)[1], At(v)[2]>>
           F == Uses(pd, sp)
           g == [v \in 0 .. N - 1 |-> F[U(v)]]
<1>1. N \in Nat /\ FRAMES \in Nat /\ FRAMES < N
  BY Numbers
<1>2. ASSUME NEW v \in 1 .. N - 1
      PROVE  At(v)[1] \in 0 .. UPDE - 1 /\ At(v)[2] \in 0 .. PTES /\ At(v)[2] # PTES
             /\ At(v) = <<At(v)[1], At(v)[2]>> /\ user[At(v)[1]].pte[At(v)[2]] # ABSENT
  <2>1. v \in 0 .. N - 1
    BY <1>1
  <2>2. At(v) \in (0 .. UPDE - 1) \X Slot
    BY <2>1, AtBound, Numbers
  <2>3. user[At(v)[1]].pte[At(v)[2]] # ABSENT
    BY <2>1, MappedAt
  <2> QED BY <2>2, <2>3, Numbers DEF Slot
<1>3. ASSUME NEW v \in 0 .. N - 1 PROVE U(v) \in Use /\ F[U(v)] # ABSENT
  <2>1. CASE v = 0
    <3>1. <<"dir", t, 0, 0>> \in Use
      BY DEF Use
    <3> QED BY <2>1, <3>1 DEF Uses, FrameAt
  <2>2. CASE v # 0
    <3>1. v \in 1 .. N - 1
      BY <1>1, <2>2
    <3>2. <<"task", t, At(v)[1], At(v)[2]>> \in Use
      BY <1>2, <3>1 DEF Use
    <3>3. F[<<"task", t, At(v)[1], At(v)[2]>>] = user[At(v)[1]].pte[At(v)[2]]
      BY <1>2, <3>1, <3>2 DEF Uses, FrameAt, InTable
    <3> QED BY <1>2, <2>2, <3>1, <3>2, <3>3
  <2> QED BY <2>1, <2>2
<1>4. ASSUME NEW v \in 0 .. N - 1, NEW w \in 0 .. N - 1, U(v) = U(w) PROVE v = w
  <2>1. v \in Nat /\ w \in Nat /\ (v # 0 => v \in 1 .. N - 1) /\ (w # 0 => w \in 1 .. N - 1)
    BY <1>1
  <2>2. CASE v # 0 /\ w # 0
    <3>1. At(v) = At(w)
      BY <1>2, <1>4, <2>1, <2>2
    <3> QED BY <2>1, <3>1, AtOneToOne
  <2>3. CASE v = 0 \/ w = 0
    BY <1>4, <2>3
  <2> QED BY <2>2, <2>3
<1> HIDE DEF F, U
<1>5. /\ \A v \in 0 .. N - 1 : F[U(v)] \in used
      /\ \A v, w \in 0 .. N - 1 : F[U(v)] = F[U(w)] => v = w
  BY <1>3, <1>4 DEF Owned, F
<1>6. g \in [0 .. N - 1 -> 0 .. FRAMES - 1]
  <2>1. \A f \in used : f \in 0 .. FRAMES - 1
    BY <1>1
  <2> QED BY <1>5, <2>1
<1>7. \A v, w \in 0 .. N - 1 : g[v] = g[w] => v = w
  BY <1>5
<1> HIDE DEF g, N
<1>8. /\ IsFiniteSet(0 .. N - 1) /\ Cardinality(0 .. N - 1) = N
      /\ IsFiniteSet(0 .. FRAMES - 1) /\ Cardinality(0 .. FRAMES - 1) = FRAMES
  <2>1. 0 \in Int /\ N - 1 \in Int /\ FRAMES - 1 \in Int
    BY <1>1
  <2>2. IsFiniteSet(0 .. N - 1) /\ Cardinality(0 .. N - 1) = IF 0 > N - 1 THEN 0 ELSE N - 1 - 0 + 1
    BY <2>1, FS_Interval
  <2>3. IsFiniteSet(0 .. FRAMES - 1)
        /\ Cardinality(0 .. FRAMES - 1) = IF 0 > FRAMES - 1 THEN 0 ELSE FRAMES - 1 - 0 + 1
    BY <2>1, FS_Interval
  <2> QED BY <1>1, <2>2, <2>3
<1>9. \E v, w \in 0 .. N - 1 : v # w /\ g[v] = g[w]
  BY <1>1, <1>6, <1>8, FS_PigeonHole
<1> QED BY <1>7, <1>9

(* So sys_mmap finds the first of them. *)
LEMMA FirstFreeIs ==
  ASSUME NEW user, \E v \in 1 .. UPDE * PTES - 1 : At(v) \notin PagesIn(user)
  PROVE  First(user, FirstFree(user))
<1> DEFINE S == {v \in 1 .. UPDE * PTES - 1 : At(v) \notin PagesIn(user)}
           P(v) == /\ user[At(v)[1]].pte[At(v)[2]] = ABSENT
                   /\ \A w \in 1 .. v - 1 : user[At(w)[1]].pte[At(w)[2]] # ABSENT
<1>1. S # {} /\ S \in SUBSET Nat
  BY Numbers
<1>2. PICK v \in S : \A x \in S : v <= x
  BY <1>1, LeastOf
<1>3. v \in 1 .. UPDE * PTES - 1 /\ v \in 0 .. UPDE * PTES - 1
  BY Numbers
<1>4. \A y \in 1 .. UPDE * PTES - 1 : \A w \in 1 .. y - 1 :
        w \in 1 .. UPDE * PTES - 1 /\ w \in 0 .. UPDE * PTES - 1 /\ w \in Nat /\ ~(y <= w)
  BY Numbers
<1>5. P(v)
  <2>1. user[At(v)[1]].pte[At(v)[2]] = ABSENT
    BY <1>3, MappedAt
  <2>2. ASSUME NEW w \in 1 .. v - 1 PROVE user[At(w)[1]].pte[At(w)[2]] # ABSENT
    <3>1. w \in 1 .. UPDE * PTES - 1 /\ w \in 0 .. UPDE * PTES - 1 /\ ~(v <= w)
      BY <1>3, <1>4
    <3>2. At(w) \in PagesIn(user)
      BY <1>2, <3>1
    <3> QED BY <3>1, <3>2, MappedAt
  <2> QED BY <2>1, <2>2
<1>6. FirstFree(user) = CHOOSE x \in 1 .. UPDE * PTES - 1 : P(x)
  BY DEF FirstFree
<1> DEFINE f == FirstFree(user)
<1> HIDE DEF P
<1>7. f \in 1 .. UPDE * PTES - 1 /\ P(f)
  BY <1>3, <1>5, <1>6
<1>8. f \in 0 .. UPDE * PTES - 1
  BY <1>7, Numbers
<1> HIDE DEF f
<1>9. At(f) \notin PagesIn(user)
  BY <1>7, <1>8, MappedAt DEF P
<1>10. ASSUME NEW w \in 1 .. f - 1 PROVE At(w) \in PagesIn(user)
  <2>1. w \in 0 .. UPDE * PTES - 1
    BY <1>4, <1>7
  <2> QED BY <1>7, <2>1, MappedAt DEF P
<1> QED BY <1>7, <1>9, <1>10 DEF First, f

(* Whatever page a round takes, the directory keeps its shape. *)
LEMMA RoundTyped ==
  ASSUME NEW m, m.used \in SUBSET (0 .. FRAMES), m.user \in [0 .. UPDE - 1 -> Table]
  PROVE  /\ MapUserPage(m).used \in SUBSET (0 .. FRAMES)
         /\ m.used \subseteq MapUserPage(m).used
         /\ MapUserPage(m).user \in [0 .. UPDE - 1 -> Table]
<1> DEFINE i     == At(FirstFree(m.user))[1]
           j     == At(FirstFree(m.user))[2]
           new   == m.user[i].frame = ABSENT
           table == pmm_alloc(m.used)
           used1 == IF new THEN m.used \cup {table} ELSE m.used
           page  == pmm_alloc(used1)
           r     == MapUserPage(m)
<1>1. table \in 0 .. FRAMES
  BY AllocatedIn
<1>2. page \in 0 .. FRAMES
  BY AllocatedIn
<1>3. page \in Entry /\ table \in Entry
  BY <1>1, <1>2, Numbers DEF Entry
<1>4. r.used = used1 \cup {page}
  BY DEF MapUserPage
<1>5. r.user = [m.user EXCEPT ![i].frame = IF new THEN table ELSE @, ![i].pte[j] = page]
  BY DEF MapUserPage
<1> HIDE DEF i, j, page, table, r
<1>6. CASE i \in 0 .. UPDE - 1
  <2> DEFINE g   == IF new THEN table ELSE m.user[i].frame
             pte == [m.user[i].pte EXCEPT ![j] = page]
             tab == [frame |-> g, pte |-> pte]
  <2>1. m.user[i] \in Table /\ m.user[i] = [frame |-> m.user[i].frame, pte |-> m.user[i].pte]
    BY <1>6 DEF Table
  <2>2. g \in Entry /\ pte \in [Slot -> Entry]
    BY <1>3, <2>1 DEF Table
  <2>3. r.user = [m.user EXCEPT ![i] = tab]
    BY <1>5, <1>6, <2>1
  <2> HIDE DEF g, pte
  <2>4. tab \in Table
    BY <2>2 DEF Table
  <2> HIDE DEF tab
  <2>5. r.user \in [0 .. UPDE - 1 -> Table]
    BY <2>3, <2>4
  <2> QED BY <1>1, <1>2, <1>4, <2>5 DEF r
<1>7. CASE i \notin 0 .. UPDE - 1
  <2>1. r.user = m.user
    BY <1>5, <1>7
  <2> QED BY <1>1, <1>2, <1>4, <2>1 DEF r
<1> QED BY <1>6, <1>7

(* A round of sys_mmap for task t made r of m: it took the first free page and  *)
(* the frames are still sound, if memory did not run out. *)
UserMore(m, r, pd, sp, t) ==
  (/\ FRAMES \notin r.used
   /\ Owned(Uses(pd, SpaceWith(sp, t, m.user)), m.used)
   /\ HasTables(m.user))
    => /\ Owned(Uses(pd, SpaceWith(sp, t, r.user)), r.used)
       /\ HasTables(r.user)
       /\ First(m.user, FirstFree(m.user))
       /\ PagesIn(r.user) = PagesIn(m.user) \cup {At(FirstFree(m.user))}

(* One round of sys_mmap. *)
LEMMA UserRound ==
  ASSUME NEW m, m.used \in SUBSET (0 .. FRAMES), m.user \in [0 .. UPDE - 1 -> Table],
         NEW pd, NEW sp \in [Task -> SpaceType], NEW t \in Task, sp[t].cr3 # ABSENT
  PROVE  UserMore(m, MapUserPage(m), pd, sp, t)
<1> DEFINE first == FirstFree(m.user)
           i     == At(FirstFree(m.user))[1]
           j     == At(FirstFree(m.user))[2]
           new   == m.user[i].frame = ABSENT
           table == pmm_alloc(m.used)
           used1 == IF new THEN m.used \cup {table} ELSE m.used
           page  == pmm_alloc(used1)
           r     == MapUserPage(m)
           user1 == IF new THEN WithFrame(m.user, i, table) ELSE m.user
           S(user) == SpaceWith(sp, t, user)
<1>1. r.used = used1 \cup {page}
  BY DEF MapUserPage
<1>2. r.user = [m.user EXCEPT ![i].frame = IF new THEN table ELSE @, ![i].pte[j] = page]
  BY DEF MapUserPage
<1>3. r.used \in SUBSET (0 .. FRAMES) /\ r.user \in [0 .. UPDE - 1 -> Table] /\ m.used \subseteq r.used
  BY RoundTyped
<1>4. table \in 0 .. FRAMES /\ (table # FRAMES => table \notin m.used)
  BY AllocatedIn
<1>5. page \in 0 .. FRAMES /\ (page # FRAMES => page \notin used1)
  BY AllocatedIn
<1> HIDE DEF page, table, r
<1>6. SUFFICES ASSUME FRAMES \notin r.used, Owned(Uses(pd, S(m.user)), m.used), HasTables(m.user)
               PROVE  /\ Owned(Uses(pd, S(r.user)), r.used)
                      /\ HasTables(r.user)
                      /\ First(m.user, first)
                      /\ PagesIn(r.user) = PagesIn(m.user) \cup {At(first)}
  BY DEF UserMore, r
<1>7. FRAMES \notin m.used /\ page # FRAMES /\ (new => table # FRAMES)
  BY <1>1, <1>3, <1>6
<1>8. /\ S(m.user) \in [Task -> SpaceType] /\ S(m.user)[t].user = m.user
      /\ S(m.user)[t].cr3 = sp[t].cr3 /\ \A s \in Task : s # t => S(m.user)[s] = sp[s]
  BY SpaceWithIs
<1>9. First(m.user, first)
  <2>1. \E v \in 1 .. UPDE * PTES - 1 : At(v) \notin PagesIn(S(m.user)[t].user)
    BY <1>6, <1>7, <1>8, FreePageExists
  <2> QED BY <1>8, <2>1, FirstFreeIs
<1>10. first \in 0 .. UPDE * PTES - 1
  BY <1>9, Numbers DEF First
<1>11. i \in 0 .. UPDE - 1 /\ j \in Slot /\ At(first) = <<i, j>> /\ j \in 0 .. PTES /\ j # PTES
       /\ m.user[i].pte[j] = ABSENT
  <2>1. At(first) \in (0 .. UPDE - 1) \X Slot
    BY <1>10, AtBound, Numbers
  <2>2. m.user[At(first)[1]].pte[At(first)[2]] = ABSENT
    BY <1>9, <1>10, MappedAt DEF First
  <2> QED BY <2>1, <2>2, Numbers, SMTT(30) DEF Slot
<1> HIDE DEF i, j, first
<1>12. table \in Entry /\ page \in Entry /\ table # ABSENT /\ page # ABSENT
       /\ ABSENT \notin m.used /\ ABSENT \notin used1
  BY <1>4, <1>5, Numbers DEF Entry
<1>13. UPDE \in Nat /\ PTES \in 0 .. PTES
  BY Numbers
<1>14. new => /\ WithFrame(m.user, i, table) \in [0 .. UPDE - 1 -> Table]
              /\ PutAt(UPDE, m.user, WithFrame(m.user, i, table), i, PTES, table)
  BY <1>11, <1>12, <1>13, PutFrame
<1>15. user1 \in [0 .. UPDE - 1 -> Table]
  BY <1>14
<1>16. r.user = WithPte(user1, i, j, page)
  <2>1. m.user[i] \in Table
    BY <1>11
  <2>2. CASE new
    BY <1>2, <1>11, <2>1, <2>2 DEF WithFrame, WithPte, Table
  <2>3. CASE ~new
    <3>1. r.user = [m.user EXCEPT ![i] = [[m.user[i] EXCEPT !.frame = m.user[i].frame]
                                        EXCEPT !.pte = [m.user[i].pte EXCEPT ![j] = page]]]
      BY <1>2, <1>11, <2>1, <2>3 DEF Table
    <3>2. [m.user[i] EXCEPT !.frame = m.user[i].frame] = m.user[i]
      BY <2>1 DEF Table
    <3> QED BY <2>3, <3>1, <3>2 DEF WithPte
  <2> QED BY <2>2, <2>3
<1>17. \A k \in 0 .. UPDE - 1, l \in 0 .. PTES :
         InTable(user1[k], l) = IF new /\ k = i /\ l = PTES THEN table ELSE InTable(m.user[k], l)
  BY <1>14 DEF PutAt
<1> HIDE DEF user1
<1>18. PutAt(UPDE, user1, r.user, i, j, page)
  BY <1>11, <1>12, <1>13, <1>15, <1>16, PutPte, SMTT(30)
<1>19. /\ S(user1) \in [Task -> SpaceType] /\ S(user1)[t].user = user1
       /\ S(user1)[t].cr3 = sp[t].cr3 /\ \A s \in Task : s # t => S(user1)[s] = sp[s]
  BY <1>15, SpaceWithIs
<1>20. /\ S(r.user)[t].user = r.user
       /\ S(r.user)[t].cr3 = sp[t].cr3 /\ \A s \in Task : s # t => S(r.user)[s] = sp[s]
  BY <1>3, SpaceWithIs
<1> HIDE DEF S
<1>21. Owned(Uses(pd, S(user1)), used1)
  <2>1. CASE new
    <3>1. InTable(m.user[i], PTES) = ABSENT
      BY <2>1 DEF InTable
    <3>2. PutAt(UPDE, S(m.user)[t].user, S(user1)[t].user, i, PTES, table)
      BY <1>8, <1>14, <1>19, <2>1 DEF user1
    <3>3. \A s \in Task : s # t => S(user1)[s] = S(m.user)[s]
      BY <1>8, <1>19
    <3>4. Owned(Uses(pd, S(user1)), m.used \cup {table})
      BY <1>4, <1>6, <1>7, <1>8, <1>11, <1>12, <1>13, <1>19, <2>1, <3>1, <3>2, <3>3, TaskTake
    <3> QED BY <2>1, <3>4
  <2>2. CASE ~new
    BY <1>6, <2>2 DEF user1
  <2> QED BY <2>1, <2>2
<1>22. Owned(Uses(pd, S(r.user)), r.used)
  <2>1. InTable(user1[i], j) = ABSENT
    <3>1. InTable(user1[i], j) = InTable(m.user[i], j)
      BY <1>11, <1>17
    <3> QED BY <1>11, <3>1 DEF InTable
  <2>2. PutAt(UPDE, S(user1)[t].user, S(r.user)[t].user, i, j, page)
    BY <1>18, <1>19, <1>20
  <2>3. \A s \in Task : s # t => S(r.user)[s] = S(user1)[s]
    BY <1>19, <1>20
  <2>4. InTable(S(user1)[t].user[i], j) = ABSENT /\ S(r.user)[t].cr3 = S(user1)[t].cr3
    BY <1>19, <1>20, <2>1
  <2> HIDE DEF used1
  <2>5. Owned(Uses(pd, S(r.user)), used1 \cup {page})
    BY <1>5, <1>7, <1>11, <1>12, <1>21, <2>2, <2>3, <2>4, TaskTake
  <2> QED BY <1>1, <2>5
<1>23. ASSUME NEW k \in 0 .. UPDE - 1, NEW l \in Slot
       PROVE  /\ r.user[k].pte[l] = IF k = i /\ l = j THEN page ELSE m.user[k].pte[l]
              /\ m.user[k].frame # ABSENT => r.user[k].frame # ABSENT
              /\ r.user[i].frame # ABSENT
  <2>1. l \in 0 .. PTES /\ l # PTES
    BY Numbers DEF Slot
  <2>2. /\ InTable(r.user[k], l) = r.user[k].pte[l] /\ InTable(m.user[k], l) = m.user[k].pte[l]
        /\ InTable(r.user[k], PTES) = r.user[k].frame /\ InTable(m.user[k], PTES) = m.user[k].frame
        /\ InTable(r.user[i], PTES) = r.user[i].frame /\ InTable(m.user[i], PTES) = m.user[i].frame
    BY <2>1 DEF InTable
  <2>3. \A x \in 0 .. UPDE - 1, y \in 0 .. PTES :
          InTable(r.user[x], y) = IF x = i /\ y = j THEN page
                                  ELSE IF new /\ x = i /\ y = PTES THEN table ELSE InTable(m.user[x], y)
    BY <1>17, <1>18 DEF PutAt
  <2> QED BY <1>11, <1>12, <1>13, <2>1, <2>2, <2>3
<1>24. ASSUME NEW k \in 0 .. UPDE - 1, NEW l \in Slot
       PROVE  /\ <<k, l>> \in PagesIn(r.user) <=> <<k, l>> \in PagesIn(m.user) \/ <<k, l>> = At(first)
              /\ <<k, l>> \in PagesIn(r.user) => r.user[k].frame # ABSENT
  <2>1. /\ <<k, l>> \in PagesIn(r.user) <=> r.user[k].pte[l] # ABSENT
        /\ <<k, l>> \in PagesIn(m.user) <=> m.user[k].pte[l] # ABSENT
    BY DEF PagesIn
  <2>2. <<k, l>> = At(first) <=> k = i /\ l = j
    BY <1>11
  <2>3. <<k, l>> \in PagesIn(m.user) => m.user[k].frame # ABSENT
    BY <1>6 DEF HasTables
  <2> QED BY <1>12, <1>23, <2>1, <2>2, <2>3
<1>25. \A p \in (0 .. UPDE - 1) \X Slot : p = <<p[1], p[2]>> /\ p[1] \in 0 .. UPDE - 1 /\ p[2] \in Slot
  OBVIOUS
<1>26. PagesIn(r.user) = PagesIn(m.user) \cup {At(first)}
  <2>1. PagesIn(r.user) \subseteq (0 .. UPDE - 1) \X Slot
        /\ PagesIn(m.user) \cup {At(first)} \subseteq (0 .. UPDE - 1) \X Slot
    BY <1>11 DEF PagesIn
  <2> QED BY <1>24, <1>25, <2>1
<1>27. HasTables(r.user)
  <2>1. PagesIn(r.user) \subseteq (0 .. UPDE - 1) \X Slot
    BY DEF PagesIn
  <2> QED BY <1>24, <1>25, <2>1 DEF HasTables
<1> QED BY <1>9, <1>22, <1>26, <1>27

(* What i rounds of sys_mmap have made of m.  If the i pages from the first     *)
(* free one on were all free, it is those that were taken. *)
UserMapped(m, r, pd, sp, t, i) ==
  /\ r.used \in SUBSET (0 .. FRAMES) /\ m.used \subseteq r.used
  /\ r.user \in [0 .. UPDE - 1 -> Table]
  /\ (/\ FRAMES \notin r.used
      /\ Owned(Uses(pd, SpaceWith(sp, t, m.user)), m.used)
      /\ HasTables(m.user))
       => /\ Owned(Uses(pd, SpaceWith(sp, t, r.user)), r.used)
          /\ HasTables(r.user)
          /\ Pages(FirstFree(m.user), i) \cap PagesIn(m.user) = {}
               => PagesIn(r.user) = PagesIn(m.user) \cup Pages(FirstFree(m.user), i)

(* The pages from the first free one on are taken in order. *)
LEMMA NextFree ==
  ASSUME NEW old, NEW user, NEW v, NEW w, NEW i \in Nat, First(old, v), First(user, w),
         PagesIn(user) = PagesIn(old) \cup Pages(v, i), At(v + i) \notin PagesIn(old)
  PROVE  w = v + i
<1>1. v \in Nat /\ w \in Nat /\ v \in 1 .. UPDE * PTES - 1 /\ w \in 1 .. UPDE * PTES - 1
  BY Numbers DEF First
<1>2. CASE w < v
  <2>1. w \in 1 .. v - 1
    BY <1>1, <1>2
  <2> QED BY <2>1 DEF First
<1>3. CASE v <= w /\ w < v + i
  <2>1. w \in v .. v + i - 1
    BY <1>1, <1>3
  <2>2. At(w) \in Pages(v, i)
    BY <2>1 DEF Pages
  <2> QED BY <2>2 DEF First
<1>4. CASE v + i < w
  <2>1. v + i \in 1 .. w - 1
    BY <1>1, <1>4
  <2>2. At(v + i) \in PagesIn(user)
    BY <2>1 DEF First
  <2> QED BY <1>1, <2>2, PagesMore
<1> QED BY <1>1, <1>2, <1>3, <1>4

(* Any number of rounds. *)
LEMMA UserLoop ==
  ASSUME NEW m, m.used \in SUBSET (0 .. FRAMES), m.user \in [0 .. UPDE - 1 -> Table],
         NEW pd, NEW sp \in [Task -> SpaceType], NEW t \in Task, sp[t].cr3 # ABSENT,
         NEW n \in Nat, First(m.user, FirstFree(m.user))
  PROVE  UserMapped(m, UserRounds(m, n)[n], pd, sp, t, n)
<1> DEFINE f == UserRounds(m, n)
           v == FirstFree(m.user)
           Bad == {i \in 0 .. n : ~UserMapped(m, f[i], pd, sp, t, i)}
<1>1. f = [i \in 0 .. n |-> IF i = 0 THEN m ELSE MapUserPage(f[i - 1])]
  BY UserRoundsRun DEF UserRuns
<1>2. n \in 0 .. n
  OBVIOUS
<1> HIDE DEF f
<1>3. SUFFICES ASSUME Bad # {} PROVE FALSE
  BY <1>2 DEF f
<1>4. Bad \in SUBSET Nat
  OBVIOUS
<1>5. PICK b \in Bad : \A x \in Bad : b <= x
  BY <1>3, <1>4, LeastOf
<1>6. b \in 0 .. n /\ ~UserMapped(m, f[b], pd, sp, t, b)
  OBVIOUS
<1>7. v \in Nat
  BY Numbers DEF First
<1>8. CASE b = 0
  <2>1. f[b] = m
    BY <1>1, <1>6, <1>8
  <2>2. Pages(v, 0) = {}
    BY <1>7, PagesMore
  <2>3. UserMapped(m, m, pd, sp, t, 0)
    BY <2>2 DEF UserMapped
  <2> QED BY <1>6, <1>8, <2>1, <2>3
<1>9. CASE b # 0
  <2> DEFINE a == b - 1
  <2>1. a \in 0 .. n /\ ~(b <= a) /\ a \in Nat /\ b = a + 1
    BY <1>6, <1>9
  <2>2. UserMapped(m, f[a], pd, sp, t, a)
    <3>1. a \notin Bad
      BY <1>5, <2>1
    <3> QED BY <2>1, <3>1
  <2>3. f[b] = MapUserPage(f[a])
    BY <1>1, <1>6, <1>9, <2>1
  <2> HIDE DEF a
  <2>4. f[a].used \in SUBSET (0 .. FRAMES) /\ m.used \subseteq f[a].used
        /\ f[a].user \in [0 .. UPDE - 1 -> Table]
    BY <2>2 DEF UserMapped
  <2>5. /\ f[b].used \in SUBSET (0 .. FRAMES)
        /\ f[a].used \subseteq f[b].used
        /\ f[b].user \in [0 .. UPDE - 1 -> Table]
    BY <2>3, <2>4, RoundTyped
  <2>6. UserMore(f[a], f[b], pd, sp, t)
    BY <2>3, <2>4, UserRound
  <2>7. ASSUME FRAMES \notin f[b].used, Owned(Uses(pd, SpaceWith(sp, t, m.user)), m.used), HasTables(m.user)
        PROVE  /\ Owned(Uses(pd, SpaceWith(sp, t, f[b].user)), f[b].used)
               /\ HasTables(f[b].user)
               /\ Pages(v, b) \cap PagesIn(m.user) = {}
                    => PagesIn(f[b].user) = PagesIn(m.user) \cup Pages(v, b)
    <3>1. FRAMES \notin f[a].used
      BY <2>5, <2>7
    <3>2. /\ Owned(Uses(pd, SpaceWith(sp, t, f[a].user)), f[a].used)
          /\ HasTables(f[a].user)
          /\ Pages(v, a) \cap PagesIn(m.user) = {}
               => PagesIn(f[a].user) = PagesIn(m.user) \cup Pages(v, a)
      BY <2>2, <2>7, <3>1 DEF UserMapped
    <3>3. /\ Owned(Uses(pd, SpaceWith(sp, t, f[b].user)), f[b].used)
          /\ HasTables(f[b].user)
          /\ First(f[a].user, FirstFree(f[a].user))
          /\ PagesIn(f[b].user) = PagesIn(f[a].user) \cup {At(FirstFree(f[a].user))}
      BY <2>6, <2>7, <3>2 DEF UserMore
    <3>4. ASSUME Pages(v, b) \cap PagesIn(m.user) = {}
          PROVE  PagesIn(f[b].user) = PagesIn(m.user) \cup Pages(v, b)
      <4>1. Pages(v, b) = Pages(v, a) \cup {At(v + a)}
        BY <1>7, <2>1, PagesMore
      <4>2. PagesIn(f[a].user) = PagesIn(m.user) \cup Pages(v, a)
        BY <3>2, <3>4, <4>1
      <4>3. FirstFree(f[a].user) = v + a
        BY <2>1, <3>3, <3>4, <4>1, <4>2, NextFree
      <4> QED BY <3>3, <4>1, <4>2, <4>3
    <3> QED BY <3>3, <3>4
  <2>8. m.used \subseteq f[b].used
    BY <2>4, <2>5
  <2>9. UserMapped(m, f[b], pd, sp, t, b)
    BY <2>5, <2>7, <2>8 DEF UserMapped
  <2> QED BY <1>6, <2>9
<1> QED BY <1>8, <1>9

(* sys_mmap keeps the invariant. *)
LEMMA SysMmapKeeps ==
  ASSUME PagingInv, ~wild, sys_mmap
  PROVE  PagingInv'
<1>1. TypeOK /\ KernelHalfFresh /\ FramesSound /\ RunsSound /\ SpacesSound
  BY DEF PagingInv
<1>2. PICK t \in Task, n \in 0 .. RUN_BOUND :
        /\ space[t].cr3 # ABSENT
        /\ IF n = 0
           THEN bitmap' = 0 .. FRAMES /\ wild' = TRUE /\ UNCHANGED <<space, regions, torn>>
           ELSE LET m == UserRounds([used |-> bitmap, user |-> space[t].user], n)[n]
                    first == FirstFree(space[t].user)
                    taken == Pages(first, n) \cap UserPages(space[t])
                IN /\ bitmap' = m.used
                   /\ wild' = Overrun(m.used)
                   /\ space' = [space EXCEPT ![t].user = m.user]
                   /\ regions' = regions \cup {[task |-> t, first |-> first, len |-> n]}
                   /\ torn' = IF taken # {} THEN torn \cup {t} ELSE torn
        /\ UNCHANGED <<kernel_pd, kheap_pages, runs>>
  BY DEF sys_mmap
<1>3. /\ bitmap \in SUBSET (0 .. FRAMES) /\ space \in [Task -> SpaceType]
  BY <1>1 DEF TypeOK, SpaceType
<1>4. CASE n = 0
  <2>1. bitmap' = 0 .. FRAMES /\ wild' = TRUE
        /\ UNCHANGED <<kernel_pd, kheap_pages, runs, space, regions, torn>>
    BY <1>2, <1>4
  <2>2. FRAMES \in bitmap'
    BY <2>1, Numbers
  <2>3. TypeOK' /\ KernelHalfFresh'
    BY <1>1, <2>1 DEF TypeOK, KernelHalfFresh
  <2> QED BY <2>1, <2>2, <2>3 DEF PagingInv, WildExplained
<1>5. CASE n # 0
  <2> DEFINE m     == [used |-> bitmap, user |-> space[t].user]
             r     == UserRounds(m, n)[n]
             first == FirstFree(space[t].user)
             reg   == [task |-> t, first |-> first, len |-> n]
  <2>1. /\ bitmap' = r.used /\ wild' = (FRAMES \in r.used)
        /\ space' = SpaceWith(space, t, r.user)
        /\ regions' = regions \cup {reg}
        /\ torn' = IF Pages(first, n) \cap UserPages(space[t]) # {} THEN torn \cup {t} ELSE torn
        /\ UNCHANGED <<kernel_pd, kheap_pages, runs>>
    BY <1>2, <1>5 DEF Overrun, SpaceWith
  <2>2. n \in 1 .. RUN_BOUND /\ n \in Nat
    BY <1>5, Numbers
  <2>3. m.used = bitmap /\ m.user = space[t].user
    OBVIOUS
  <2> HIDE DEF m
  <2>4. space[t] \in SpaceType /\ space[t].user \in [0 .. UPDE - 1 -> Table]
    BY <1>3 DEF SpaceType
  <2>5. SpaceWith(space, t, m.user) = space
    <3>1. [space[t] EXCEPT !.user = space[t].user] = space[t]
      BY <2>4 DEF SpaceType
    <3>2. SpaceWith(space, t, m.user) = [space EXCEPT ![t] = [space[t] EXCEPT !.user = m.user]]
      BY DEF SpaceWith
    <3> QED BY <1>3, <2>3, <3>1, <3>2
  <2>6. First(space[t].user, first)
    <3>1. FRAMES \notin bitmap /\ Owned(Uses(kernel_pd, space), bitmap)
      BY <1>1 DEF FramesSound
    <3> QED BY <1>2, <1>3, <3>1, FreePageExists, FirstFreeIs
  <2>7. UserMapped(m, r, kernel_pd, space, t, n)
    BY <1>2, <1>3, <2>2, <2>3, <2>4, <2>6, UserLoop
  <2> HIDE DEF r, first
  <2>8. r.used \in SUBSET (0 .. FRAMES) /\ r.user \in [0 .. UPDE - 1 -> Table]
    BY <2>7 DEF UserMapped
  <2>9. /\ space' \in [Task -> SpaceType] /\ space'[t].user = r.user
        /\ space'[t].cr3 = space[t].cr3 /\ space'[t].kernel = space[t].kernel
        /\ \A s \in Task : s # t => space'[s] = space[s]
    BY <1>3, <2>1, <2>8, SpaceWithIs
  <2>10. reg.task = t /\ reg.first = first /\ reg.len = n
         /\ reg \in [task : Task, first : 1 .. UPDE * PTES - 1, len : 1 .. RUN_BOUND]
    BY <2>2, <2>6 DEF First
  <2> HIDE DEF reg
  <2>11. TypeOK'
    <3>1. regions' \subseteq [task : Task, first : 1 .. UPDE * PTES - 1, len : 1 .. RUN_BOUND]
      BY <1>1, <2>1, <2>10 DEF TypeOK
    <3>2. torn' \subseteq Task
      BY <1>1, <2>1 DEF TypeOK
    <3>3. wild' \in BOOLEAN /\ bitmap' \subseteq 0 .. FRAMES
      BY <2>1, <2>8
    <3> QED BY <1>1, <2>1, <2>9, <3>1, <3>2, <3>3 DEF TypeOK, SpaceType
  <2>12. KernelHalfFresh'
    <3>1. \A s \in Task : space'[s].kernel = space[s].kernel
      BY <2>9
    <3> QED BY <1>1, <2>1, <3>1 DEF KernelHalfFresh
  <2>13. WildExplained'
    BY <2>1 DEF WildExplained
  <2>14. RunsSound'
    BY <1>1, <2>1, RunsFrame
  <2>15. ASSUME ~wild' PROVE FramesSound' /\ SpacesSound'
    <3>1. FRAMES \notin r.used
      BY <2>1, <2>15
    <3>2. /\ \A s \in Task : space[s].cr3 = ABSENT => space[s].user = NoSpace.user
          /\ \A s \in Task : HasTables(space[s].user)
          /\ \A q \in regions : space[q.task].cr3 # ABSENT
          /\ \A s \in Task \ torn : space[s].cr3 # ABSENT => Tidy(s)
      BY <1>1 DEF SpacesSound
    <3>3. Owned(Uses(kernel_pd, SpaceWith(space, t, m.user)), m.used) /\ HasTables(m.user)
      BY <1>1, <2>3, <2>5, <3>2 DEF FramesSound
    <3>4. /\ Owned(Uses(kernel_pd, SpaceWith(space, t, r.user)), r.used)
          /\ HasTables(r.user)
          /\ Pages(first, n) \cap PagesIn(m.user) = {}
               => PagesIn(r.user) = PagesIn(m.user) \cup Pages(first, n)
      BY <2>3, <2>7, <3>1, <3>3 DEF UserMapped, first
    <3>5. FramesSound'
      BY <2>1, <3>1, <3>4 DEF FramesSound
    <3>6. \A s \in Task : space'[s].cr3 = ABSENT => space'[s].user = NoSpace.user
      BY <1>2, <2>9, <3>2
    <3>7. \A s \in Task : HasTables(space'[s].user)
      BY <2>9, <3>2, <3>4
    <3>8. \A q \in regions' : space'[q.task].cr3 # ABSENT
      <4>1. \A q \in regions : q.task \in Task
        BY <1>1 DEF TypeOK
      <4>2. \A s \in Task : space'[s].cr3 = space[s].cr3
        BY <2>9
      <4> QED BY <1>2, <2>1, <2>10, <3>2, <4>1, <4>2
    <3>9. ASSUME NEW s \in Task \ torn', space'[s].cr3 # ABSENT PROVE Tidy(s)'
      <4>1. s \notin torn
        BY <2>1
      <4>2. CASE s # t
        <5>1. space'[s] = space[s] /\ RegionsOf(s)' = RegionsOf(s)
          BY <2>1, <2>9, <2>10, <4>2 DEF RegionsOf
        <5> QED BY <3>2, <3>9, <4>1, <5>1, TidyFrame
      <4>3. CASE s = t
        <5>1. /\ UserPages(space[t]) = {CODE, STACK} \cup UNION {RegionPages(q) : q \in RegionsOf(t)}
              /\ \A p, q \in RegionsOf(t) : p # q => RegionPages(p) \cap RegionPages(q) = {}
              /\ \A q \in RegionsOf(t) : CODE \notin RegionPages(q) /\ STACK \notin RegionPages(q)
          BY <1>2, <3>2, <4>1, <4>3 DEF Tidy
        <5>2. UserPages(space[t]) = PagesIn(m.user) /\ UserPages(space'[t]) = PagesIn(r.user)
          BY <2>3, <2>9 DEF UserPages, PagesIn
        <5>3. Pages(first, n) \cap PagesIn(m.user) = {}
          BY <2>1, <3>9, <4>3, <5>2
        <5>4. RegionPages(reg) = Pages(first, n)
          BY <2>10 DEF RegionPages
        <5>5. RegionsOf(t)' = RegionsOf(t) \cup {reg}
          BY <2>1, <2>10 DEF RegionsOf
        <5>6. \A q \in RegionsOf(t) : RegionPages(q) \cap RegionPages(reg) = {}
          BY <5>1, <5>2, <5>3, <5>4
        <5>7. CODE \notin RegionPages(reg) /\ STACK \notin RegionPages(reg)
          BY <5>1, <5>2, <5>3, <5>4
        <5>8. UserPages(space'[t]) = {CODE, STACK} \cup UNION {RegionPages(q) : q \in RegionsOf(t)'}
          BY <3>4, <5>1, <5>2, <5>3, <5>4, <5>5
        <5>9. \A p, q \in RegionsOf(t)' : p # q => RegionPages(p) \cap RegionPages(q) = {}
          BY <5>1, <5>5, <5>6
        <5>10. \A q \in RegionsOf(t)' : CODE \notin RegionPages(q) /\ STACK \notin RegionPages(q)
          BY <5>1, <5>5, <5>7
        <5> QED BY <4>3, <5>8, <5>9, <5>10 DEF Tidy
      <4> QED BY <4>2, <4>3
    <3> QED BY <3>5, <3>6, <3>7, <3>8, <3>9 DEF SpacesSound
  <2> QED BY <2>11, <2>12, <2>13, <2>14, <2>15 DEF PagingInv
<1> QED BY <1>4, <1>5

-----------------------------------------------------------------------------
(* A table further on is at least a factor away. *)
LEMMA Beyond == \A a, w \in Nat : a >= 1 => a * w >= w
<1>1. \A a, w \in Nat : a >= 1 => 1 * w <= a * w
  BY Scale
<1> QED BY <1>1

(* Where restarting at the slot makes no difference, sys_munmap clears the      *)
(* pages it was asked for. *)
LEMMA UnmappedIs ==
  ASSUME NEW v \in Nat, NEW n \in Nat \ {0}, OneTable(v, n),
         Pages(v, n) \subseteq (0 .. UPDE - 1) \X Slot
  PROVE  Unmapped(v, n) = Pages(v, n)
<1> DEFINE q == At(v)[1]
           s == At(v)[2]
           z == v + n - 1
           e == At(z)[2]
<1>1. PTES \in Nat \ {0} /\ UPDE \in Nat /\ KPDE \in Nat /\ z \in Nat
  BY Numbers
<1>2. q \in Nat /\ s \in Slot /\ v = q * PTES + s /\ s \in Nat /\ s < PTES /\ q * PTES \in Nat
  BY <1>1, DivMod DEF At, Slot
<1>3. e \in Slot /\ z = At(z)[1] * PTES + e /\ e \in Nat /\ e < PTES
  BY <1>1, DivMod DEF At, Slot
<1>4. s = 0 \/ (At(z)[1] = q /\ n <= PTES - s)
  <2>1. CASE s = 0
    BY <2>1
  <2>2. CASE s # 0
    <3>1. At(z)[1] = q
      BY <2>2 DEF OneTable
    <3>2. q * PTES + e = q * PTES + s + n - 1
      BY <1>2, <1>3, <3>1
    <3> HIDE DEF e, s, q, z
    <3> QED BY <1>1, <1>2, <1>3, <3>1, <3>2
  <2> QED BY <2>1, <2>2
<1> HIDE DEF q, s, e
<1>5. ASSUME NEW p \in Unmapped(v, n) PROVE p \in Pages(v, n)
  <2> DEFINE i == p[1]
             j == p[2]
             a == i - q
             k == i * PTES + j
  <2>1. p \in (q .. UPDE + KPDE - 1) \X (s .. PTES - 1) /\ (i - q) * (PTES - s) + (j - s) < n
    BY DEF Unmapped, q, s
  <2>2. p = <<i, j>> /\ i \in Nat /\ j \in Slot /\ j \in Nat /\ j >= s /\ a \in Nat
    BY <1>1, <1>2, <2>1 DEF Slot
  <2>3. At(k) = p /\ k \in Nat
    BY <2>2, DivModOf
  <2>4. k \in v .. z
    <3>1. CASE s = 0
      <4>1. i * PTES = (i - q) * PTES + q * PTES
        BY <1>1, <1>2, <2>2
      <4>2. (i - q) * PTES \in Nat /\ i * PTES \in Nat
        BY <1>1, <2>2
      <4>3. (i - q) * PTES + j < n
        <5>1. PTES - s = PTES /\ j - s = j
          BY <1>1, <2>2, <3>1
        <5> QED BY <2>1, <5>1
      <4> HIDE DEF i, j, a
      <4> QED BY <1>1, <1>2, <2>2, <3>1, <4>1, <4>2, <4>3
    <3>2. CASE s # 0
      <4>1. n <= PTES - s /\ PTES - s \in Nat
        BY <1>1, <1>2, <1>4, <3>2
      <4>2. a = 0
        <5>1. SUFFICES ASSUME a >= 1 PROVE FALSE
          BY <2>2
        <5>2. a * (PTES - s) >= PTES - s
          BY <2>2, <4>1, <5>1, Beyond
        <5>3. a * (PTES - s) \in Nat /\ a * (PTES - s) + (j - s) < n /\ j - s \in Nat
          BY <1>2, <2>1, <2>2, <4>1
        <5> HIDE DEF a, j
        <5> QED BY <1>2, <4>1, <5>2, <5>3
      <4>3. i = q
        BY <1>2, <2>2, <4>2
      <4>4. j - s < n
        <5>1. (i - q) * (PTES - s) = 0
          BY <1>2, <4>1, <4>3
        <5> HIDE DEF i, j
        <5> QED BY <1>2, <2>1, <2>2, <5>1
      <4>5. k = q * PTES + j
        BY <4>3
      <4> HIDE DEF i, j, k
      <4> QED BY <1>1, <1>2, <2>2, <4>4, <4>5
    <3> QED BY <3>1, <3>2
  <2> HIDE DEF k
  <2> QED BY <2>3, <2>4 DEF Pages
<1>6. ASSUME NEW k \in v .. z PROVE At(k) \in Unmapped(v, n)
  <2> DEFINE i == At(k)[1]
             j == At(k)[2]
  <2>1. k \in Nat /\ v <= k /\ k <= z /\ At(k) \in Pages(v, n)
    BY <1>1 DEF Pages
  <2>2. i \in Nat /\ j \in Slot /\ j \in Nat /\ j < PTES /\ k = i * PTES + j /\ i * PTES \in Nat
        /\ At(k) = <<i, j>>
    BY <1>1, <2>1, DivMod DEF At, Slot
  <2>3. i <= UPDE + KPDE - 1
    <3>1. At(k) \in (0 .. UPDE - 1) \X Slot
      BY <2>1
    <3> QED BY <1>1, <3>1
  <2> HIDE DEF i, j
  <2>4. i >= q
    <3>1. SUFFICES ASSUME i + 1 <= q PROVE FALSE
      BY <1>2, <2>2
    <3>2. (i + 1) * PTES <= q * PTES /\ (i + 1) * PTES = i * PTES + PTES
      BY <1>1, <1>2, <2>2, <3>1, Scale
    <3> QED BY <1>1, <1>2, <2>1, <2>2, <3>2
  <2>5. j >= s /\ (i - q) * (PTES - s) + (j - s) < n
    <3>1. CASE s = 0
      <4>1. i * PTES = (i - q) * PTES + q * PTES /\ (i - q) * PTES \in Int
        BY <1>1, <1>2, <2>2
      <4>2. (i - q) * PTES + j < n
        BY <1>1, <1>2, <2>1, <2>2, <3>1, <4>1
      <4>3. PTES - s = PTES /\ j - s = j
        BY <1>1, <2>2, <3>1
      <4> QED BY <2>2, <3>1, <4>2, <4>3
    <3>2. CASE s # 0
      <4>1. At(z)[1] = q
        BY <1>4, <3>2
      <4>2. z = q * PTES + e
        BY <1>3, <4>1
      <4>3. i = q
        <5>1. SUFFICES ASSUME q + 1 <= i PROVE FALSE
          BY <1>2, <2>2, <2>4
        <5>2. (q + 1) * PTES <= i * PTES /\ (q + 1) * PTES = q * PTES + PTES
          BY <1>1, <1>2, <2>2, <5>1, Scale
        <5> HIDE DEF z
        <5> QED BY <1>1, <1>2, <1>3, <2>1, <2>2, <4>2, <5>2
      <4>4. j - s < n /\ j >= s
        BY <1>1, <1>2, <2>1, <2>2, <4>3
      <4>5. (i - q) * (PTES - s) = 0
        BY <1>1, <1>2, <4>3
      <4> QED BY <1>2, <2>2, <4>4, <4>5
    <3> QED BY <3>1, <3>2
  <2>6. At(k) \in (q .. UPDE + KPDE - 1) \X (s .. PTES - 1)
    BY <1>1, <1>2, <2>2, <2>3, <2>4, <2>5
  <2>7. At(k)[1] = i /\ At(k)[2] = j
    BY <2>2
  <2> QED BY <2>5, <2>6, <2>7 DEF Unmapped, q, s
<1> QED BY <1>5, <1>6 DEF Pages

(* The frames of the pages of gone. *)
FramesOf(user, gone) == {user[p[1]].pte[p[2]] : p \in gone}

(* The spaces sp2 are sp without the pages of gone of task t, whose frames are  *)
(* no longer taken. *)
GaveBack(pd, sp, sp2, t, gone, used) ==
  /\ Owned(Uses(pd, sp2), used \ FramesOf(sp[t].user, gone))
  /\ \A u \in Use : Uses(pd, sp2)[u] \in {ABSENT, Uses(pd, sp)[u]}
  /\ PagesIn(sp2[t].user) = PagesIn(sp[t].user) \ gone
  /\ \A k \in 0 .. UPDE - 1 : sp2[t].user[k].frame = sp[t].user[k].frame

(* Pages of a task are taken out and their frames freed. *)
LEMMA TaskGive ==
  ASSUME NEW pd, NEW sp \in [Task -> SpaceType], NEW t \in Task, NEW used,
         Owned(Uses(pd, sp), used), ABSENT \notin used, NEW gone \in SUBSET PagesIn(sp[t].user),
         NEW sp2, sp2 = SpaceWith(sp, t, Cleared(UPDE, sp[t].user, gone))
  PROVE  GaveBack(pd, sp, sp2, t, gone, used)
<1> DEFINE user == sp[t].user
           user2 == Cleared(UPDE, user, gone)
           F == Uses(pd, sp)
           G == Uses(pd, sp2)
           D == {<<"task", t, p[1], p[2]>> : p \in gone}
           frames == {user[p[1]].pte[p[2]] : p \in gone}
<1>1. user \in [0 .. UPDE - 1 -> Table]
  BY DEF SpaceType
<1>2. /\ user2 \in [0 .. UPDE - 1 -> Table]
      /\ \A k \in 0 .. UPDE - 1 : user2[k].frame = user[k].frame
      /\ \A k \in 0 .. UPDE - 1, l \in Slot :
           user2[k].pte[l] = IF <<k, l>> \in gone THEN ABSENT ELSE user[k].pte[l]
  BY <1>1, Numbers, ClearedTables
<1> HIDE DEF user2
<1>3. /\ sp2[t].user = user2 /\ sp2[t].cr3 = sp[t].cr3
      /\ \A s \in Task : s # t => sp2[s] = sp[s]
  BY <1>2, SpaceWithIs DEF user2
<1>4. \A p \in gone : p = <<p[1], p[2]>> /\ p[1] \in 0 .. UPDE - 1 /\ p[2] \in Slot
                      /\ p[2] \in 0 .. PTES /\ p[2] # PTES
  BY Numbers DEF PagesIn, Slot
<1>5. D \in SUBSET Use
  BY <1>4 DEF Use
<1>6. ASSUME NEW p \in gone
      PROVE  /\ F[<<"task", t, p[1], p[2]>>] = user[p[1]].pte[p[2]]
             /\ G[<<"task", t, p[1], p[2]>>] = ABSENT
  <2> DEFINE u == <<"task", t, p[1], p[2]>>
  <2>1. u \in Use /\ u[1] = "task" /\ u[2] = t /\ u[3] = p[1] /\ u[4] = p[2]
    BY <1>5
  <2>2. F[u] = InTable(user[p[1]], p[2]) /\ G[u] = InTable(user2[p[1]], p[2])
    BY <1>3, <2>1 DEF Uses, FrameAt
  <2> HIDE DEF u
  <2>3. user2[p[1]].pte[p[2]] = ABSENT
    BY <1>2, <1>4
  <2> QED BY <1>4, <2>2, <2>3 DEF InTable, u
<1>7. ASSUME NEW v \in Use, v \notin D PROVE G[v] = F[v]
  <2>1. G[v] = FrameAt(pd, sp2, v) /\ F[v] = FrameAt(pd, sp, v)
    BY DEF Uses
  <2>2. CASE v[1] = "heap"
    BY <2>1, <2>2 DEF FrameAt
  <2>3. CASE v[1] = "dir"
    <3>1. v[2] \in Task
      BY <2>3, UseCases
    <3>2. sp2[v[2]].cr3 = sp[v[2]].cr3
      BY <1>3, <3>1
    <3> QED BY <2>1, <2>3, <3>2 DEF FrameAt
  <2>4. CASE v[1] = "task" /\ v[2] # t
    <3>1. v[2] \in Task
      BY <2>4, UseCases
    <3>2. sp2[v[2]] = sp[v[2]]
      BY <1>3, <2>4, <3>1
    <3> QED BY <2>1, <2>4, <3>2 DEF FrameAt
  <2>5. CASE v[1] = "task" /\ v[2] = t
    <3>1. v[3] \in 0 .. UPDE - 1 /\ v[4] \in 0 .. PTES /\ v = <<"task", t, v[3], v[4]>>
      BY <2>5, UseCases
    <3>2. <<v[3], v[4]>> \notin gone
      <4>1. <<v[3], v[4]>>[1] = v[3] /\ <<v[3], v[4]>>[2] = v[4]
        OBVIOUS
      <4> QED BY <1>7, <3>1, <4>1
    <3>3. v[4] # PTES => v[4] \in Slot
      BY <3>1, Numbers DEF Slot
    <3>4. InTable(user2[v[3]], v[4]) = InTable(user[v[3]], v[4])
      BY <1>2, <3>1, <3>2, <3>3 DEF InTable
    <3> QED BY <1>3, <2>1, <2>5, <3>4 DEF FrameAt
  <2> QED BY <2>2, <2>3, <2>4, <2>5, UseCases
<1> HIDE DEF F, G
<1>8. /\ \A v \in D : G[v] = ABSENT
      /\ \A v \in D : F[v] # ABSENT => F[v] \in frames
      /\ \A f \in used : f \in frames => \E v \in D : F[v] = f
  BY <1>6
<1>9. \A u \in Use : G[u] \in {ABSENT, F[u]}
  BY <1>7, <1>8
<1> HIDE DEF D, frames
<1>10. Owned(G, used \ frames)
  BY <1>5, <1>7, <1>8, Give DEF F
<1>11. PagesIn(user2) = PagesIn(user) \ gone
  <2>1. ASSUME NEW p \in (0 .. UPDE - 1) \X Slot
        PROVE  p \in PagesIn(user2) <=> p \in PagesIn(user) /\ p \notin gone
    <3>1. p = <<p[1], p[2]>> /\ p[1] \in 0 .. UPDE - 1 /\ p[2] \in Slot
      OBVIOUS
    <3>2. user2[p[1]].pte[p[2]] = IF p \in gone THEN ABSENT ELSE user[p[1]].pte[p[2]]
      BY <1>2, <3>1
    <3> QED BY <3>2 DEF PagesIn
  <2>2. PagesIn(user2) \subseteq (0 .. UPDE - 1) \X Slot
        /\ PagesIn(user) \subseteq (0 .. UPDE - 1) \X Slot
    BY DEF PagesIn
  <2> QED BY <2>1, <2>2
<1> QED BY <1>2, <1>3, <1>9, <1>10, <1>11 DEF G, F, frames, FramesOf, GaveBack

(* Freeing a frame that is in no use loses none. *)
LEMMA FreeUnused ==
  ASSUME NEW G, NEW used, Owned(G, used), NEW f, \A u \in Use : G[u] # f
  PROVE  Owned(G, used \ {f})
  BY DEF Owned

(* sys_munmap keeps the invariant. *)
LEMMA SysMunmapKeeps ==
  ASSUME PagingInv, ~wild, sys_munmap
  PROVE  PagingInv'
<1>1. TypeOK /\ KernelHalfFresh /\ FramesSound /\ RunsSound /\ SpacesSound
  BY DEF PagingInv
<1>2. PICK t \in Task, v \in 0 .. (UPDE + KPDE) * PTES - 1, n \in 1 .. RUN_BOUND :
        LET d == space[t]
            asked == [task |-> t, first |-> v, len |-> n]
            hit == Unmapped(v, n)
            gone == hit \cap UserPages(d)
            frames == {d.user[p[1]].pte[p[2]] : p \in gone}
        IN /\ d.cr3 # ABSENT
           /\ IF \E p \in hit : p[1] >= UPDE \/ d.user[p[1]].frame = ABSENT
              THEN wild' = TRUE /\ UNCHANGED <<bitmap, space>>
              ELSE /\ bitmap' = pmm_free(bitmap, frames \cup (IF gone = hit THEN {} ELSE {0}))
                   /\ space' = [space EXCEPT ![t].user =
                        [i \in 0 .. UPDE - 1 |-> [d.user[i] EXCEPT !.pte =
                           [j \in Slot |-> IF <<i, j>> \in gone THEN ABSENT ELSE @[j]]]]]
                   /\ wild' = (gone # hit /\ 0 \in FramesInUse)
           /\ regions' = regions \ {asked}
           /\ torn' = IF asked \in regions /\ OneTable(v, n) THEN torn ELSE torn \cup {t}
           /\ UNCHANGED <<kernel_pd, kheap_pages, runs>>
  BY DEF sys_munmap
<1> DEFINE r == [task |-> t, first |-> v, len |-> n]
           user == space[t].user
           hit == Unmapped(v, n)
           gone == hit \cap PagesIn(user)
           frames == {user[p[1]].pte[p[2]] : p \in gone}
           lost == \E p \in hit : p[1] >= UPDE \/ user[p[1]].frame = ABSENT
<1>3. /\ lost => wild' = TRUE /\ UNCHANGED <<bitmap, space>>
      /\ ~lost => /\ gone = hit => bitmap' = bitmap \ frames
                  /\ gone # hit => bitmap' = (bitmap \ frames) \ {0}
                  /\ space' = SpaceWith(space, t, Cleared(UPDE, user, gone))
                  /\ wild' = (gone # hit /\ 0 \in FramesInUse)
      /\ regions' = regions \ {r}
      /\ torn' = IF r \in regions /\ OneTable(v, n) THEN torn ELSE torn \cup {t}
      /\ UNCHANGED <<kernel_pd, kheap_pages, runs>>
      /\ space[t].cr3 # ABSENT
  <2>1. UserPages(space[t]) = PagesIn(user)
    BY DEF UserPages, PagesIn
  <2>2. lost => wild' = TRUE /\ UNCHANGED <<bitmap, space>>
    BY <1>2, Zenon
  <2>3. ASSUME ~lost
        PROVE  /\ bitmap' = bitmap \ (frames \cup (IF gone = hit THEN {} ELSE {0}))
               /\ space' = SpaceWith(space, t, Cleared(UPDE, user, gone))
               /\ wild' = (gone # hit /\ 0 \in FramesInUse)
    BY <1>2, <2>1, <2>3, ZenonT(60) DEF pmm_free, SpaceWith, Cleared
  <2>4. /\ regions' = regions \ {r}
        /\ torn' = IF r \in regions /\ OneTable(v, n) THEN torn ELSE torn \cup {t}
        /\ UNCHANGED <<kernel_pd, kheap_pages, runs>>
        /\ space[t].cr3 # ABSENT
    BY <1>2
  <2>5. ~lost => /\ gone = hit => bitmap' = bitmap \ frames
                 /\ gone # hit => bitmap' = (bitmap \ frames) \ {0}
    BY <2>3
  <2> HIDE DEF lost, hit, gone, frames
  <2> QED BY <2>2, <2>3, <2>4, <2>5
<1>4. /\ bitmap \in SUBSET (0 .. FRAMES) /\ space \in [Task -> SpaceType] /\ t \in Task
      /\ v \in Nat /\ n \in Nat \ {0} /\ r.task = t /\ r.first = v /\ r.len = n
  <2>1. bitmap \in SUBSET (0 .. FRAMES) /\ space \in [Task -> SpaceType]
    BY <1>1 DEF TypeOK, SpaceType
  <2> QED BY <2>1, Numbers
<1>5. /\ \A s \in Task : space[s].cr3 = ABSENT => space[s].user = NoSpace.user
      /\ \A s \in Task : HasTables(space[s].user)
      /\ \A q \in regions : space[q.task].cr3 # ABSENT
      /\ \A s \in Task \ torn : space[s].cr3 # ABSENT => Tidy(s)
  BY <1>1 DEF SpacesSound
<1>6. user \in [0 .. UPDE - 1 -> Table]
  BY <1>4 DEF SpaceType
<1>7. UserPages(space[t]) = PagesIn(user) /\ PagesIn(user) \subseteq (0 .. UPDE - 1) \X Slot
  BY DEF UserPages, PagesIn
(* A tidy task gets exactly its region taken back. *)
<1>8. ASSUME t \notin torn, r \in regions, OneTable(v, n)
      PROVE  hit = RegionPages(r) /\ gone = hit /\ ~lost
  <2>1. Tidy(t) /\ r \in RegionsOf(t)
    BY <1>3, <1>4, <1>5, <1>8 DEF RegionsOf
  <2>2. RegionPages(r) \subseteq PagesIn(user)
    <3>1. UserPages(space[t]) = {CODE, STACK} \cup UNION {RegionPages(q) : q \in RegionsOf(t)}
      BY <2>1 DEF Tidy
    <3> QED BY <1>7, <2>1, <3>1
  <2>3. hit = RegionPages(r)
    <3>1. Pages(v, n) \subseteq (0 .. UPDE - 1) \X Slot
      BY <1>4, <1>7, <2>2 DEF RegionPages
    <3> QED BY <1>4, <1>8, <3>1, UnmappedIs DEF RegionPages
  <2> HIDE DEF hit
  <2>4. gone = hit
    BY <2>2, <2>3
  <2>5. \A p \in hit : p[1] \in 0 .. UPDE - 1 /\ user[p[1]].frame # ABSENT
    BY <1>4, <1>5, <1>7, <2>2, <2>3 DEF HasTables
  <2>6. \A x \in 0 .. UPDE - 1 : ~(x >= UPDE)
    BY Numbers
  <2> QED BY <2>3, <2>4, <2>5, <2>6
<1> HIDE DEF hit, lost, r
<1>9. torn' # {} \/ (t \notin torn /\ r \in regions /\ OneTable(v, n))
  BY <1>3
<1>10. torn \subseteq torn' /\ torn' \subseteq Task
  BY <1>1, <1>3, <1>4 DEF TypeOK
<1>11. CASE lost
  <2>1. wild' = TRUE /\ torn' # {}
    BY <1>3, <1>8, <1>9, <1>11
  <2>2. TypeOK'
    <3>1. regions' \subseteq regions /\ UNCHANGED <<bitmap, space, kernel_pd, kheap_pages, runs>>
      BY <1>3, <1>11
    <3> QED BY <1>1, <1>10, <2>1, <3>1 DEF TypeOK
  <2>3. KernelHalfFresh'
    BY <1>1, <1>3, <1>11 DEF KernelHalfFresh
  <2> QED BY <2>1, <2>2, <2>3 DEF PagingInv, WildExplained
<1>12. CASE ~lost
  <2>1. /\ gone = hit => bitmap' = bitmap \ frames
        /\ gone # hit => bitmap' = (bitmap \ frames) \ {0}
        /\ space' = SpaceWith(space, t, Cleared(UPDE, user, gone))
        /\ wild' = (gone # hit /\ 0 \in FramesInUse)
    BY <1>3, <1>12
  <2>2. Cleared(UPDE, user, gone) \in [0 .. UPDE - 1 -> Table]
    BY <1>6, Numbers, ClearedTables
  <2>3. /\ space' \in [Task -> SpaceType]
        /\ space'[t].cr3 = space[t].cr3 /\ space'[t].kernel = space[t].kernel
        /\ \A s \in Task : s # t => space'[s] = space[s]
    <3> DEFINE user2 == Cleared(UPDE, user, gone)
    <3>1. space' = SpaceWith(space, t, user2) /\ user2 \in [0 .. UPDE - 1 -> Table]
      BY <2>1, <2>2
    <3> HIDE DEF user2
    <3> QED BY <1>4, <3>1, SpaceWithIs
  <2>4. TypeOK'
    <3>1. bitmap' \subseteq 0 .. FRAMES /\ regions' \subseteq regions /\ wild' \in BOOLEAN
      BY <1>3, <1>4, <2>1
    <3>2. UNCHANGED <<kernel_pd, kheap_pages, runs>>
      BY <1>3
    <3> QED BY <1>1, <1>10, <2>3, <3>1, <3>2 DEF TypeOK, SpaceType
  <2>5. KernelHalfFresh'
    <3>1. \A s \in Task : space'[s].kernel = space[s].kernel
      BY <2>3
    <3> QED BY <1>1, <1>3, <3>1 DEF KernelHalfFresh
  <2>6. WildExplained'
    BY <1>8, <1>9, <2>1 DEF WildExplained
  <2>7. RunsSound'
    BY <1>1, <1>3, RunsFrame
  <2>8. Owned(Uses(kernel_pd, space), bitmap) /\ FRAMES \notin bitmap /\ ABSENT \notin bitmap
    BY <1>1, <1>4, Numbers DEF FramesSound
  <2>9. gone \in SUBSET PagesIn(user)
    OBVIOUS
  <2> HIDE DEF gone
  <2>10. /\ Owned(Uses(kernel_pd, space'), bitmap \ frames)
         /\ \A u \in Use : Uses(kernel_pd, space')[u] \in {ABSENT, Uses(kernel_pd, space)[u]}
         /\ PagesIn(space'[t].user) = PagesIn(user) \ gone
         /\ \A k \in 0 .. UPDE - 1 : space'[t].user[k].frame = user[k].frame
    <3>1. space' = SpaceWith(space, t, Cleared(UPDE, space[t].user, gone))
      BY <2>1
    <3>2. gone \in SUBSET PagesIn(space[t].user)
      BY <2>9
    <3>3. frames = FramesOf(space[t].user, gone)
      BY DEF FramesOf
    <3> HIDE DEF frames
    <3>4. GaveBack(kernel_pd, space, space', t, gone, bitmap)
      BY <1>4, <2>8, <3>1, <3>2, TaskGive
    <3> QED BY <3>3, <3>4 DEF GaveBack
  <2>11. ASSUME ~wild' PROVE FramesSound'
    <3>1. CASE gone = hit
      BY <1>3, <2>1, <2>8, <2>10, <3>1 DEF FramesSound
    <3>2. CASE gone # hit
      <4>1. 0 \notin FramesInUse
        BY <2>1, <2>11, <3>2
      <4>2. \A u \in Use : Uses(kernel_pd, space)[u] = FrameAt(kernel_pd, space, u)
        BY DEF Uses
      <4>3. \A u \in Use : FrameAt(kernel_pd, space, u) # ABSENT => FrameAt(kernel_pd, space, u) # 0
        BY <4>1 DEF FramesInUse, InUse
      <4>4. ABSENT # 0
        BY DEF ABSENT
      <4>5. \A u \in Use : Uses(kernel_pd, space')[u] # 0
        BY <2>10, <4>2, <4>3, <4>4
      <4>6. Owned(Uses(kernel_pd, space'), (bitmap \ frames) \ {0})
        BY <2>10, <4>5, FreeUnused
      <4> QED BY <1>3, <2>1, <2>8, <3>2, <4>6 DEF FramesSound
    <3> QED BY <3>1, <3>2
  <2>12. SpacesSound'
    <3>1. \A s \in Task : space'[s].cr3 = ABSENT => space'[s].user = NoSpace.user
      <4>1. space[t].cr3 # ABSENT
        BY <1>3
      <4> QED BY <1>5, <2>3, <4>1
    <3>2. \A s \in Task : HasTables(space'[s].user)
      <4>1. HasTables(space'[t].user)
        <5>1. \A p \in PagesIn(user) : user[p[1]].frame # ABSENT
          BY <1>5 DEF HasTables
        <5>2. SUFFICES ASSUME NEW p \in PagesIn(space'[t].user)
                       PROVE  space'[t].user[p[1]].frame # ABSENT
          BY DEF HasTables
        <5>3. p \in PagesIn(user)
          BY <2>10
        <5>4. p[1] \in 0 .. UPDE - 1
          BY <1>7, <5>3
        <5> QED BY <2>10, <5>1, <5>3, <5>4
      <4> QED BY <1>5, <2>3, <4>1
    <3>3. \A q \in regions' : space'[q.task].cr3 # ABSENT
      <4>1. \A q \in regions : q.task \in Task
        BY <1>1 DEF TypeOK
      <4>2. \A s \in Task : space'[s].cr3 = space[s].cr3
        BY <2>3
      <4> QED BY <1>3, <1>5, <4>1, <4>2
    <3>4. ASSUME NEW s \in Task \ torn', space'[s].cr3 # ABSENT PROVE Tidy(s)'
      <4>1. s \notin torn
        BY <1>10
      <4>2. CASE s # t
        <5>1. space'[s] = space[s] /\ RegionsOf(s)' = RegionsOf(s)
          BY <1>3, <1>4, <2>3, <4>2 DEF RegionsOf
        <5> QED BY <1>5, <3>4, <4>1, <5>1, TidyFrame
      <4>3. CASE s = t
        <5>1. t \notin torn /\ r \in regions /\ OneTable(v, n)
          BY <1>3, <3>4, <4>3
        <5>2. gone = RegionPages(r)
          BY <1>8, <5>1
        <5>3. /\ UserPages(space[t]) = {CODE, STACK} \cup UNION {RegionPages(q) : q \in RegionsOf(t)}
              /\ \A p, q \in RegionsOf(t) : p # q => RegionPages(p) \cap RegionPages(q) = {}
              /\ \A q \in RegionsOf(t) : CODE \notin RegionPages(q) /\ STACK \notin RegionPages(q)
          BY <1>3, <1>4, <1>5, <5>1 DEF Tidy
        <5>4. RegionsOf(t)' = RegionsOf(t) \ {r} /\ r \in RegionsOf(t)
          BY <1>3, <1>4, <5>1 DEF RegionsOf
        <5>5. UserPages(space'[t]) = UserPages(space[t]) \ RegionPages(r)
          BY <1>7, <2>10, <5>2 DEF UserPages, PagesIn
        <5>6. UserPages(space'[t]) = {CODE, STACK} \cup UNION {RegionPages(q) : q \in RegionsOf(t)'}
          BY <5>3, <5>4, <5>5
        <5>7. /\ \A p, q \in RegionsOf(t)' : p # q => RegionPages(p) \cap RegionPages(q) = {}
              /\ \A q \in RegionsOf(t)' : CODE \notin RegionPages(q) /\ STACK \notin RegionPages(q)
          BY <5>3, <5>4
        <5> QED BY <4>3, <5>6, <5>7 DEF Tidy
      <4> QED BY <4>2, <4>3
    <3> QED BY <3>1, <3>2, <3>3, <3>4 DEF SpacesSound
  <2> QED BY <2>4, <2>5, <2>6, <2>7, <2>11, <2>12 DEF PagingInv
<1> QED BY <1>11, <1>12

-----------------------------------------------------------------------------
(* The invariant holds when start_memory is through. *)
LEMMA PagingStarts == Init => PagingInv
<1> SUFFICES ASSUME Init PROVE PagingInv
  OBVIOUS
<1>1. /\ bitmap = RESERVED /\ kernel_pd = [i \in 0 .. KPDE - 1 |-> NoTable] /\ kheap_pages = {}
      /\ runs = {} /\ space = [t \in Task |-> NoSpace] /\ regions = {} /\ torn = {} /\ wild = FALSE
  BY DEF Init
<1>2. ABSENT \in Entry /\ RESERVED \subseteq 0 .. FRAMES /\ FRAMES \notin RESERVED
  BY PagingAssumption DEF ABSENT, Entry, Frame
<1>3. /\ NoSpace.cr3 = ABSENT /\ NoSpace.kernel = [i \in 0 .. KPDE - 1 |-> ABSENT]
      /\ NoSpace = [cr3 |-> NoSpace.cr3, user |-> NoSpace.user, kernel |-> NoSpace.kernel]
  BY DEF NoSpace
<1>4. NoSpace \in SpaceType
  BY <1>2, <1>3, EmptyHalf DEF SpaceType
<1>5. TypeOK
  <2>1. space \in [Task -> SpaceType] /\ kernel_pd \in [0 .. KPDE - 1 -> Table]
    BY <1>1, <1>4, EmptyHalf
  <2> QED BY <1>1, <1>2, <2>1 DEF TypeOK, SpaceType
<1>6. KernelHalfFresh
  <2>1. \A t \in Task : space[t] = NoSpace
    BY <1>1
  <2> QED BY <1>3, <2>1 DEF KernelHalfFresh
<1>7. ~wild /\ WildExplained
  BY <1>1 DEF WildExplained
<1>8. ASSUME NEW u \in Use PROVE FrameAt(kernel_pd, space, u) = ABSENT
  <2>1. \A t \in Task : space[t] = NoSpace
    BY <1>1
  <2>2. CASE u[1] = "heap"
    <3>1. u[3] \in 0 .. KPDE - 1 /\ u[4] \in 0 .. PTES
      BY <2>2, UseCases
    <3>2. kernel_pd[u[3]] = NoTable /\ (u[4] # PTES => u[4] \in Slot)
      BY <1>1, <3>1, Numbers DEF Slot
    <3>3. InTable(NoTable, u[4]) = ABSENT
      BY <3>2 DEF InTable, NoTable
    <3> QED BY <2>2, <3>2, <3>3 DEF FrameAt
  <2>3. CASE u[1] = "task"
    <3>1. u[2] \in Task /\ u[3] \in 0 .. UPDE - 1 /\ u[4] \in 0 .. PTES
      BY <2>3, UseCases
    <3> QED BY <2>1, <2>3, <3>1, EmptyHalf DEF FrameAt
  <2>4. CASE u[1] = "dir"
    <3>1. u[2] \in Task
      BY <2>4, UseCases
    <3> QED BY <1>3, <2>1, <2>4, <3>1 DEF FrameAt
  <2> QED BY <2>2, <2>3, <2>4, UseCases
<1>9. FramesSound
  <2>1. \A u \in Use : Uses(kernel_pd, space)[u] = ABSENT
    BY <1>8 DEF Uses
  <2> HIDE DEF Init
  <2>2. Owned(Uses(kernel_pd, space), bitmap)
    BY <1>1, <2>1 DEF Owned
  <2> QED BY <1>1, <1>2, <2>2 DEF FramesSound
<1>10. RunsSound
  <2>1. HeapPagesIn(kernel_pd) = {}
    BY <1>1 DEF HeapPagesIn, NoTable
  <2> QED BY <1>1, <2>1 DEF RunsSound
<1>11. SpacesSound
  <2>1. \A t \in Task : space[t] = NoSpace
    BY <1>1
  <2>2. HasTables(NoSpace.user)
    BY EmptyHalf DEF HasTables, PagesIn, NoTable
  <2> QED BY <1>1, <1>3, <2>1, <2>2 DEF SpacesSound
<1> QED BY <1>5, <1>6, <1>7, <1>9, <1>10, <1>11 DEF PagingInv

(* Each operation keeps it. *)
LEMMA PagingStep == PagingInv /\ [Next]_vars => PagingInv'
<1> SUFFICES ASSUME PagingInv, [Next]_vars PROVE PagingInv'
  OBVIOUS
<1>1. CASE Next
  BY <1>1, MmapKeeps, UnmmapKeeps, MmapRing3Keeps, UnmmapRing3Keeps, SysMmapKeeps, SysMunmapKeeps DEF Next
<1>2. CASE UNCHANGED vars
  <2>1. UNCHANGED <<bitmap, kernel_pd, kheap_pages, runs, space, regions, torn, wild>>
    BY <1>2 DEF vars
  <2>2. TypeOK' /\ KernelHalfFresh'
    BY <2>1 DEF PagingInv, TypeOK, KernelHalfFresh
  <2>3. WildExplained'
    BY <2>1 DEF PagingInv, WildExplained, FreeRuns
  <2>4. ~wild => FramesSound' /\ RunsSound' /\ SpacesSound'
    BY <2>1, RunsFrame, SpacesFrame DEF PagingInv, FramesSound
  <2> QED BY <2>1, <2>2, <2>3, <2>4 DEF PagingInv
<1> QED BY <1>1, <1>2

(* The frames and the page tables that hold them satisfy the invariant always. *)
LEMMA PagingAlways == Spec => []PagingInv
  BY PagingStarts, PagingStep, PTL DEF Spec

(* The bitmap, the directories and the history variables have their types: no   *)
(* entry ever holds more than FRAMES (memory.c, syscall/mmap.c, munmap.c). *)
THEOREM PagingTypes == Spec => []TypeOK
<1>1. PagingInv => TypeOK
  BY DEF PagingInv
<1> QED BY <1>1, PagingAlways, PTL

(* pmm_alloc never gives away a frame that a directory leads to, whatever       *)
(* sequence of mmap, unmmap, mmap_ring3, unmmap_ring3, sys_mmap and sys_munmap   *)
(* came before: FramesUsedOnce holds for every number of frames and tasks. *)
THEOREM EachFrameOnce == Spec => []FramesUsedOnce
<1>1. PagingInv => FramesUsedOnce
  <2> SUFFICES ASSUME PagingInv, ~wild
               PROVE  /\ \A u, v \in InUse :
                           FrameAt(kernel_pd, space, u) = FrameAt(kernel_pd, space, v) => u = v
                      /\ FramesInUse \subseteq bitmap
    BY DEF FramesUsedOnce
  <2>1. Owned(Uses(kernel_pd, space), bitmap)
    BY DEF PagingInv, FramesSound
  <2>2. \A u \in Use : Uses(kernel_pd, space)[u] = FrameAt(kernel_pd, space, u)
    BY DEF Uses
  <2> QED BY <2>1, <2>2 DEF Owned, InUse, FramesInUse
<1> QED BY <1>1, PagingAlways, PTL

(* No frame that is taken is lost: each is one of the kernel's own or in use    *)
(* somewhere, so that unmmap, unmmap_ring3 and sys_munmap give back all they     *)
(* took out. *)
THEOREM NoFrameLeaks == Spec => []NothingLeaks
<1>1. PagingInv => NothingLeaks
  <2> SUFFICES ASSUME PagingInv, ~wild, NEW f \in bitmap PROVE f \in RESERVED \cup FramesInUse
    BY DEF NothingLeaks
  <2>1. Owned(Uses(kernel_pd, space), bitmap) /\ ABSENT \notin bitmap
    BY Numbers DEF PagingInv, FramesSound, TypeOK
  <2>2. \A u \in Use : Uses(kernel_pd, space)[u] = FrameAt(kernel_pd, space, u)
    BY DEF Uses
  <2> QED BY <2>1, <2>2 DEF Owned, InUse, FramesInUse
<1> QED BY <1>1, PagingAlways, PTL

(* The kernel's half of a task's directory, copied when the task is created,    *)
(* never leads to a table the kernel no longer has. *)
THEOREM CopiesStayFresh == Spec => []KernelHalfFresh
<1>1. PagingInv => KernelHalfFresh
  BY DEF PagingInv
<1> QED BY <1>1, PagingAlways, PTL

(* The kernel heap's runs are disjoint and exactly their pages are mapped. *)
THEOREM HeapIsSound == Spec => []HeapSound
<1>1. PagingInv => HeapSound
  BY DEF PagingInv, HeapSound, RunsSound, HeapPagesIn
<1> QED BY <1>1, PagingAlways, PTL

(* A task whose regions were never given in pieces, and that called munmap only *)
(* for whole regions which lie in one table, has exactly its code, its stack and *)
(* its regions mapped, and no two regions share a page (syscall/mmap.c,          *)
(* munmap.c): RegionsSound for every number of tasks, frames and pages. *)
THEOREM RegionsAreSound == Spec => []RegionsSound
<1>1. PagingInv => RegionsSound
  <2> SUFFICES ASSUME PagingInv, ~wild, NEW t \in Task \ torn, space[t].cr3 # ABSENT
               PROVE  /\ UserPages(space[t])
                           = {CODE, STACK} \cup UNION {Pages(r.first, r.len) : r \in {q \in regions : q.task = t}}
                      /\ \A r, s \in {q \in regions : q.task = t} :
                           r # s => Pages(r.first, r.len) \cap Pages(s.first, s.len) = {}
    BY DEF RegionsSound
  <2>1. Tidy(t)
    BY DEF PagingInv, SpacesSound
  <2> QED BY <2>1 DEF Tidy, RegionsOf, RegionPages
<1> QED BY <1>1, PagingAlways, PTL

(* Memory that is not the kernel's is written only when all frames are taken,   *)
(* the heap has no addresses for a run, or a task was given a region in pieces   *)
(* or called munmap for other pages than exactly one region in one table. *)
THEOREM WildIsExplained == Spec => []WildExplained
<1>1. PagingInv => WildExplained
  BY DEF PagingInv
<1> QED BY <1>1, PagingAlways, PTL
====
