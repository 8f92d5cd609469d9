----------------------------- MODULE HeapProofs -----------------------------
(***************************************************************************)
(* Proofs about the two allocators: SlabCache, for any set of pages, any   *)
(* number of objects in a slab and any number of entries of free_list an   *)
(* object covers; and UserHeap, for any areas, request sizes, page size    *)
(* and header sizes.                                                       *)
(***************************************************************************)
EXTENDS SlabCache, UserHeap, FiniteSetTheorems, WellFoundedInduction, TLAPS

Linked == [nx : [Page -> Page \cup {NULL}], pv : [Page -> Page \cup {NULL}]]

(* The list of links l that starts at h holds exactly the slabs S: next stays  *)
(* on it, prev mirrors next, and no smaller set has h and is closed under next. *)
Chain(l, h, S) ==
  /\ S \subseteq Page
  /\ IF h = NULL THEN S = {} ELSE h \in S /\ l.pv[h] = NULL
  /\ \A s \in S : l.nx[s] \in S \cup {NULL} /\ l.pv[s] \in S \cup {NULL}
  /\ \A s, t \in S : l.nx[s] = t <=> l.pv[t] = s
  /\ \A T \in SUBSET S : (h \in T /\ \A u \in T : l.nx[u] # NULL => l.nx[u] \in T) => T = S

HasFree == {s \in mapped : free_count[s] > 0}
NoFree == {s \in mapped : free_count[s] = 0}

Chains == Chain(Links, partial, HasFree) /\ Chain(Links, full, NoFree)

(* The indices of the objects of a slab that callers hold. *)
Held(s) == {i \in Index : <<s, i>> \in used}

(* Every object is held or counted as free, and no slab is empty. *)
Counted ==
  /\ \A o \in used : o[1] \in mapped
  /\ \A s \in mapped : free_count[s] + Cardinality(Held(s)) = TOTAL /\ free_count[s] < TOTAL

(* A slab whose free_list a caller can write over is one of low. *)
LowKnown == \A o \in used : o[2] \in LowIndex => o[1] \in low

ObjectInv == TypeOK /\ Counted /\ LowKnown /\ OfferedOnce /\ HeldOrOffered

NoneEmpty == \A s \in mapped : \E o \in used : o[1] = s

(* What holds of the objects holds until kmalloc returns what a caller wrote;  *)
(* what holds of the lists, and that no slab is empty, holds then, too. *)
SlabInv ==
  /\ TypeOK
  /\ TOTAL > 1 => Chains
  /\ NoneEmpty
  /\ ~wild => ObjectInv

(* Objects that are counted leave no slab empty. *)
LEMMA CountedNotEmpty == ASSUME ObjectInv PROVE NoneEmpty
<1> SUFFICES ASSUME NEW s \in mapped PROVE \E o \in used : o[1] = s
  BY DEF NoneEmpty
<1>1. TypeOK /\ Counted
  BY DEF ObjectInv
<1>2. free_count[s] + Cardinality(Held(s)) = TOTAL /\ free_count[s] < TOTAL /\ free_count[s] \in 0 .. TOTAL
  BY <1>1 DEF Counted, TypeOK
<1>3. Held(s) # {}
  <2> SUFFICES ASSUME Held(s) = {} PROVE FALSE
    OBVIOUS
  <2>1. Cardinality(Held(s)) = 0
    BY FS_EmptySet
  <2> QED
    BY <1>2, <2>1, SlabAssumption
<1>4. PICK i \in Index : <<s, i>> \in used
  BY <1>3 DEF Held
<1> QED
  BY <1>4
-----------------------------------------------------------------------------
(* The guarded assignments of memory.c: if (s) s->next = v, if (s) s->prev = v. *)
ToNext(l, s, v) == SetNext(l, s # NULL, s, v)
ToPrev(l, s, v) == SetPrev(l, s # NULL, s, v)

LEMMA SetNextIs ==
  ASSUME NEW l \in Linked, NEW s \in Page \cup {NULL}, NEW v \in Page \cup {NULL}
  PROVE /\ ToNext(l, s, v) \in Linked
        /\ ToNext(l, s, v).pv = l.pv
        /\ s # NULL => ToNext(l, s, v).nx[s] = v
        /\ \A x \in Page : x # s => ToNext(l, s, v).nx[x] = l.nx[x]
<1>1. CASE s # NULL
  BY <1>1 DEF ToNext, SetNext, Linked
<1>2. CASE s = NULL
  BY <1>2, SlabAssumption DEF ToNext, SetNext, Linked
<1> QED
  BY <1>1, <1>2

LEMMA SetPrevIs ==
  ASSUME NEW l \in Linked, NEW s \in Page \cup {NULL}, NEW v \in Page \cup {NULL}
  PROVE /\ ToPrev(l, s, v) \in Linked
        /\ ToPrev(l, s, v).nx = l.nx
        /\ s # NULL => ToPrev(l, s, v).pv[s] = v
        /\ \A x \in Page : x # s => ToPrev(l, s, v).pv[x] = l.pv[x]
<1>1. CASE s # NULL
  BY <1>1 DEF ToPrev, SetPrev, Linked
<1>2. CASE s = NULL
  BY <1>2, SlabAssumption DEF ToPrev, SetPrev, Linked
<1> QED
  BY <1>1, <1>2

(* push puts s before the old head. *)
LEMMA PushIs ==
  ASSUME NEW l \in Linked, NEW s \in Page, NEW h \in Page \cup {NULL}, h # s
  PROVE /\ push(l, s, h) \in Linked
        /\ push(l, s, h).nx[s] = h /\ push(l, s, h).pv[s] = NULL
        /\ \A x \in Page \ {s} : push(l, s, h).nx[x] = l.nx[x]
        /\ h # NULL => push(l, s, h).pv[h] = s
        /\ \A x \in Page \ {s} : x # h => push(l, s, h).pv[x] = l.pv[x]
<1> DEFINE m == ToPrev(l, h, s)
<1>1. /\ m \in Linked /\ m.nx = l.nx
      /\ h # NULL => m.pv[h] = s
      /\ \A x \in Page : x # h => m.pv[x] = l.pv[x]
  <2>1. s \in Page \cup {NULL}
    OBVIOUS
  <2> QED
    BY <2>1, SetPrevIs
<1> HIDE DEF m
<1>2. push(l, s, h) = [m EXCEPT !.nx[s] = h, !.pv[s] = NULL]
  BY DEF push, ToPrev, m
<1>3. /\ push(l, s, h).nx = [m.nx EXCEPT ![s] = h] /\ push(l, s, h).pv = [m.pv EXCEPT ![s] = NULL]
      /\ push(l, s, h) \in Linked
  <2>1. m = [nx |-> m.nx, pv |-> m.pv]
    BY <1>1 DEF Linked
  <2>2. push(l, s, h) = [nx |-> [m.nx EXCEPT ![s] = h], pv |-> [m.pv EXCEPT ![s] = NULL]]
    BY <1>2, <2>1
  <2>3. m.nx \in [Page -> Page \cup {NULL}] /\ m.pv \in [Page -> Page \cup {NULL}]
    BY <1>1 DEF Linked
  <2> QED
    BY <2>2, <2>3 DEF Linked
<1>4. l.nx \in [Page -> Page \cup {NULL}] /\ m.pv \in [Page -> Page \cup {NULL}]
  BY <1>1 DEF Linked
<1> QED
  BY <1>1, <1>3, <1>4, SlabAssumption

(* unlink takes s from between its neighbours and leaves its own links alone. *)
LEMMA UnlinkIs ==
  ASSUME NEW l \in Linked, NEW s \in Page, l.pv[s] # s, l.nx[s] # s
  PROVE /\ unlink(l, s) \in Linked
        /\ unlink(l, s).nx[s] = l.nx[s]
        /\ \A x \in Page : unlink(l, s).nx[x] = IF x = l.pv[s] THEN l.nx[s] ELSE l.nx[x]
        /\ \A x \in Page : unlink(l, s).pv[x] = IF x = l.nx[s] THEN l.pv[s] ELSE l.pv[x]
<1> DEFINE m == ToNext(l, l.pv[s], l.nx[s])
<1>1. l.pv[s] \in Page \cup {NULL} /\ l.nx[s] \in Page \cup {NULL}
  BY DEF Linked
<1>2. /\ m \in Linked /\ m.pv = l.pv
      /\ l.pv[s] # NULL => m.nx[l.pv[s]] = l.nx[s]
      /\ \A x \in Page : x # l.pv[s] => m.nx[x] = l.nx[x]
  BY <1>1, SetNextIs, ZenonT(60)
<1> HIDE DEF m
<1>3. m.nx[s] = l.nx[s]
  BY <1>2
<1>4. unlink(l, s) = ToPrev(m, m.nx[s], m.pv[s])
  BY DEF unlink, ToNext, ToPrev, m
<1>5. /\ unlink(l, s) \in Linked /\ unlink(l, s).nx = m.nx
      /\ l.nx[s] # NULL => unlink(l, s).pv[l.nx[s]] = l.pv[s]
      /\ \A x \in Page : x # l.nx[s] => unlink(l, s).pv[x] = l.pv[x]
  <2>1. unlink(l, s) = ToPrev(m, l.nx[s], l.pv[s])
    BY <1>2, <1>3, <1>4
  <2> DEFINE u == ToPrev(m, l.nx[s], l.pv[s])
  <2>2. /\ u \in Linked /\ u.nx = m.nx
        /\ l.nx[s] # NULL => u.pv[l.nx[s]] = l.pv[s]
        /\ \A x \in Page : x # l.nx[s] => u.pv[x] = m.pv[x]
    BY <1>1, <1>2, SetPrevIs
  <2> QED
    BY <1>2, <2>1, <2>2
<1> QED
  BY <1>1, <1>2, <1>3, <1>5, SlabAssumption

-----------------------------------------------------------------------------
(* A list depends on the links of its own slabs only. *)
LEMMA ChainFrame ==
  ASSUME NEW l, NEW k, NEW h, NEW S, Chain(l, h, S), NULL \notin S,
         \A s \in S : k.nx[s] = l.nx[s] /\ k.pv[s] = l.pv[s]
  PROVE Chain(k, h, S)
<1>1. /\ S \subseteq Page
      /\ IF h = NULL THEN S = {} ELSE h \in S /\ k.pv[h] = NULL
      /\ \A s \in S : k.nx[s] \in S \cup {NULL} /\ k.pv[s] \in S \cup {NULL}
      /\ \A s, t \in S : k.nx[s] = t <=> k.pv[t] = s
  BY DEF Chain
<1>2. ASSUME NEW T \in SUBSET S, h \in T, \A u \in T : k.nx[u] # NULL => k.nx[u] \in T
      PROVE T = S
  BY <1>2 DEF Chain
<1> QED
  BY <1>1, <1>2 DEF Chain

(* A slab pushed on a list: the list has one more. *)
LEMMA ChainPush ==
  ASSUME NEW l \in Linked, NEW h \in Page \cup {NULL}, NEW S, Chain(l, h, S),
         NEW s \in Page, s \notin S
  PROVE Chain(push(l, s, h), s, S \cup {s})
<1> DEFINE k == push(l, s, h)
<1>1. /\ S \subseteq Page
      /\ IF h = NULL THEN S = {} ELSE h \in S /\ l.pv[h] = NULL
      /\ \A x \in S : l.nx[x] \in S \cup {NULL} /\ l.pv[x] \in S \cup {NULL}
      /\ \A x, t \in S : l.nx[x] = t <=> l.pv[t] = x
  BY DEF Chain
<1>2. \A T \in SUBSET S : (h \in T /\ \A u \in T : l.nx[u] # NULL => l.nx[u] \in T) => T = S
  BY DEF Chain
<1>3. h # s /\ s # NULL /\ NULL \notin S
  BY <1>1, SlabAssumption
<1>4. /\ k \in Linked /\ k.nx[s] = h /\ k.pv[s] = NULL
      /\ \A x \in S : k.nx[x] = l.nx[x] 
      /\ h # NULL => k.pv[h] = s
      /\ \A x \in S : x # h => k.pv[x] = l.pv[x]
  BY <1>1, <1>3, PushIs
<1> HIDE DEF k
<1>5. h \in S \cup {NULL}
  BY <1>1
<1>6. \A x \in S \cup {s} : k.nx[x] \in S \cup {s} \cup {NULL} /\ k.pv[x] \in S \cup {s} \cup {NULL}
  BY <1>1, <1>4, <1>5
<1>7. ASSUME NEW x \in S \cup {s}, NEW t \in S \cup {s} PROVE k.nx[x] = t <=> k.pv[t] = x
  <2>1. CASE x = s
    BY <2>1, <1>1, <1>3, <1>4
  <2>2. CASE x # s /\ t = s
    BY <2>2, <1>1, <1>3, <1>4
  <2>3. CASE x # s /\ t # s
    BY <2>3, <1>1, <1>3, <1>4
  <2> QED
    BY <2>1, <2>2, <2>3
<1>8. ASSUME NEW T \in SUBSET (S \cup {s}), s \in T, \A u \in T : k.nx[u] # NULL => k.nx[u] \in T
      PROVE T = S \cup {s}
  <2>1. CASE h = NULL
    BY <2>1, <1>1, <1>8
  <2>2. CASE h # NULL
    <3>1. h \in T \cap S
      BY <2>2, <1>1, <1>4, <1>8
    <3>2. \A u \in T \cap S : l.nx[u] # NULL => l.nx[u] \in T \cap S
      BY <1>1, <1>4, <1>8
    <3>3. T \cap S = S
      BY <1>2, <3>1, <3>2
    <3> QED
      BY <1>8, <3>3
  <2> QED
    BY <2>1, <2>2
<1> QED
  BY <1>1, <1>3, <1>4, <1>6, <1>7, <1>8 DEF Chain, k

(* No slab of a list is its own neighbour. *)
LEMMA NotItself ==
  ASSUME NEW l, NEW h, NEW S, Chain(l, h, S), NULL \notin S, NEW s \in S
  PROVE l.nx[s] # s /\ l.pv[s] # s
<1>1. /\ IF h = NULL THEN S = {} ELSE h \in S /\ l.pv[h] = NULL
      /\ \A x \in S : l.nx[x] \in S \cup {NULL} /\ l.pv[x] \in S \cup {NULL}
      /\ \A x, t \in S : l.nx[x] = t <=> l.pv[t] = x
  BY DEF Chain
<1>2. \A T \in SUBSET S : (h \in T /\ \A u \in T : l.nx[u] # NULL => l.nx[u] \in T) => T = S
  BY DEF Chain
<1>3. ASSUME l.pv[s] = s PROVE FALSE
  <2> DEFINE T == S \ {s}
  <2>1. h \in T
    BY <1>1, <1>3
  <2>2. \A u \in T : l.nx[u] # NULL => l.nx[u] \in T
    BY <1>1, <1>3
  <2>3. T = S
    BY <1>2, <2>1, <2>2
  <2> QED
    BY <2>3
<1> QED
  BY <1>1, <1>3

(* The head of a list without s. *)
HeadWithout(l, h, s) == IF h = s THEN l.nx[s] ELSE h

(* A slab taken out of a list: the list has the others, in their order. *)
LEMMA ChainUnlink ==
  ASSUME NEW l \in Linked, NEW h \in Page \cup {NULL}, NEW S, Chain(l, h, S), NEW s \in S
  PROVE /\ unlink(l, s) \in Linked /\ unlink(l, s).nx[s] = l.nx[s]
        /\ Chain(unlink(l, s), HeadWithout(l, h, s), S \ {s})
        /\ \A x \in Page \ S : unlink(l, s).nx[x] = l.nx[x] /\ unlink(l, s).pv[x] = l.pv[x]
<1> DEFINE k == unlink(l, s)
           g == HeadWithout(l, h, s)
<1>0. g = IF h = s THEN l.nx[s] ELSE h
  BY DEF HeadWithout
<1> HIDE DEF g
<1>1. /\ S \subseteq Page
      /\ IF h = NULL THEN S = {} ELSE h \in S /\ l.pv[h] = NULL
      /\ \A x \in S : l.nx[x] \in S \cup {NULL} /\ l.pv[x] \in S \cup {NULL}
      /\ \A x, t \in S : l.nx[x] = t <=> l.pv[t] = x
  BY DEF Chain
<1>2. \A T \in SUBSET S : (h \in T /\ \A u \in T : l.nx[u] # NULL => l.nx[u] \in T) => T = S
  BY DEF Chain
<1>3. s \in Page /\ NULL \notin S /\ NULL \notin Page
  BY <1>1, SlabAssumption
<1>4. l.nx[s] # s /\ l.pv[s] # s
  BY <1>3, NotItself
<1>5. /\ k \in Linked /\ k.nx[s] = l.nx[s]
      /\ \A x \in Page : k.nx[x] = IF x = l.pv[s] THEN l.nx[s] ELSE l.nx[x]
      /\ \A x \in Page : k.pv[x] = IF x = l.nx[s] THEN l.pv[s] ELSE l.pv[x]
  BY <1>3, <1>4, UnlinkIs
<1> HIDE DEF k
<1>6. \A x \in Page \ S : k.nx[x] = l.nx[x] /\ k.pv[x] = l.pv[x]
  BY <1>1, <1>3, <1>5
<1>7. IF g = NULL THEN S \ {s} = {} ELSE g \in S \ {s} /\ k.pv[g] = NULL
  <2>1. CASE h # s
    BY <2>1, <1>0, <1>1, <1>3, <1>5
  <2>2. CASE h = s /\ l.nx[s] # NULL
    BY <2>2, <1>0, <1>1, <1>3, <1>4, <1>5
  <2>3. CASE h = s /\ l.nx[s] = NULL
    <3>1. {s} = S
      BY <2>3, <1>2
    <3> QED
      BY <2>3, <3>1, <1>0
  <2> QED
    BY <2>1, <2>2, <2>3
<1>8. ASSUME NEW x \in S \ {s}
      PROVE k.nx[x] \in (S \ {s}) \cup {NULL} /\ k.pv[x] \in (S \ {s}) \cup {NULL}
  <2>1. l.nx[x] = s <=> x = l.pv[s]
    BY <1>1
  <2>2. l.pv[x] = s <=> x = l.nx[s]
    BY <1>1
  <2> QED
    BY <1>1, <1>4, <1>5, <2>1, <2>2
<1>9. ASSUME NEW x \in S \ {s}, NEW t \in S \ {s} PROVE k.nx[x] = t <=> k.pv[t] = x
  <2>1. /\ l.nx[x] = t <=> l.pv[t] = x
        /\ l.nx[x] = s <=> l.pv[s] = x
        /\ l.nx[s] = t <=> l.pv[t] = s
    BY <1>1
  <2>2. k.nx[x] = (IF x = l.pv[s] THEN l.nx[s] ELSE l.nx[x]) /\ k.pv[t] = (IF t = l.nx[s] THEN l.pv[s] ELSE l.pv[t])
    BY <1>1, <1>5
  <2> QED
    BY <2>1, <2>2
<1>10. ASSUME NEW T \in SUBSET (S \ {s}), g \in T,
              \A u \in T : k.nx[u] # NULL => k.nx[u] \in T
       PROVE T = S \ {s}
  <2> DEFINE a == l.pv[s]
             U == IF a \in T \/ h = s THEN T \cup {s} ELSE T
  <2>1. U \in SUBSET S /\ h \in U
    BY <1>0, <1>10
  <2>2. ASSUME NEW u \in U, l.nx[u] # NULL PROVE l.nx[u] \in U
    <3>1. CASE u = s
      <4>1. CASE a \in T
        BY <2>2, <3>1, <4>1, <1>1, <1>3, <1>5, <1>10
      <4>2. CASE h = s
        BY <2>2, <3>1, <4>2, <1>0, <1>10
      <4> QED
        BY <2>2, <3>1, <4>1, <4>2, <1>10
    <3>2. CASE u # s
      <4>0. u \in T /\ u \in S
        BY <2>2, <3>2, <1>10
      <4>1. CASE u = a
        BY <4>0, <4>1, <1>1
      <4>2. CASE u # a
        BY <2>2, <4>0, <4>2, <1>1, <1>5, <1>10
      <4> QED
        BY <4>1, <4>2
    <3> QED
      BY <3>1, <3>2
  <2>3. U = S
    BY <1>2, <2>1, <2>2
  <2> QED
    BY <1>10, <2>3
<1>11. Chain(k, g, S \ {s})
  BY <1>1, <1>7, <1>8, <1>9, <1>10 DEF Chain
<1> QED
  BY <1>5, <1>6, <1>11 DEF k, g

(* Whatever the lists look like, the surgery leaves pages or NULL in the links. *)
LEMMA LinkTypes ==
  ASSUME NEW l \in Linked, NEW s \in Page
  PROVE /\ unlink(l, s) \in Linked
        /\ \A h \in Page \cup {NULL} : push(l, s, h) \in Linked
<1> DEFINE m == ToNext(l, l.pv[s], l.nx[s])
<1>1. l.pv[s] \in Page \cup {NULL} /\ l.nx[s] \in Page \cup {NULL}
  BY DEF Linked
<1>2. m \in Linked
  BY <1>1, SetNextIs
<1> HIDE DEF m
<1>3. m.pv[s] \in Page \cup {NULL} /\ m.nx[s] \in Page \cup {NULL}
  BY <1>2 DEF Linked
<1>4. ToPrev(m, m.nx[s], m.pv[s]) \in Linked
  BY <1>2, <1>3, SetPrevIs
<1>5. unlink(l, s) \in Linked
  BY <1>4 DEF unlink, ToNext, ToPrev, m
<1>6. ASSUME NEW h \in Page \cup {NULL} PROVE push(l, s, h) \in Linked
  <2> DEFINE k == ToPrev(l, h, s)
  <2>1. s \in Page \cup {NULL}
    OBVIOUS
  <2>2. k \in Linked
    BY <2>1, SetPrevIs
  <2> HIDE DEF k
  <2>3. push(l, s, h) = [k EXCEPT !.nx[s] = h, !.pv[s] = NULL]
    BY DEF push, ToPrev, k
  <2>4. k = [nx |-> k.nx, pv |-> k.pv] /\ k.nx \in [Page -> Page \cup {NULL}]
        /\ k.pv \in [Page -> Page \cup {NULL}]
    BY <2>2 DEF Linked
  <2>5. push(l, s, h) = [nx |-> [k.nx EXCEPT ![s] = h], pv |-> [k.pv EXCEPT ![s] = NULL]]
    BY <2>3, <2>4
  <2> QED
    BY <2>4, <2>5 DEF Linked
<1> QED
  BY <1>5, <1>6

(* A slab moves from one list to the head of the other. *)
LEMMA MoveOver ==
  ASSUME NEW l \in Linked, NEW h \in Page \cup {NULL}, NEW S, Chain(l, h, S),
         NEW g \in Page \cup {NULL}, NEW T, Chain(l, g, T), S \cap T = {}, NEW s \in S
  PROVE /\ Chain(push(unlink(l, s), s, g), HeadWithout(l, h, s), S \ {s})
        /\ Chain(push(unlink(l, s), s, g), s, T \cup {s})
        /\ push(unlink(l, s), s, g) \in Linked
<1> DEFINE u == unlink(l, s)
           k == push(u, s, g)
<1>1. S \subseteq Page /\ T \subseteq Page /\ NULL \notin S /\ NULL \notin T /\ s \in Page /\ s \notin T
  BY SlabAssumption DEF Chain
<1>2. /\ u \in Linked /\ Chain(u, HeadWithout(l, h, s), S \ {s})
      /\ \A x \in Page \ S : u.nx[x] = l.nx[x] /\ u.pv[x] = l.pv[x]
  BY ChainUnlink, SMTT(60)
<1> HIDE DEF u
<1>3. Chain(u, g, T)
  BY <1>1, <1>2, ChainFrame
<1>4. Chain(k, s, T \cup {s})
  BY <1>1, <1>2, <1>3, ChainPush
<1>5. g \in T \cup {NULL}
  BY DEF Chain
<1>6. /\ k \in Linked
      /\ \A x \in Page \ {s} : k.nx[x] = u.nx[x]
      /\ \A x \in Page \ {s} : x # g => k.pv[x] = u.pv[x]
  <2>1. g # s
    BY <1>1, <1>5
  <2> QED
    BY <1>1, <1>2, <2>1, PushIs
<1> HIDE DEF k
<1>7. \A x \in S \ {s} : k.nx[x] = u.nx[x] /\ k.pv[x] = u.pv[x]
  BY <1>1, <1>5, <1>6
<1>8. Chain(k, HeadWithout(l, h, s), S \ {s})
  BY <1>1, <1>2, <1>7, ChainFrame
<1> QED
  BY <1>4, <1>6, <1>8 DEF k, u

(* The links of s are gone with its page. *)
Cleared(k, u, s) == k.nx = [u.nx EXCEPT ![s] = NULL] /\ k.pv = [u.pv EXCEPT ![s] = NULL]

(* A slab leaves its list; its own links are cleared. *)
LEMMA TakeAway ==
  ASSUME NEW l \in Linked, NEW h \in Page \cup {NULL}, NEW S, Chain(l, h, S),
         NEW g \in Page \cup {NULL}, NEW T, Chain(l, g, T), S \cap T = {}, NEW s \in S,
         NEW k, Cleared(k, unlink(l, s), s)
  PROVE /\ Chain(k, HeadWithout(l, h, s), S \ {s})
        /\ Chain(k, g, T)
<1> DEFINE u == unlink(l, s)
<1>1. S \subseteq Page /\ T \subseteq Page /\ NULL \notin S /\ NULL \notin T /\ s \in Page /\ s \notin T
  BY SlabAssumption DEF Chain
<1>2. /\ u \in Linked /\ Chain(u, HeadWithout(l, h, s), S \ {s})
      /\ \A x \in Page \ S : u.nx[x] = l.nx[x] /\ u.pv[x] = l.pv[x]
  BY ChainUnlink
<1>3. k.nx = [u.nx EXCEPT ![s] = NULL] /\ k.pv = [u.pv EXCEPT ![s] = NULL]
  BY DEF Cleared
<1> HIDE DEF u
<1>4. \A x \in Page \ {s} : k.nx[x] = u.nx[x] /\ k.pv[x] = u.pv[x]
  BY <1>2, <1>3 DEF Linked
<1>5. Chain(k, HeadWithout(l, h, s), S \ {s})
  <2>1. NULL \notin S \ {s} /\ \A x \in S \ {s} : k.nx[x] = u.nx[x] /\ k.pv[x] = u.pv[x]
    BY <1>1, <1>4
  <2> QED
    BY <1>2, <2>1, ChainFrame
<1>6. Chain(k, g, T)
  <2>1. \A x \in T : k.nx[x] = l.nx[x] /\ k.pv[x] = l.pv[x]
    BY <1>1, <1>2, <1>4
  <2> QED
    BY <1>1, <2>1, ChainFrame
<1> QED
  BY <1>5, <1>6

(* A list is what a reader who follows next from its head finds. *)
LEMMA ChainIsList ==
  ASSUME Chain(Links, partial, HasFree), Chain(Links, full, NoFree), TypeOK
  PROVE ListsSound
<1>1. Links.nx = next /\ Links.pv = prev
  BY DEF Links
<1>2. ASSUME NEW h \in Page \cup {NULL}, NEW S, Chain(Links, h, S) PROVE Slabs(h) = S
  <2>1. S \subseteq Page /\ \A s \in S : next[s] \in S \cup {NULL}
    BY <1>1, <1>2 DEF Chain
  <2>2. CASE h = NULL
    BY <1>2, <2>2 DEF Chain, Slabs
  <2>3. CASE h # NULL
    <3>1. h \in S /\ S \in SUBSET Page
      BY <1>2, <2>1, <2>3 DEF Chain
    <3>2. OnList(h) \subseteq S
      BY <2>1, <3>1 DEF OnList
    <3>3. ASSUME NEW T \in SUBSET Page, h \in T, \A u \in T : next[u] # NULL => next[u] \in T
          PROVE S \subseteq T
      <4> DEFINE U == T \cap S
      <4>1. h \in U /\ U \in SUBSET S /\ \A u \in U : next[u] # NULL => next[u] \in U
        BY <2>1, <3>1, <3>3
      <4>2. U = S
        BY <1>1, <1>2, <4>1 DEF Chain
      <4> QED
        BY <4>2
    <3>4. S \subseteq OnList(h)
      BY <2>1, <3>3 DEF OnList
    <3> QED
      BY <2>3, <3>2, <3>4 DEF Slabs
  <2> QED
    BY <2>2, <2>3
<1>3. Slabs(partial) = HasFree /\ Slabs(full) = NoFree
  BY <1>2 DEF TypeOK
<1>4. \A h \in {partial, full} \ {NULL} : prev[h] = NULL
  BY <1>1 DEF Chain
<1>5. HasFree \cap NoFree = {} /\ mapped = HasFree \cup NoFree /\ NULL \notin mapped
  BY SlabAssumption DEF HasFree, NoFree, TypeOK
<1>6. ASSUME NEW s \in mapped, NEW t \in mapped PROVE next[s] = t <=> prev[t] = s
  <2>1. /\ \A x \in HasFree : next[x] \in HasFree \cup {NULL} /\ prev[x] \in HasFree \cup {NULL}
        /\ \A x \in NoFree : next[x] \in NoFree \cup {NULL} /\ prev[x] \in NoFree \cup {NULL}
        /\ \A x, y \in HasFree : next[x] = y <=> prev[y] = x
        /\ \A x, y \in NoFree : next[x] = y <=> prev[y] = x
    BY <1>1 DEF Chain
  <2> QED
    BY <1>5, <2>1
<1> QED
  BY <1>3, <1>4, <1>6 DEF ListsSound, HasFree, NoFree

-----------------------------------------------------------------------------
LEMMA SlabInit == Init => SlabInv
<1> SUFFICES ASSUME Init PROVE SlabInv
  OBVIOUS
<1>1. mapped = {} /\ used = {} /\ partial = NULL /\ full = NULL
  BY DEF Init
<1>2. TypeOK
  <2>1. wild \in BOOLEAN
    BY Zenon DEF Init
  <2>2. 0 \in 0 .. TOTAL
    BY SlabAssumption
  <2> QED
    BY <2>1, <2>2 DEF Init, TypeOK
<1>3. Counted /\ LowKnown /\ OfferedOnce /\ HeldOrOffered
  BY <1>1 DEF Counted, LowKnown, OfferedOnce, HeldOrOffered
<1>4. HasFree = {} /\ NoFree = {}
  BY <1>1 DEF HasFree, NoFree
<1>5. Chains
  BY <1>1, <1>4 DEF Chains, Chain
<1> QED
  BY <1>1, <1>2, <1>3, <1>5 DEF SlabInv, ObjectInv, NoneEmpty

(* Facts about the objects of one slab. *)
LEMMA HeldFacts ==
  ASSUME ObjectInv
  PROVE /\ \A s : IsFiniteSet(Held(s)) /\ Cardinality(Held(s)) \in Nat
        /\ mapped \subseteq Page /\ used \subseteq Page \X Index /\ JUNK \notin Index
        /\ \A s \in mapped : /\ s \in Page /\ free_count[s] \in 0 .. TOTAL - 1
                             /\ free_count[s] \in Index /\ free_list[s] \in [Index -> Index \cup {JUNK}]
<1>1. TypeOK /\ Counted
  BY DEF ObjectInv
<1>2. IsFiniteSet(Index)
  <2>1. 0 \in Int /\ TOTAL - 1 \in Int
    BY SlabAssumption
  <2> QED
    BY <2>1, FS_Interval DEF Index
<1>3. ASSUME NEW s PROVE IsFiniteSet(Held(s)) /\ Cardinality(Held(s)) \in Nat
  <2>1. Held(s) \in SUBSET Index
    BY DEF Held
  <2>2. IsFiniteSet(Held(s))
    BY <1>2, <2>1, FS_Subset
  <2> QED
    BY <2>2, FS_CardinalityType
<1>4. JUNK \notin Index
  BY SlabAssumption DEF JUNK, Index
<1>5. ASSUME NEW s \in mapped
      PROVE /\ s \in Page /\ free_count[s] \in 0 .. TOTAL - 1
            /\ free_count[s] \in Index /\ free_list[s] \in [Index -> Index \cup {JUNK}]
  BY <1>1, SlabAssumption DEF TypeOK, Counted, Index
<1> QED
  BY <1>1, <1>3, <1>4, <1>5 DEF TypeOK

(* The allocator hands out object i of slab s, the last one free_list offers. *)
LEMMA HandOutStep ==
  ASSUME ObjectInv, NEW s \in mapped, NEW i \in Index, free_count[s] > 0,
         i = free_list[s][free_count[s] - 1],
         free_count' = [free_count EXCEPT ![s] = free_count[s] - 1],
         HandOut(s, i), free_list' = free_list, mapped' = mapped
  PROVE Counted' /\ LowKnown' /\ OfferedOnce' /\ HeldOrOffered'
<1>1. TypeOK /\ Counted /\ LowKnown /\ OfferedOnce /\ HeldOrOffered
  BY DEF ObjectInv
<1>2. /\ IsFiniteSet(Held(s)) /\ Cardinality(Held(s)) \in Nat /\ JUNK \notin Index
      /\ mapped \subseteq Page /\ used \subseteq Page \X Index
      /\ \A t \in mapped : free_count[t] \in 0 .. TOTAL - 1
      /\ \A t \in mapped : free_list[t] \in [Index -> Index \cup {JUNK}]
  BY HeldFacts
<1> DEFINE n == free_count[s]
<1>3. n \in Nat /\ n \in 1 .. TOTAL - 1 /\ n - 1 \in 0 .. n - 1 /\ n - 1 \in Index
  BY <1>2, SlabAssumption DEF Index
<1>4. /\ free_count'[s] = n - 1
      /\ \A t \in mapped : t # s => free_count'[t] = free_count[t]
  BY <1>1, <1>2 DEF TypeOK
<1>5. used' = used \cup {<<s, i>>} /\ low' = IF i \in LowIndex THEN low \cup {s} ELSE low
  BY DEF HandOut
<1>6. i # JUNK /\ <<s, i>> \notin used
  BY <1>1, <1>2, <1>3 DEF OfferedOnce
<1>7. \A k \in 0 .. n - 2 : k \in 0 .. n - 1 /\ k \in Index /\ free_list[s][k] # i
  <2> TAKE k \in 0 .. n - 2
  <2> HIDE DEF n
  <2>1. k \in 0 .. n - 1 /\ k \in Index /\ k # n - 1
    BY <1>3, SlabAssumption DEF Index
  <2> USE DEF n
  <2>2. free_list[s][n - 1] # JUNK /\ free_list[s][n - 1] = free_list[s][k] => k = n - 1
    BY <1>1, <1>3, <2>1 DEF OfferedOnce
  <2> QED
    BY <1>6, <2>1, <2>2
<1>8. /\ Held(s)' = Held(s) \cup {i} /\ i \notin Held(s)
      /\ \A t \in mapped : t # s => Held(t)' = Held(t)
  BY <1>5, <1>6 DEF Held
<1> HIDE DEF n
<1>9. Counted'
  <2>1. Cardinality(Held(s)') = Cardinality(Held(s)) + 1
    BY <1>2, <1>8, FS_AddElement
  <2>2. n + Cardinality(Held(s)) = TOTAL
    BY <1>1 DEF Counted, n
  <2>3. n - 1 + Cardinality(Held(s)') = TOTAL /\ n - 1 < TOTAL
    BY <1>2, <1>3, <2>1, <2>2, SlabAssumption
  <2>4. \A o \in used' : o[1] \in mapped'
    BY <1>1, <1>5 DEF Counted
  <2>5. \A t \in mapped' : free_count'[t] + Cardinality(Held(t)') = TOTAL /\ free_count'[t] < TOTAL
    BY <1>1, <1>4, <1>8, <2>3 DEF Counted
  <2> QED
    BY <2>4, <2>5 DEF Counted
<1>10. LowKnown'
  BY <1>1, <1>5 DEF LowKnown
<1>11. OfferedOnce'
  <2> SUFFICES ASSUME NEW t \in mapped, NEW j \in 0 .. free_count'[t] - 1,
                      NEW k \in 0 .. free_count'[t] - 1, free_list[t][j] # JUNK
               PROVE /\ <<t, free_list[t][j]>> \notin used'
                     /\ free_list[t][j] = free_list[t][k] => j = k
    BY DEF OfferedOnce
  <2>1. CASE t = s
    <3>1. j \in 0 .. n - 2 /\ k \in 0 .. n - 2
      BY <1>3, <1>4, <2>1
    <3>2. j \in 0 .. n - 1 /\ k \in 0 .. n - 1 /\ free_list[s][j] # i
      BY <1>7, <3>1
    <3> QED
      BY <1>1, <1>5, <2>1, <3>2 DEF OfferedOnce, n
  <2>2. CASE t # s
    BY <1>1, <1>4, <1>5, <2>2 DEF OfferedOnce
  <2> QED
    BY <2>1, <2>2
<1>12. HeldOrOffered'
  <2> SUFFICES ASSUME NEW t \in mapped, t \notin low'
               PROVE {x \in Index : <<t, x>> \notin used'}
                       = {free_list[t][k] : k \in 0 .. free_count'[t] - 1}
    BY DEF HeldOrOffered
  <2>1. {x \in Index : <<t, x>> \notin used} = {free_list[t][k] : k \in 0 .. free_count[t] - 1}
    BY <1>1, <1>5 DEF HeldOrOffered
  <2>2. CASE t = s
    <3>1. 0 .. n - 1 = (0 .. n - 2) \cup {n - 1} /\ 0 .. free_count'[s] - 1 = 0 .. n - 2
      BY <1>3, <1>4
    <3>2. {free_list[s][k] : k \in 0 .. n - 1} = {free_list[s][k] : k \in 0 .. n - 2} \cup {i}
      BY <3>1 DEF n
    <3>3. i \notin {free_list[s][k] : k \in 0 .. n - 2}
      BY <1>7
    <3> DEFINE Offered == {free_list[s][k] : k \in 0 .. n - 2}
               Unheld == {x \in Index : <<s, x>> \notin used}
    <3>4. {x \in Index : <<s, x>> \notin used'} = Unheld \ {i}
      BY <1>5
    <3>5. Unheld = Offered \cup {i} /\ i \notin Offered
      BY <2>1, <2>2, <3>2, <3>3 DEF n
    <3>6. {free_list[t][k] : k \in 0 .. free_count'[t] - 1} = Offered
      BY <2>2, <3>1
    <3> HIDE DEF Offered, Unheld
    <3> QED
      BY <2>2, <3>4, <3>5, <3>6
  <2>3. CASE t # s
    BY <1>4, <1>5, <2>1, <2>3
  <2> QED
    BY <2>2, <2>3
<1> QED
  BY <1>9, <1>10, <1>11, <1>12

(* The counter of the first partial slab goes down: the lists stay sound. *)
LEMMA PopStep ==
  ASSUME TypeOK, TOTAL > 1 => Chains, NEW s, s = partial, s \in mapped,
         free_count[s] \in 1 .. TOTAL - 1, pop(s), mapped' = mapped
  PROVE /\ TOTAL > 1 => Chains'
        /\ partial' \in Page \cup {NULL} /\ full' \in Page \cup {NULL}
        /\ next' \in [Page -> Page \cup {NULL}] /\ prev' \in [Page -> Page \cup {NULL}]
        /\ free_count' \in [Page -> 0 .. TOTAL]
<1>1. /\ free_count' = [free_count EXCEPT ![s] = free_count[s] - 1]
      /\ IF free_count[s] = 1 THEN to_full(s) ELSE UNCHANGED lists
  BY DEF pop
<1>2. s # NULL /\ s \in Page /\ TOTAL > 1 /\ free_count[s] > 0 /\ free_count[s] - 1 \in 0 .. TOTAL
  BY SlabAssumption DEF TypeOK
<1>3. Chains /\ Links \in Linked
  BY <1>2 DEF TypeOK, Links, Linked
<1>4. free_count' \in [Page -> 0 .. TOTAL]
  BY <1>1, <1>2 DEF TypeOK
<1>5. /\ free_count'[s] = free_count[s] - 1
      /\ \A t \in mapped : t # s => free_count'[t] = free_count[t]
  BY <1>1, <1>2 DEF TypeOK
<1>6. CASE free_count[s] = 1
  <2>1. to_full(s)
    BY <1>1, <1>6
  <2>2. s \in HasFree /\ Chain(Links, s, HasFree) /\ Chain(Links, full, NoFree) /\ full \in Page \cup {NULL}
        /\ HasFree \cap NoFree = {}
    BY <1>2, <1>3 DEF Chains, HasFree, NoFree, TypeOK
  <2>3. prev[s] = NULL /\ Links.nx = next /\ Links.pv = prev
    BY <1>2, <2>2 DEF Chain, Links
  <2>4. unlink(Links, s) = SetPrev(Links, next[s] # NULL, next[s], NULL)
    BY <2>3 DEF unlink, SetNext
  <2> DEFINE k == push(unlink(Links, s), s, full)
  <2>5. next' = k.nx /\ prev' = k.pv /\ partial' = next[s] /\ full' = s
    BY <2>1, <2>4 DEF to_full, SetLinks
  <2>6. HeadWithout(Links, s, s) = next[s]
    BY <2>3 DEF HeadWithout
  <2>7. Chain(k, next[s], HasFree \ {s}) /\ Chain(k, s, NoFree \cup {s}) /\ k \in Linked
    <3>1. /\ Chain(k, HeadWithout(Links, s, s), HasFree \ {s}) /\ Chain(k, s, NoFree \cup {s})
          /\ k \in Linked
      <4>1. s \in Page \cup {NULL}
        BY <1>2
      <4> QED
        BY <1>3, <2>2, <4>1, MoveOver, ZenonT(30)
    <3> QED
      BY <2>6, <3>1
  <2> HIDE DEF k
  <2>8. HasFree' = HasFree \ {s} /\ NoFree' = NoFree \cup {s}
    BY <1>2, <1>5, <1>6 DEF HasFree, NoFree
  <2>9. Links' = k
    BY <2>5, <2>7 DEF Links, Linked
  <2>10. Chains'
    BY <2>5, <2>7, <2>8, <2>9 DEF Chains
  <2>11. /\ partial' \in Page \cup {NULL} /\ full' \in Page \cup {NULL}
         /\ next' \in [Page -> Page \cup {NULL}] /\ prev' \in [Page -> Page \cup {NULL}]
    BY <1>2, <2>5, <2>7 DEF TypeOK, Linked
  <2> QED
    BY <1>4, <2>10, <2>11
<1>7. CASE free_count[s] # 1
  <2>1. partial' = partial /\ full' = full /\ next' = next /\ prev' = prev
    BY <1>1, <1>7 DEF lists
  <2>2. free_count'[s] > 0 /\ free_count[s] # 0
    BY <1>5, <1>7
  <2>3. HasFree' = HasFree /\ NoFree' = NoFree
    BY <1>2, <1>5, <2>2 DEF HasFree, NoFree
  <2>4. Chains'
    BY <1>3, <2>1, <2>3 DEF Chains, Links
  <2> QED
    BY <1>4, <2>1, <2>4 DEF TypeOK
<1> QED
  BY <1>6, <1>7

(* kmalloc from the first partial slab. *)
LEMMA PartialStep ==
  ASSUME SlabInv, ~wild, kmalloc_partial
  PROVE SlabInv'
<1>1. ObjectInv /\ TypeOK /\ (TOTAL > 1 => Chains) /\ NoneEmpty
  BY DEF SlabInv
<1> DEFINE s == partial
<1>2. s # NULL /\ free_list' = free_list /\ mapped' = mapped /\ s \in Page
  BY <1>1 DEF kmalloc_partial, TypeOK
<1>3. CASE ~Offers(s)
  <2>1. wild' = TRUE /\ UNCHANGED <<lists, free_count, used, low>>
    BY <1>3 DEF kmalloc_partial
  <2>2. wild' \in BOOLEAN
    BY <2>1, Zenon
  <2>3. partial' = partial /\ full' = full /\ next' = next /\ prev' = prev
    BY <2>1 DEF lists
  <2>4. TypeOK'
    BY <1>1, <1>2, <2>1, <2>2, <2>3 DEF TypeOK
  <2>5. Chains' <=> Chains
    BY <1>2, <2>1, <2>3 DEF Chains, Links, HasFree, NoFree
  <2>6. NoneEmpty'
    BY <1>1, <1>2, <2>1 DEF NoneEmpty
  <2> QED
    BY <1>1, <2>1, <2>4, <2>5, <2>6 DEF SlabInv
<1>4. CASE Offers(s)
  <2>1. pop(s) /\ IF Top(s) = JUNK THEN hand_out_junk ELSE HandOut(s, Top(s))
    BY <1>4 DEF kmalloc_partial
  <2>2. s \in mapped /\ free_count[s] > 0
    BY <1>4 DEF Offers
  <2>3. /\ free_count[s] \in 1 .. TOTAL - 1 /\ free_list[s] \in [Index -> Index \cup {JUNK}]
        /\ free_count[s] - 1 \in Index
    BY <1>1, <2>2, HeldFacts, SlabAssumption DEF Index
  <2> HIDE DEF s
  <2>4. /\ TOTAL > 1 => Chains'
        /\ partial' \in Page \cup {NULL} /\ full' \in Page \cup {NULL}
        /\ next' \in [Page -> Page \cup {NULL}] /\ prev' \in [Page -> Page \cup {NULL}]
        /\ free_count' \in [Page -> 0 .. TOTAL]
    BY <1>1, <1>2, <2>1, <2>2, <2>3, PopStep DEF s
  <2>5. CASE Top(s) = JUNK
    <3>1. /\ used' \in {used} \cup {used \cup {o} : o \in mapped \X Index}
          /\ wild' = TRUE /\ low' = low
      BY <2>1, <2>5 DEF hand_out_junk
    <3>2. used' \subseteq Page \X Index /\ used \subseteq used'
      BY <1>1, <3>1 DEF TypeOK
    <3>3. wild' \in BOOLEAN
      BY <3>1, Zenon
    <3>4. TypeOK'
      BY <1>1, <1>2, <2>4, <3>1, <3>2, <3>3 DEF TypeOK
    <3>5. NoneEmpty'
      BY <1>1, <1>2, <3>2 DEF NoneEmpty
    <3> QED
      BY <2>4, <3>1, <3>4, <3>5 DEF SlabInv
  <2>6. CASE Top(s) # JUNK
    <3>1. HandOut(s, Top(s)) /\ Top(s) = free_list[s][free_count[s] - 1] /\ Top(s) \in Index
      BY <2>1, <2>3, <2>6 DEF Top
    <3>2. free_count' = [free_count EXCEPT ![s] = free_count[s] - 1]
      BY <2>1 DEF pop
    <3>3. Counted' /\ LowKnown' /\ OfferedOnce' /\ HeldOrOffered'
      BY <1>1, <1>2, <2>2, <3>1, <3>2, HandOutStep
    <3>4. /\ used' = used \cup {<<s, Top(s)>>} /\ wild' = wild
          /\ low' = IF Top(s) \in LowIndex THEN low \cup {s} ELSE low
      BY <3>1 DEF HandOut
    <3>5. used' \subseteq Page \X Index
      BY <1>1, <1>2, <3>1, <3>4 DEF TypeOK
    <3>6. low' \subseteq Page
      BY <1>1, <1>2, <3>4 DEF TypeOK
    <3>7. TypeOK'
      BY <1>1, <1>2, <2>4, <3>4, <3>5, <3>6 DEF TypeOK
    <3>8. NoneEmpty'
      BY <1>1, <1>2, <3>4 DEF NoneEmpty
    <3> QED
      BY <2>4, <3>3, <3>7, <3>8 DEF SlabInv, ObjectInv
  <2> QED
    BY <2>5, <2>6
<1> QED
  BY <1>3, <1>4

(* kmalloc with no partial slab. *)
LEMMA NewStep ==
  ASSUME SlabInv, ~wild, kmalloc_new
  PROVE SlabInv'
<1>1. /\ ObjectInv /\ TypeOK /\ Counted /\ LowKnown /\ OfferedOnce /\ HeldOrOffered
      /\ (TOTAL > 1 => Chains)
  BY DEF SlabInv, ObjectInv, caller_writes
<1>2. PICK s \in Page \ mapped :
        /\ mapped' = mapped \cup {s}
        /\ SetLinks([nx |-> [next EXCEPT ![s] = NULL], pv |-> [prev EXCEPT ![s] = NULL]])
        /\ free_list' = [free_list EXCEPT ![s] = [k \in Index |-> k]]
        /\ free_count' = [free_count EXCEPT ![s] = TOTAL - 1]
        /\ partial' = s
        /\ HandOut(s, TOTAL - 1)
  BY DEF kmalloc_new
<1>3. partial = NULL /\ full' = full
  BY DEF kmalloc_new
<1>4. /\ next' = [next EXCEPT ![s] = NULL] /\ prev' = [prev EXCEPT ![s] = NULL]
      /\ used' = used \cup {<<s, TOTAL - 1>>} /\ wild' = wild
      /\ low' = IF TOTAL - 1 \in LowIndex THEN low \cup {s} ELSE low
  BY <1>2 DEF SetLinks, HandOut
<1>5. TOTAL - 1 \in Index /\ TOTAL - 1 \in 0 .. TOTAL /\ TOTAL \in Nat
  BY SlabAssumption DEF Index
<1>6. /\ free_count'[s] = TOTAL - 1 /\ free_list'[s] = [k \in Index |-> k]
      /\ \A t \in mapped : t # s /\ free_count'[t] = free_count[t] /\ free_list'[t] = free_list[t]
  BY <1>1, <1>2 DEF TypeOK
<1>7. TypeOK'
  <2>1. /\ next' \in [Page -> Page \cup {NULL}] /\ prev' \in [Page -> Page \cup {NULL}]
        /\ free_count' \in [Page -> 0 .. TOTAL]
    BY <1>1, <1>2, <1>4, <1>5 DEF TypeOK
  <2>2. free_list' \in [Page -> [Index -> Index \cup {JUNK}]]
    <3>1. [k \in Index |-> k] \in [Index -> Index \cup {JUNK}]
      OBVIOUS
    <3> QED
      BY <1>1, <1>2, <3>1 DEF TypeOK
  <2>3. mapped' \subseteq Page /\ used' \subseteq Page \X Index /\ low' \subseteq Page
    BY <1>1, <1>2, <1>4, <1>5 DEF TypeOK
  <2> QED
    BY <1>1, <1>2, <1>3, <1>4, <2>1, <2>2, <2>3 DEF TypeOK
<1>8. \A x : <<s, x>> \notin used
  <2> TAKE x
  <2>1. <<s, x>>[1] = s
    OBVIOUS
  <2> QED
    BY <1>1, <1>2, <2>1 DEF Counted
<1>9. Counted'
  <2>1. Held(s)' = {TOTAL - 1}
    BY <1>4, <1>5, <1>8 DEF Held
  <2>2. Cardinality(Held(s)') = 1
    BY <2>1, FS_Singleton
  <2>3. free_count'[s] + Cardinality(Held(s)') = TOTAL /\ free_count'[s] < TOTAL
    BY <1>5, <1>6, <2>2
  <2>4. \A t \in mapped : Held(t)' = Held(t)
    BY <1>4, <1>6 DEF Held
  <2>5. \A o \in used' : o[1] \in mapped'
    BY <1>1, <1>2, <1>4 DEF Counted
  <2>6. \A t \in mapped : free_count[t] + Cardinality(Held(t)) = TOTAL /\ free_count[t] < TOTAL
    BY <1>1 DEF Counted
  <2>7. \A t \in mapped' : free_count'[t] + Cardinality(Held(t)') = TOTAL /\ free_count'[t] < TOTAL
    BY <1>2, <1>6, <2>3, <2>4, <2>6
  <2> QED
    BY <2>5, <2>7 DEF Counted
<1>10. LowKnown'
  BY <1>1, <1>4 DEF LowKnown
<1>11. \A k \in 0 .. TOTAL - 2 : k \in Index /\ free_list'[s][k] = k /\ k # TOTAL - 1
  BY <1>5, <1>6 DEF Index
<1>12. 0 .. free_count'[s] - 1 = 0 .. TOTAL - 2
  BY <1>5, <1>6
<1>13. OfferedOnce'
  <2> SUFFICES ASSUME NEW t \in mapped', NEW j \in 0 .. free_count'[t] - 1,
                      NEW k \in 0 .. free_count'[t] - 1, free_list'[t][j] # JUNK
               PROVE /\ <<t, free_list'[t][j]>> \notin used'
                     /\ free_list'[t][j] = free_list'[t][k] => j = k
    BY DEF OfferedOnce
  <2>1. CASE t = s
    BY <1>4, <1>8, <1>11, <1>12, <2>1
  <2>2. CASE t \in mapped
    BY <1>1, <1>4, <1>6, <2>2 DEF OfferedOnce
  <2> QED
    BY <1>2, <2>1, <2>2
<1>14. HeldOrOffered'
  <2> SUFFICES ASSUME NEW t \in mapped', t \notin low'
               PROVE {x \in Index : <<t, x>> \notin used'}
                       = {free_list'[t][k] : k \in 0 .. free_count'[t] - 1}
    BY DEF HeldOrOffered
  <2>1. CASE t = s
    <3>1. {x \in Index : <<s, x>> \notin used'} = Index \ {TOTAL - 1}
      BY <1>4, <1>8
    <3>2. Index \ {TOTAL - 1} = 0 .. TOTAL - 2
      BY <1>5 DEF Index
    <3>3. {free_list'[s][k] : k \in 0 .. TOTAL - 2} = 0 .. TOTAL - 2
      BY <1>11
    <3> QED
      BY <1>12, <2>1, <3>1, <3>2, <3>3
  <2>2. CASE t \in mapped
    <3>1. t \notin low
      BY <1>4
    <3>2. {x \in Index : <<t, x>> \notin used} = {free_list[t][k] : k \in 0 .. free_count[t] - 1}
      BY <1>1, <2>2, <3>1 DEF HeldOrOffered
    <3> QED
      BY <1>4, <1>6, <2>2, <3>2
  <2> QED
    BY <1>2, <2>1, <2>2
<1>15. ASSUME TOTAL > 1 PROVE Chains'
  <2>1. Chain(Links, partial, HasFree) /\ Chain(Links, full, NoFree)
    BY <1>1, <1>15 DEF Chains
  <2>2. HasFree = {}
    BY <1>3, <2>1 DEF Chain
  <2>3. HasFree' = {s} /\ NoFree' = NoFree
    BY <1>2, <1>5, <1>6, <1>15, <2>2 DEF HasFree, NoFree
  <2>4. Links'.nx = next' /\ Links'.pv = prev' /\ Links.nx = next /\ Links.pv = prev
    BY DEF Links
  <2>5. next'[s] = NULL /\ prev'[s] = NULL
    BY <1>1, <1>2, <1>4 DEF TypeOK
  <2>6. s # NULL /\ NULL \notin NoFree /\ NoFree \subseteq mapped
    BY <1>1, <1>2, SlabAssumption DEF NoFree, TypeOK
  <2>7. Chain(Links', s, {s})
    <3>1. IF s = NULL THEN {s} = {} ELSE s \in {s} /\ Links'.pv[s] = NULL
      BY <2>4, <2>5, <2>6
    <3>2. \A x \in {s} : Links'.nx[x] \in {s} \cup {NULL} /\ Links'.pv[x] \in {s} \cup {NULL}
      BY <2>4, <2>5
    <3>3. \A x, t \in {s} : Links'.nx[x] = t <=> Links'.pv[t] = x
      BY <2>4, <2>5, <2>6
    <3> QED
      BY <3>1, <3>2, <3>3 DEF Chain
  <2>8. Chain(Links', full, NoFree)
    <3>1. \A x \in NoFree : Links'.nx[x] = Links.nx[x] /\ Links'.pv[x] = Links.pv[x]
      BY <1>1, <1>2, <1>4, <2>4, <2>6 DEF TypeOK
    <3> QED
      BY <2>1, <2>6, <3>1, ChainFrame
  <2> QED
    BY <1>2, <1>3, <2>3, <2>7, <2>8 DEF Chains
<1>16. ObjectInv'
  BY <1>7, <1>9, <1>10, <1>13, <1>14 DEF ObjectInv
<1>17. NoneEmpty'
  <2>1. \E o \in used' : o[1] = s
    <3>1. <<s, TOTAL - 1>> \in used' /\ <<s, TOTAL - 1>>[1] = s
      BY <1>4
    <3> QED
      BY <3>1
  <2>2. NoneEmpty
    BY DEF SlabInv
  <2> QED
    BY <1>2, <1>4, <2>1, <2>2 DEF NoneEmpty
<1> QED
  BY <1>7, <1>15, <1>16, <1>17 DEF SlabInv

(* A caller writes to what it holds. *)
LEMMA WriteStep ==
  ASSUME SlabInv, caller_writes
  PROVE SlabInv'
<1>1. /\ ObjectInv /\ TypeOK /\ Counted /\ LowKnown /\ OfferedOnce /\ HeldOrOffered
      /\ (TOTAL > 1 => Chains)
  BY DEF SlabInv, ObjectInv, caller_writes
<1>2. PICK o \in used, kk \in Index :
        /\ Covers(o[2], kk)
        /\ free_list' = [free_list EXCEPT ![o[1]] = [free_list[o[1]] EXCEPT ![kk] = JUNK]]
  BY DEF caller_writes
<1>3. /\ partial' = partial /\ full' = full /\ next' = next /\ prev' = prev
      /\ free_count' = free_count /\ mapped' = mapped /\ used' = used /\ low' = low /\ wild' = wild
  BY DEF caller_writes, lists
<1> DEFINE w == o[1]
           fl == [free_list[w] EXCEPT ![kk] = JUNK]
<1>4. w \in mapped /\ w \in Page /\ w \in low
  <2>1. o[2] \in Index
    BY <1>1 DEF TypeOK
  <2>2. o[2] \in LowIndex
    BY <1>2, <2>1 DEF LowIndex
  <2> QED
    BY <1>1, <2>2 DEF Counted, LowKnown, TypeOK
<1>5. fl \in [Index -> Index \cup {JUNK}] /\ \A k \in Index : fl[k] # JUNK => fl[k] = free_list[w][k]
  BY <1>1, <1>4 DEF TypeOK
<1>6. free_list' \in [Page -> [Index -> Index \cup {JUNK}]]
  BY <1>1, <1>2, <1>5 DEF TypeOK
<1>7. free_list'[w] = fl /\ \A t \in Page : t # w => free_list'[t] = free_list[t]
  BY <1>1, <1>2, <1>4 DEF TypeOK
<1> HIDE DEF fl, w
<1>8. TypeOK'
  BY <1>1, <1>3, <1>6 DEF TypeOK
<1>9. Counted' /\ LowKnown'
  BY <1>1, <1>3 DEF Counted, LowKnown, Held
<1>10. OfferedOnce'
  <2> SUFFICES ASSUME NEW t \in mapped, NEW j \in 0 .. free_count[t] - 1,
                      NEW k \in 0 .. free_count[t] - 1, free_list'[t][j] # JUNK
               PROVE /\ <<t, free_list'[t][j]>> \notin used
                     /\ free_list'[t][j] = free_list'[t][k] => j = k
    BY <1>3 DEF OfferedOnce
  <2>1. t \in Page /\ j \in Index /\ k \in Index
    <3>1. free_count[t] \in 0 .. TOTAL - 1 /\ t \in Page
      BY <1>1, HeldFacts
    <3> QED
      BY <3>1, SlabAssumption DEF Index
  <2>2. /\ free_list'[t][j] = free_list[t][j]
        /\ free_list'[t][k] # JUNK => free_list'[t][k] = free_list[t][k]
    BY <1>5, <1>7, <2>1
  <2>3. /\ <<t, free_list[t][j]>> \notin used
        /\ free_list[t][j] = free_list[t][k] => j = k
    BY <1>1, <2>2 DEF OfferedOnce
  <2> QED
    BY <2>2, <2>3
<1>11. HeldOrOffered'
  <2> SUFFICES ASSUME NEW t \in mapped \ low
               PROVE {x \in Index : <<t, x>> \notin used}
                       = {free_list'[t][k] : k \in 0 .. free_count[t] - 1}
    BY <1>3 DEF HeldOrOffered
  <2>1. free_list'[t] = free_list[t]
    BY <1>1, <1>4, <1>7 DEF TypeOK
  <2> QED
    BY <1>1, <2>1 DEF HeldOrOffered
<1>12. Chains' <=> Chains
  BY <1>3 DEF Chains, Links, HasFree, NoFree
<1> QED
  BY <1>1, <1>3, <1>8, <1>9, <1>10, <1>11, <1>12 DEF SlabInv, ObjectInv, NoneEmpty

(* The objects of a slab that kfree keeps. *)
LEMMA KeptStep ==
  ASSUME ObjectInv, NEW o \in used, NEW s, s = o[1], NEW n, n = free_count[s] + 1, n # TOTAL,
         used' = used \ {o}, mapped' = mapped, low' = low,
         free_count' = [free_count EXCEPT ![s] = n],
         free_list' = [free_list EXCEPT ![s] = [free_list[s] EXCEPT ![n - 1] = o[2]]]
  PROVE /\ Counted' /\ LowKnown' /\ OfferedOnce' /\ HeldOrOffered'
        /\ free_list' \in [Page -> [Index -> Index \cup {JUNK}]]
<1>1. TypeOK /\ Counted /\ LowKnown /\ OfferedOnce /\ HeldOrOffered
  BY DEF ObjectInv
<1> DEFINE i == o[2]
           c == free_count[s]
<1>2. o = <<s, i>> /\ i \in Index /\ s \in mapped /\ s \in Page
  BY <1>1 DEF TypeOK, Counted
<1>3. /\ IsFiniteSet(Held(s)) /\ Cardinality(Held(s)) \in Nat /\ JUNK \notin Index
      /\ c \in 0 .. TOTAL - 1 /\ c \in Index /\ free_list[s] \in [Index -> Index \cup {JUNK}]
  BY <1>2, HeldFacts
<1>4. n \in Nat /\ c \in Nat /\ n < TOTAL /\ n - 1 = c /\ n = c + 1 /\ 0 .. n - 1 = (0 .. c - 1) \cup {c}
      /\ 0 .. n - 1 \subseteq Index /\ c \notin 0 .. c - 1
  BY <1>3, SlabAssumption, SMTT(30) DEF Index
<1>5. /\ free_count'[s] = n
      /\ \A t \in mapped : t # s => free_count'[t] = free_count[t] /\ free_list'[t] = free_list[t]
      /\ free_list'[s] = [free_list[s] EXCEPT ![c] = i]
  BY <1>1, <1>2, <1>4 DEF TypeOK
<1>6. free_list'[s][c] = i /\ \A k \in 0 .. c - 1 : free_list'[s][k] = free_list[s][k]
  <2>1. \A k \in 0 .. c - 1 : k \in Index /\ k # c
    BY <1>4
  <2> QED
    BY <1>3, <1>5, <2>1
<1>7. free_list' \in [Page -> [Index -> Index \cup {JUNK}]]
  <2>1. [free_list[s] EXCEPT ![n - 1] = o[2]] \in [Index -> Index \cup {JUNK}]
    BY <1>2, <1>3
  <2> QED
    BY <1>1, <2>1 DEF TypeOK
<1>8. /\ Held(s)' = Held(s) \ {i} /\ i \in Held(s)
      /\ \A t \in mapped : t # s => Held(t)' = Held(t)
  BY <1>2 DEF Held
<1> HIDE DEF i, c
<1>9. Counted'
  <2>1. Cardinality(Held(s)') = Cardinality(Held(s)) - 1
    BY <1>3, <1>8, FS_RemoveElement, ZenonT(60)
  <2>2. c + Cardinality(Held(s)) = TOTAL
    BY <1>1, <1>2 DEF Counted, c
  <2>3. n + Cardinality(Held(s)') = TOTAL
    BY <1>3, <1>4, <2>1, <2>2, SlabAssumption
  <2>4. \A t \in mapped : free_count[t] + Cardinality(Held(t)) = TOTAL /\ free_count[t] < TOTAL
    BY <1>1 DEF Counted
  <2>5. \A t \in mapped : free_count'[t] + Cardinality(Held(t)') = TOTAL /\ free_count'[t] < TOTAL
    BY <1>4, <1>5, <1>8, <2>3, <2>4
  <2>6. \A x \in used' : x[1] \in mapped'
    BY <1>1 DEF Counted
  <2> QED
    BY <2>5, <2>6 DEF Counted
<1>10. LowKnown'
  BY <1>1 DEF LowKnown
<1>11. \A k \in 0 .. c - 1 : free_list[s][k] # i
  <2> TAKE k \in 0 .. c - 1
  <2>1. free_list[s][k] # JUNK => <<s, free_list[s][k]>> \notin used
    BY <1>1, <1>2 DEF OfferedOnce, c
  <2> QED
    BY <1>2, <1>3, <2>1
<1>12. OfferedOnce'
  <2> SUFFICES ASSUME NEW t \in mapped, NEW j \in 0 .. free_count'[t] - 1,
                      NEW k \in 0 .. free_count'[t] - 1, free_list'[t][j] # JUNK
               PROVE /\ <<t, free_list'[t][j]>> \notin used'
                     /\ free_list'[t][j] = free_list'[t][k] => j = k
    BY DEF OfferedOnce
  <2>1. CASE t = s
    <3>1. j \in (0 .. c - 1) \cup {c} /\ k \in (0 .. c - 1) \cup {c}
      BY <1>4, <1>5, <2>1
    <3>2. CASE j = c
      BY <1>2, <1>6, <1>11, <2>1, <3>1, <3>2
    <3>3. CASE j # c
      <4>1. j \in 0 .. c - 1 /\ free_list[s][j] # JUNK /\ free_list'[s][j] = free_list[s][j]
        BY <1>6, <2>1, <3>1, <3>3
      <4>2. <<s, free_list[s][j]>> \notin used
            /\ \A l \in 0 .. c - 1 : free_list[s][j] = free_list[s][l] => j = l
        BY <1>1, <1>2, <4>1 DEF OfferedOnce, c
      <4> QED
        BY <1>6, <1>11, <2>1, <3>1, <4>1, <4>2
    <3> QED
      BY <3>2, <3>3
  <2>2. CASE t # s
    BY <1>1, <1>5, <2>2 DEF OfferedOnce
  <2> QED
    BY <2>1, <2>2
<1>13. HeldOrOffered'
  <2> SUFFICES ASSUME NEW t \in mapped \ low
               PROVE {x \in Index : <<t, x>> \notin used'}
                       = {free_list'[t][k] : k \in 0 .. free_count'[t] - 1}
    BY DEF HeldOrOffered
  <2>1. {x \in Index : <<t, x>> \notin used} = {free_list[t][k] : k \in 0 .. free_count[t] - 1}
    BY <1>1 DEF HeldOrOffered
  <2>2. CASE t = s
    <3>1. {x \in Index : <<s, x>> \notin used'} = {x \in Index : <<s, x>> \notin used} \cup {i}
      BY <1>2
    <3>2. {free_list'[s][k] : k \in 0 .. n - 1} = {free_list[s][k] : k \in 0 .. c - 1} \cup {i}
      BY <1>4, <1>6
    <3> QED
      BY <1>5, <2>1, <2>2, <3>1, <3>2 DEF c
  <2>3. CASE t # s
    BY <1>2, <1>5, <2>1, <2>3
  <2> QED
    BY <2>2, <2>3
<1> QED
  BY <1>7, <1>9, <1>10, <1>12, <1>13

(* The last object of a slab comes back: the slab goes, and nobody holds any   *)
(* of its objects. *)
LEMMA GoneStep ==
  ASSUME ObjectInv, NEW o \in used, NEW s, s = o[1], free_count[s] + 1 = TOTAL,
         used' = used \ {o}, mapped' = mapped \ {s}, low' = low \ {s},
         free_count' = [free_count EXCEPT ![s] = 0],
         free_list' = [free_list EXCEPT ![s] = [k \in Index |-> JUNK]]
  PROVE /\ Counted' /\ LowKnown' /\ OfferedOnce' /\ HeldOrOffered'
        /\ free_list' \in [Page -> [Index -> Index \cup {JUNK}]]
<1>1. TypeOK /\ Counted /\ LowKnown /\ OfferedOnce /\ HeldOrOffered
  BY DEF ObjectInv
<1> DEFINE i == o[2]
<1>2. o = <<s, i>> /\ i \in Index /\ s \in mapped /\ s \in Page
  BY <1>1 DEF TypeOK, Counted
<1>3. /\ IsFiniteSet(Held(s)) /\ Cardinality(Held(s)) \in Nat /\ free_count[s] \in 0 .. TOTAL - 1
  BY <1>2, HeldFacts
<1>4. Cardinality(Held(s)) = 1
  <2>1. free_count[s] + Cardinality(Held(s)) = TOTAL
    BY <1>1, <1>2 DEF Counted
  <2> QED
    BY <1>3, <2>1, SlabAssumption
<1>5. PICK x : Held(s) = {x}
  BY <1>3, <1>4, FS_Singleton
<1>6. i \in Held(s)
  BY <1>2 DEF Held
<1>7. \A p \in used : p[1] = s => p = o
  <2> TAKE p \in used
  <2> HAVE p[1] = s
  <2>1. p = <<s, p[2]>> /\ p[2] \in Index
    BY <1>1 DEF TypeOK
  <2>2. p[2] \in Held(s)
    BY <2>1 DEF Held
  <2> QED
    BY <1>2, <1>5, <1>6, <2>1, <2>2
<1>8. \A t \in mapped' : /\ t # s /\ t \in mapped /\ free_count'[t] = free_count[t]
                         /\ free_list'[t] = free_list[t]
  BY <1>1 DEF TypeOK
<1>9. free_list' \in [Page -> [Index -> Index \cup {JUNK}]]
  BY <1>1 DEF TypeOK
<1>10. Counted'
  <2>1. \A p \in used' : p[1] \in mapped'
    BY <1>1, <1>7 DEF Counted
  <2>2. \A t \in mapped' : Held(t)' = Held(t)
    BY <1>2, <1>8 DEF Held
  <2> QED
    BY <1>1, <1>8, <2>1, <2>2 DEF Counted
<1>11. LowKnown'
  BY <1>1, <1>7 DEF LowKnown
<1>12. OfferedOnce'
  BY <1>1, <1>8 DEF OfferedOnce
<1>13. HeldOrOffered'
  <2> SUFFICES ASSUME NEW t \in mapped', t \notin low'
               PROVE {y \in Index : <<t, y>> \notin used'}
                       = {free_list'[t][k] : k \in 0 .. free_count'[t] - 1}
    BY DEF HeldOrOffered
  <2>1. {y \in Index : <<t, y>> \notin used} = {free_list[t][k] : k \in 0 .. free_count[t] - 1}
    BY <1>1, <1>8 DEF HeldOrOffered
  <2>2. \A y \in Index : <<t, y>> \in used' <=> <<t, y>> \in used
    BY <1>2, <1>8
  <2> QED
    BY <1>8, <2>1, <2>2
<1> QED
  BY <1>9, <1>10, <1>11, <1>12, <1>13

(* kfree. *)
LEMMA FreeStep ==
  ASSUME SlabInv, kfree
  PROVE SlabInv'
<1>1. ObjectInv /\ TypeOK /\ Counted /\ (TOTAL > 1 => Chains)
  BY DEF SlabInv, ObjectInv, kfree
<1>2. PICK o \in used :
        LET s == o[1]
            n == free_count[s] + 1
            a == after_free(s, n)
        IN /\ used' = used \ {o}
           /\ full' = a.full
           /\ partial' = a.partial
           /\ Release(s, a, n, [free_list[s] EXCEPT ![n - 1] = o[2]])
           /\ UNCHANGED wild
  BY DEF kfree
<1> DEFINE s == o[1]
           n == free_count[s] + 1
           a == after_free(s, n)
           l1 == IF n = 1 THEN push(unlink(Links, s), s, partial) ELSE Links
           p1 == IF n = 1 THEN s ELSE partial
           l2 == IF n = TOTAL THEN unlink(l1, s) ELSE l1
<1>3. /\ used' = used \ {o} /\ full' = a.full /\ partial' = a.partial /\ wild' = wild
      /\ Release(s, a, n, [free_list[s] EXCEPT ![n - 1] = o[2]])
  BY <1>2
<1>4. /\ a.links = l2
      /\ a.full = IF n = 1 /\ full = s THEN unlink(Links, s).nx[s] ELSE full
      /\ a.partial = IF n = TOTAL /\ p1 = s THEN l2.nx[s] ELSE p1
  BY DEF after_free
<1> HIDE DEF a
<1>5. /\ s \in mapped /\ s \in Page /\ o[2] \in Index /\ free_count[s] \in 0 .. TOTAL - 1
      /\ mapped \subseteq Page /\ NULL \notin Page
  BY <1>1, HeldFacts, SlabAssumption DEF Counted, TypeOK
<1>6. n \in 1 .. TOTAL /\ n \in 0 .. TOTAL /\ 0 \in 0 .. TOTAL
  BY <1>5, SlabAssumption
<1>7. /\ Links \in Linked /\ Links.nx = next /\ Links.pv = prev
      /\ partial \in Page \cup {NULL} /\ full \in Page \cup {NULL}
  BY <1>1 DEF TypeOK, Links, Linked
<1>8. /\ unlink(Links, s) \in Linked /\ l1 \in Linked /\ p1 \in Page \cup {NULL}
  BY <1>5, <1>7, LinkTypes
<1> HIDE DEF l1, p1, s, n
<1>9. l2 \in Linked
  BY <1>5, <1>8, LinkTypes
<1> HIDE DEF l2
<1>10. partial' \in Page \cup {NULL} /\ full' \in Page \cup {NULL}
  BY <1>3, <1>4, <1>5, <1>7, <1>8, <1>9 DEF Linked
<1>11. CASE n = TOTAL
  <2>1. /\ mapped' = mapped \ {s} /\ low' = low \ {s}
        /\ next' = [l2.nx EXCEPT ![s] = NULL] /\ prev' = [l2.pv EXCEPT ![s] = NULL]
        /\ free_count' = [free_count EXCEPT ![s] = 0]
        /\ free_list' = [free_list EXCEPT ![s] = [k \in Index |-> JUNK]]
    BY <1>3, <1>4, <1>11 DEF Release, SetLinks
  <2>2. /\ Counted' /\ LowKnown' /\ OfferedOnce' /\ HeldOrOffered'
        /\ free_list' \in [Page -> [Index -> Index \cup {JUNK}]]
    BY <1>1, <1>3, <1>11, <2>1, GoneStep DEF s, n
  <2>3. TypeOK'
    <3>1. /\ next' \in [Page -> Page \cup {NULL}] /\ prev' \in [Page -> Page \cup {NULL}]
      BY <1>9, <2>1 DEF Linked
    <3>2. free_count' \in [Page -> 0 .. TOTAL]
      BY <1>1, <1>6, <2>1 DEF TypeOK
    <3> QED
      BY <1>1, <1>3, <1>10, <2>1, <2>2, <3>1, <3>2 DEF TypeOK
  <2>4. ASSUME TOTAL > 1 PROVE Chains'
    <3>1. n # 1 /\ free_count[s] > 0
      BY <1>5, <1>6, <1>11, <2>4, SlabAssumption DEF n
    <3>2. l1 = Links /\ p1 = partial /\ l2 = unlink(Links, s)
      BY <1>11, <3>1 DEF l1, p1, l2
    <3>3. /\ Chain(Links, partial, HasFree) /\ Chain(Links, full, NoFree) /\ s \in HasFree
          /\ HasFree \cap NoFree = {}
      BY <1>1, <1>5, <2>4, <3>1 DEF Chains, HasFree, NoFree
    <3>4. unlink(Links, s).nx[s] = Links.nx[s]
      <4>1. NULL \notin HasFree
        BY <1>5 DEF HasFree
      <4>2. Links.nx[s] # s /\ Links.pv[s] # s
        BY <3>3, <4>1, NotItself
      <4> QED
        BY <1>5, <1>7, <4>2, UnlinkIs
    <3>5. full' = full /\ partial' = HeadWithout(Links, partial, s)
      BY <1>3, <1>4, <1>11, <3>1, <3>2, <3>4 DEF HeadWithout
    <3>6. Cleared(Links', unlink(Links, s), s)
      BY <2>1, <3>2 DEF Cleared, Links
    <3>7. Chain(Links', HeadWithout(Links, partial, s), HasFree \ {s}) /\ Chain(Links', full, NoFree)
      BY <1>7, <3>3, <3>6, TakeAway
    <3>8. HasFree' = HasFree \ {s} /\ NoFree' = NoFree
      <4>1. \A t \in mapped \ {s} : free_count'[t] = free_count[t]
        BY <1>1, <2>1 DEF TypeOK
      <4> QED
        BY <2>1, <3>1, <4>1 DEF HasFree, NoFree
    <3> QED
      BY <3>5, <3>7, <3>8 DEF Chains
  <2>5. ObjectInv'
    BY <2>2, <2>3 DEF ObjectInv
  <2>6. ObjectInv' => NoneEmpty'
    BY CountedNotEmpty, PTL
  <2> QED
    BY <2>3, <2>4, <2>5, <2>6 DEF SlabInv
<1>12. CASE n # TOTAL
  <2>1. /\ next' = l2.nx /\ prev' = l2.pv /\ free_count' = [free_count EXCEPT ![s] = n]
        /\ free_list' = [free_list EXCEPT ![s] = [free_list[s] EXCEPT ![n - 1] = o[2]]]
        /\ mapped' = mapped /\ low' = low
    BY <1>3, <1>4, <1>12 DEF Release, SetLinks
  <2>2. /\ Counted' /\ LowKnown' /\ OfferedOnce' /\ HeldOrOffered'
        /\ free_list' \in [Page -> [Index -> Index \cup {JUNK}]]
    BY <1>1, <1>3, <1>12, <2>1, KeptStep DEF s, n
  <2>3. TypeOK'
    <3>1. /\ next' \in [Page -> Page \cup {NULL}] /\ prev' \in [Page -> Page \cup {NULL}]
      BY <1>9, <2>1 DEF Linked
    <3>2. free_count' \in [Page -> 0 .. TOTAL]
      BY <1>1, <1>6, <2>1 DEF TypeOK
    <3> QED
      BY <1>1, <1>3, <1>10, <2>1, <2>2, <3>1, <3>2 DEF TypeOK
  <2>4. ASSUME TOTAL > 1 PROVE Chains'
    <3>1. /\ Chain(Links, partial, HasFree) /\ Chain(Links, full, NoFree)
          /\ HasFree \cap NoFree = {}
      BY <1>1, <2>4 DEF Chains, HasFree, NoFree
    <3>2. free_count'[s] = n /\ n > 0 /\ \A t \in mapped \ {s} : free_count'[t] = free_count[t]
      BY <1>1, <1>5, <1>6, <2>1 DEF TypeOK
    <3>3. l2 = l1 /\ partial' = p1 /\ Links' = l1
      <4>1. l2 = l1 /\ partial' = p1
        BY <1>3, <1>4, <1>12 DEF l2
      <4>2. Links' = l2
        BY <1>9, <2>1 DEF Links, Linked
      <4> QED
        BY <4>1, <4>2
    <3>4. CASE n = 1
      <4>1. s \in NoFree /\ l1 = push(unlink(Links, s), s, partial) /\ p1 = s
        BY <1>5, <3>4 DEF NoFree, n, l1, p1
      <4>2. unlink(Links, s).nx[s] = Links.nx[s]
        <5>1. NULL \notin NoFree
          BY <1>5 DEF NoFree
        <5>2. Links.nx[s] # s /\ Links.pv[s] # s
          BY <3>1, <4>1, <5>1, NotItself
        <5> QED
          BY <1>5, <1>7, <5>2, UnlinkIs
      <4>3. full' = HeadWithout(Links, full, s)
        BY <1>3, <1>4, <3>4, <4>2 DEF HeadWithout
      <4>4. Chain(l1, HeadWithout(Links, full, s), NoFree \ {s}) /\ Chain(l1, s, HasFree \cup {s})
        BY <1>7, <3>1, <4>1, MoveOver
      <4>5. HasFree' = HasFree \cup {s} /\ NoFree' = NoFree \ {s}
        BY <1>5, <1>6, <2>1, <3>2 DEF HasFree, NoFree
      <4> QED
        BY <3>3, <4>1, <4>3, <4>4, <4>5 DEF Chains
    <3>5. CASE n # 1
      <4>1. l1 = Links /\ p1 = partial /\ full' = full
        BY <1>3, <1>4, <3>5 DEF l1, p1
      <4>2. free_count[s] > 0
        BY <1>5, <3>5 DEF n
      <4>3. HasFree' = HasFree /\ NoFree' = NoFree
        BY <1>5, <2>1, <3>2, <4>2 DEF HasFree, NoFree
      <4> QED
        BY <3>1, <3>3, <4>1, <4>3 DEF Chains
    <3> QED
      BY <3>4, <3>5
  <2>5. ObjectInv'
    BY <2>2, <2>3 DEF ObjectInv
  <2>6. ObjectInv' => NoneEmpty'
    BY CountedNotEmpty, PTL
  <2> QED
    BY <2>3, <2>4, <2>5, <2>6 DEF SlabInv
<1> QED
  BY <1>11, <1>12

(* The invariant of the slab cache is kept by every step. *)
LEMMA SlabStep == SlabInv /\ [Next]_vars => SlabInv'
<1> SUFFICES ASSUME SlabInv, [Next]_vars PROVE SlabInv'
  OBVIOUS
<1>1. CASE kmalloc
  BY <1>1, PartialStep, NewStep DEF kmalloc
<1>2. CASE caller_writes
  BY <1>2, WriteStep
<1>3. CASE kfree
  BY <1>3, FreeStep
<1>4. CASE UNCHANGED vars
  <2>1. /\ partial' = partial /\ full' = full /\ next' = next /\ prev' = prev
        /\ free_count' = free_count /\ free_list' = free_list /\ mapped' = mapped
        /\ used' = used /\ low' = low /\ wild' = wild
    BY <1>4 DEF vars, lists
  <2>2. TypeOK' /\ NoneEmpty'
    BY <2>1 DEF SlabInv, TypeOK, NoneEmpty
  <2>3. ObjectInv' <=> ObjectInv
    <3>1. TypeOK' <=> TypeOK
      BY <2>1 DEF TypeOK
    <3>2. Counted' <=> Counted
      BY <2>1 DEF Counted, Held
    <3>3. LowKnown' <=> LowKnown
      BY <2>1 DEF LowKnown
    <3>4. OfferedOnce' <=> OfferedOnce
      BY <2>1 DEF OfferedOnce
    <3>5. HeldOrOffered' <=> HeldOrOffered
      BY <2>1 DEF HeldOrOffered
    <3> QED
      BY <3>1, <3>2, <3>3, <3>4, <3>5 DEF ObjectInv
  <2>4. Chains' <=> Chains
    BY <2>1 DEF Chains, Links, HasFree, NoFree
  <2> QED
    BY <2>1, <2>2, <2>3, <2>4 DEF SlabInv
<1> QED
  BY <1>1, <1>2, <1>3, <1>4 DEF Next

LEMMA SlabAlways == Spec => []SlabInv
BY SlabInit, SlabStep, PTL DEF Spec

(* The lists, counters and free lists of the cache always have the values     *)
(* kmalloc and kfree give them, for any size of object and slab. *)
THEOREM SlabTypes == Spec => []TypeOK
<1>1. SlabInv => TypeOK
  BY DEF SlabInv
<1> QED
  BY <1>1, SlabAlways, PTL

(* Up to the first time kmalloc pops a word that a caller wrote, no object that *)
(* is held is offered, although free_list lies inside objects that callers      *)
(* write to (memory.c:448-452): for any size of object and slab. *)
THEOREM HandedOutOnce == Spec => []NeverTwice
<1>1. SlabInv => NeverTwice
  BY DEF SlabInv, ObjectInv, NeverTwice
<1> QED
  BY <1>1, SlabAlways, PTL

(* Up to the first time kmalloc pops a word that a caller wrote, a slab loses   *)
(* an object only if it handed out one that free_list lies in: for any size of  *)
(* object and slab. *)
THEOREM LostOnlyIfLow == Spec => []NothingLost
<1>1. SlabInv => NothingLost
  BY DEF SlabInv, ObjectInv, NothingLost
<1> QED
  BY <1>1, SlabAlways, PTL

(* With more than one object to a slab the two lists of a cache are sound: the *)
(* surgery of kmalloc and kfree keeps every slab on the list its counter names *)
(* and next and prev mirrored.  With one object to a slab it does not, which   *)
(* the run slab_2048 shows. *)
THEOREM ListsAreSound ==
  ASSUME TOTAL > 1
  PROVE Spec => []ListsSound
<1>1. SlabInv => ListsSound
  BY ChainIsList DEF SlabInv, Chains
<1> QED
  BY <1>1, SlabAlways, PTL

(* With more than one object to a slab what memory.h:63-64 says is true: no    *)
(* slab on a list is empty or unmapped.  The run slab_2048 shows that it is    *)
(* false for the one cache whose slabs hold one object. *)
THEOREM NoSlabIsEmpty ==
  ASSUME TOTAL > 1
  PROVE Spec => []NoEmptySlab
<1>1. ASSUME SlabInv PROVE NoEmptySlab
  <2>1. NoneEmpty /\ ListsSound
    BY <1>1, ChainIsList DEF SlabInv, Chains
  <2> QED
    BY <2>1 DEF NoEmptySlab, ListsSound, NoneEmpty
<1> QED
  BY <1>1, SlabAlways, PTL

-----------------------------------------------------------------------------
(* The end of the block at offset o, among the blocks bl. *)
Fin(bl, o) == o + HDR + bl[o].size

Blocks(bl) ==
  /\ bl \in [DOMAIN bl -> [size : Nat, stale : BOOLEAN]]
  /\ DOMAIN bl \subseteq Nat

(* The blocks bl fill the page block pg from its header to its unused room. *)
Tiled(pg, bl) ==
  /\ pg \in page_block_t
  /\ Blocks(bl)
  /\ pg.free_blocks \in Seq(DOMAIN bl)
  /\ PHDR <= pg.next_free_addr
  /\ \A o \in DOMAIN bl : PHDR <= o /\ o < pg.next_free_addr
  /\ \A o, p \in DOMAIN bl : o < p => Fin(bl, o) <= p
  /\ \A x : (x = PHDR \/ \E o \in DOMAIN bl : x = Fin(bl, o))
              <=> (x \in DOMAIN bl \/ x = pg.next_free_addr)
  /\ pg.next_free_addr + pg.free_size = pg.og_size

(* The free list of pg has each block once that is not one of those held, H. *)
Listed(pg, bl, H) ==
  /\ \A i, j \in DOMAIN pg.free_blocks : pg.free_blocks[i] = pg.free_blocks[j] => i = j
  /\ \A o : (\E i \in DOMAIN pg.free_blocks : pg.free_blocks[i] = o)
              <=> (o \in DOMAIN bl /\ o \notin H)
  /\ H \subseteq DOMAIN bl

-----------------------------------------------------------------------------
LEMMA HeapNumbers == PAGE \in Nat \ {0} /\ PHDR \in Nat \ {0} /\ HDR \in Nat \ {0} /\ Size \subseteq Nat
BY HeapAssumption

(* Where blocks start and end. *)
LEMMA BlockEnds ==
  ASSUME NEW bl, Blocks(bl), NEW o \in DOMAIN bl
  PROVE  /\ o \in Nat /\ bl[o].size \in Nat /\ bl[o].stale \in BOOLEAN
         /\ Fin(bl, o) \in Nat /\ Fin(bl, o) = o + HDR + bl[o].size /\ o < Fin(bl, o)
BY HeapNumbers DEF Blocks, Fin

(* The order of the natural numbers as a set of pairs. *)
LEMMA Descending == IsWellFoundedOn({ss \in Nat \X Nat : ss[1] < ss[2]}, Nat)
<1>1. OpToRel(<, Nat) = {ss \in Nat \X Nat : ss[1] < ss[2]}
  BY Zenon DEF OpToRel
<1> QED BY <1>1, NatLessThanWellFounded, Zenon

(* A nonempty set of natural numbers has a least member. *)
LEMMA LeastOf ==
  ASSUME NEW S \in SUBSET Nat, S # {}
  PROVE \E m \in S : \A x \in S : m <= x
<1> DEFINE R == {ss \in Nat \X Nat : ss[1] < ss[2]}
<1>1. \A x, y \in Nat : <<x, y>> \in R <=> x < y
  OBVIOUS
<1>2. IsWellFoundedOn(R, Nat)
  BY Descending
<1> HIDE DEF R
<1>3. PICK m \in S : \A y \in S : ~(<<y, m>> \in R)
  BY <1>2, WFMin
<1>4. ASSUME NEW y \in S PROVE m <= y
  <2>1. y \in Nat /\ m \in Nat
    OBVIOUS
  <2>2. ~(y < m)
    BY <2>1, <1>3, <1>1
  <2> QED BY <2>1, <2>2
<1> QED BY <1>4

(* f is the running total of is_page_free over the first n blocks of a list. *)
SumOf(f, n, base, w) ==
  /\ f \in [0 .. n -> Int]
  /\ f[0] = base
  /\ \A i \in 1 .. n : f[i] = f[i - 1] + w[i]

LEMMA SumThere ==
  ASSUME NEW n \in Nat, NEW base \in Int, NEW w \in [1 .. n -> Int]
  PROVE  \E f : SumOf(f, n, base, w)
<1> DEFINE Bad == {m \in 0 .. n : ~ \E f : SumOf(f, m, base, w)}
<1>1. SUFFICES ASSUME Bad # {} PROVE FALSE
  <2>1. n \in 0 .. n
    OBVIOUS
  <2> QED BY <2>1
<1>2. PICK m \in Bad : \A x \in Bad : m <= x
  <2>1. Bad \in SUBSET Nat
    OBVIOUS
  <2> HIDE DEF Bad
  <2> QED BY <2>1, <1>1, LeastOf
<1>3. m \in 0 .. n /\ ~ \E f : SumOf(f, m, base, w)
  OBVIOUS
<1>4. m # 0
  <2>1. SumOf([i \in 0 .. 0 |-> base], 0, base, w)
    BY DEF SumOf
  <2> QED BY <2>1, <1>3
<1>5. m - 1 \in 0 .. n /\ ~(m <= m - 1) /\ m \in 1 .. n
  BY <1>3, <1>4
<1>6. PICK f : SumOf(f, m - 1, base, w)
  BY <1>2, <1>5
<1> DEFINE g == [i \in 0 .. m |-> IF i = m THEN f[m - 1] + w[m] ELSE f[i]]
<1>7. SumOf(g, m, base, w)
  <2>1. f \in [0 .. m - 1 -> Int] /\ f[0] = base /\ \A i \in 1 .. m - 1 : f[i] = f[i - 1] + w[i]
    BY <1>6 DEF SumOf
  <2>2. w[m] \in Int /\ f[m - 1] \in Int
    BY <2>1, <1>5
  <2>3. g \in [0 .. m -> Int]
    BY <2>1, <2>2, <1>5
  <2>4. g[0] = base
    BY <2>1, <1>5
  <2>5. ASSUME NEW i \in 1 .. m PROVE g[i] = g[i - 1] + w[i]
    <3>1. g[i - 1] = f[i - 1]
      BY <1>5
    <3>2. CASE i = m
      BY <3>1, <3>2, <1>5
    <3>3. CASE i # m
      <4>1. i \in 1 .. m - 1 /\ g[i] = f[i]
        BY <3>3, <1>5
      <4> QED BY <4>1, <3>1, <2>1
    <3> QED BY <3>2, <3>3
  <2> HIDE DEF g
  <2> QED BY <2>3, <2>4, <2>5 DEF SumOf
<1> QED BY <1>3, <1>7

(* total_free_size is such a total. *)
LEMMA TotalIs ==
  ASSUME NEW pg, NEW bl, NEW off, Tiled(pg, bl), off \in DOMAIN bl
  PROVE  \E f : /\ SumOf(f, Len(pg.free_blocks), pg.free_size + bl[off].size + HDR + PHDR,
                         [i \in 1 .. Len(pg.free_blocks) |-> bl[pg.free_blocks[i]].size + HDR])
                /\ total_free_size(pg, bl, off) = f[Len(pg.free_blocks)]
<1> DEFINE list == pg.free_blocks
           n == Len(list)
           base == pg.free_size + bl[off].size + HDR + PHDR
           w == [i \in 1 .. n |-> bl[list[i]].size + HDR]
           Eq(f) == f = [i \in 0 .. n |-> IF i = 0 THEN pg.free_size + bl[off].size + HDR + PHDR
                                          ELSE f[i - 1] + bl[list[i]].size + HDR]
<1>1. list \in Seq(DOMAIN bl) /\ Blocks(bl) /\ pg.free_size \in Nat
  BY DEF Tiled, page_block_t
<1>2. n \in Nat /\ \A i \in 1 .. n : list[i] \in DOMAIN bl
  BY <1>1
<1>3. \A i \in 1 .. n : bl[list[i]].size \in Nat
  BY <1>1, <1>2, BlockEnds
<1>4. base \in Int
  BY <1>1, BlockEnds, HeapNumbers
<1>5. w \in [1 .. n -> Int]
  BY <1>3, HeapNumbers
<1>6. \A f : SumOf(f, n, base, w) => Eq(f)
  <2> SUFFICES ASSUME NEW f, SumOf(f, n, base, w) PROVE Eq(f)
    OBVIOUS
  <2>1. f \in [0 .. n -> Int] /\ f[0] = base /\ \A i \in 1 .. n : f[i] = f[i - 1] + w[i]
    BY DEF SumOf
  <2> HIDE DEF n, list
  <2>2. ASSUME NEW i \in 0 .. n, i # 0 PROVE f[i] = f[i - 1] + bl[list[i]].size + HDR
    <3>1. i \in 1 .. n /\ i - 1 \in 0 .. n
      BY <2>2, <1>2
    <3>2. f[i] = f[i - 1] + (bl[list[i]].size + HDR) /\ f[i - 1] \in Int
      BY <3>1, <2>1
    <3>3. bl[list[i]].size \in Nat
      BY <3>1, <1>3
    <3> QED BY <3>2, <3>3, HeapNumbers
  <2> QED BY <2>1, <2>2
<1>7. PICK g : SumOf(g, n, base, w)
  BY <1>2, <1>4, <1>5, SumThere
<1>a. ASSUME NEW f, Eq(f)
      PROVE  /\ DOMAIN f = 0 .. n /\ f[0] = base /\ f = [i \in 0 .. n |-> f[i]]
             /\ \A i \in 0 .. n : i # 0 => f[i] = f[i - 1] + bl[list[i]].size + HDR
  <2> DEFINE e == [i \in 0 .. n |-> IF i = 0 THEN pg.free_size + bl[off].size + HDR + PHDR
                                    ELSE f[i - 1] + bl[list[i]].size + HDR]
  <2> HIDE DEF n, list
  <2>1. /\ DOMAIN e = 0 .. n /\ e[0] = base /\ e = [i \in 0 .. n |-> e[i]]
        /\ \A i \in 0 .. n : i # 0 => e[i] = f[i - 1] + bl[list[i]].size + HDR
    BY <1>2
  <2>2. f = e
    BY <1>a, Zenon
  <2> HIDE DEF e
  <2> QED BY <2>1, <2>2, Zenon
<1>8. \A f : Eq(f) => f = g
  <2> SUFFICES ASSUME NEW f, Eq(f) PROVE f = g
    OBVIOUS
  <2> DEFINE Bad == {i \in 0 .. n : f[i] # g[i]}
  <2>1. Eq(g)
    BY <1>6, <1>7
  <2> HIDE DEF Eq, n, list
  <2>2. /\ f[0] = g[0]
        /\ \A i \in 0 .. n : i # 0 => /\ f[i] = f[i - 1] + bl[list[i]].size + HDR
                                      /\ g[i] = g[i - 1] + bl[list[i]].size + HDR
    BY <2>1, <1>a, Zenon
  <2>3. f = [i \in 0 .. n |-> f[i]] /\ g = [i \in 0 .. n |-> g[i]]
    BY <2>1, <1>a, Zenon
  <2>4. Bad \in SUBSET Nat
    BY <1>2
  <2>5. ASSUME NEW m \in Bad, \A x \in Bad : m <= x PROVE FALSE
    <3>1. m \in 0 .. n /\ f[m] # g[m]
      OBVIOUS
    <3>2. m # 0
      BY <3>1, <2>2
    <3>3. m - 1 \in 0 .. n /\ ~(m <= m - 1)
      BY <3>1, <3>2, <1>2
    <3>4. f[m - 1] = g[m - 1]
      BY <3>3, <2>5
    <3> QED BY <3>1, <3>2, <3>4, <2>2
  <2> HIDE DEF Bad
  <2>6. Bad = {}
    BY <2>4, <2>5, LeastOf
  <2>7. \A i \in 0 .. n : f[i] = g[i]
    BY <2>6 DEF Bad
  <2> QED BY <2>3, <2>7
<1>9. total_free_size(pg, bl, off) = (CHOOSE f : Eq(f))[n]
  BY DEF total_free_size
<1> HIDE DEF Eq
<1>10. (CHOOSE f : Eq(f)) = g
  BY <1>6, <1>7, <1>8
<1> QED BY <1>7, <1>9, <1>10
-----------------------------------------------------------------------------
(* The units of the block at offset o. *)
Units(bl, o) == o .. Fin(bl, o) - 1

LEMMA UnitsCount ==
  ASSUME NEW bl, Blocks(bl), NEW o \in DOMAIN bl
  PROVE  IsFiniteSet(Units(bl, o)) /\ Cardinality(Units(bl, o)) = bl[o].size + HDR
<1>1. o \in Nat /\ Fin(bl, o) \in Nat /\ o < Fin(bl, o) /\ Fin(bl, o) = o + HDR + bl[o].size /\ bl[o].size \in Nat
  BY BlockEnds
<1>2. o \in Int /\ Fin(bl, o) - 1 \in Int
  BY <1>1
<1>3. /\ IsFiniteSet(o .. Fin(bl, o) - 1)
      /\ Cardinality(o .. Fin(bl, o) - 1) = IF o > Fin(bl, o) - 1 THEN 0 ELSE Fin(bl, o) - 1 - o + 1
  BY <1>2, FS_Interval
<1>4. Cardinality(o .. Fin(bl, o) - 1) = bl[o].size + HDR
  BY <1>1, <1>3, HeapNumbers
<1> QED BY <1>3, <1>4 DEF Units

(* Two blocks share nothing. *)
LEMMA UnitsApart ==
  ASSUME NEW pg, NEW bl, Tiled(pg, bl), NEW o \in DOMAIN bl, NEW p \in DOMAIN bl, o # p
  PROVE  Units(bl, o) \cap Units(bl, p) = {}
<1>1. Blocks(bl) /\ \A x, y \in DOMAIN bl : x < y => Fin(bl, x) <= y
  BY DEF Tiled
<1>2. o \in Nat /\ p \in Nat /\ Fin(bl, o) \in Nat /\ Fin(bl, p) \in Nat
  BY <1>1, BlockEnds
<1>3. Fin(bl, o) <= p \/ Fin(bl, p) <= o
  BY <1>1, <1>2
<1> QED BY <1>2, <1>3 DEF Units

(* Every unit between the header and the unused room lies in a block. *)
LEMMA UnitsCover ==
  ASSUME NEW pg, NEW bl, Tiled(pg, bl), NEW x \in PHDR .. pg.next_free_addr - 1
  PROVE  \E o \in DOMAIN bl : x \in Units(bl, o)
<1> DEFINE S == {y \in Nat : x < y /\ (y \in DOMAIN bl \/ y = pg.next_free_addr)}
<1>1. /\ Blocks(bl) /\ DOMAIN bl \subseteq Nat /\ pg.next_free_addr \in Nat
      /\ \A y : (y = PHDR \/ \E o \in DOMAIN bl : y = Fin(bl, o))
                  <=> (y \in DOMAIN bl \/ y = pg.next_free_addr)
  BY DEF Tiled, Blocks, page_block_t
<1>2. x \in Nat /\ PHDR <= x /\ x < pg.next_free_addr
  BY <1>1, HeapNumbers
<1>3. S \in SUBSET Nat /\ S # {}
  BY <1>1, <1>2
<1>4. PICK y \in S : \A z \in S : y <= z
  <2> HIDE DEF S
  <2> QED BY <1>3, LeastOf
<1>5. y \in Nat /\ x < y /\ y # PHDR
  BY <1>2, HeapNumbers
<1>6. PICK o \in DOMAIN bl : y = Fin(bl, o)
  BY <1>1, <1>5
<1>7. o \in Nat /\ o < y
  BY <1>1, <1>6, BlockEnds
<1>8. o <= x
  <2>1. ASSUME x < o PROVE FALSE
    <3>1. o \in S
      BY <2>1, <1>7
    <3> QED BY <3>1, <1>4, <1>5, <1>7
  <2> QED BY <2>1, <1>2, <1>7
<1>9. x \in Units(bl, o)
  BY <1>2, <1>5, <1>6, <1>7, <1>8 DEF Units
<1> QED BY <1>9

(* The units of the blocks L(j), j up to i, and of the one at off. *)
Summed(bl, off, list, i) == Units(bl, off) \cup UNION {Units(bl, list[j]) : j \in 1 .. i}

(* The total counts the units of the free blocks and of the one being freed. *)
LEMMA TotalCounts ==
  ASSUME NEW pg, NEW bl, NEW H, Tiled(pg, bl), Listed(pg, bl, H), NEW off \in H
  PROVE  LET U == Summed(bl, off, pg.free_blocks, Len(pg.free_blocks))
         IN IsFiniteSet(U) /\ total_free_size(pg, bl, off) = pg.free_size + PHDR + Cardinality(U)
<1> DEFINE list == pg.free_blocks
           n == Len(list)
           w == [i \in 1 .. n |-> bl[list[i]].size + HDR]
           U(i) == Summed(bl, off, list, i)
           base == pg.free_size + bl[off].size + HDR + PHDR
<1>1. list \in Seq(DOMAIN bl) /\ Blocks(bl) /\ pg.free_size \in Nat
  BY DEF Tiled, page_block_t
<1>2. n \in Nat /\ DOMAIN list = 1 .. n /\ \A i \in 1 .. n : list[i] \in DOMAIN bl
  BY <1>1
<1>3. /\ \A i, j \in 1 .. n : list[i] = list[j] => i = j
      /\ \A i \in 1 .. n : list[i] # off
      /\ off \in DOMAIN bl
  BY <1>2 DEF Listed
<1>4. PICK f : SumOf(f, n, base, w) /\ total_free_size(pg, bl, off) = f[n]
  BY <1>3, TotalIs
<1> HIDE DEF list, n
<1>5. f[0] = base /\ \A i \in 1 .. n : f[i] = f[i - 1] + (bl[list[i]].size + HDR)
  BY <1>4 DEF SumOf
<1> DEFINE Good(i) == IsFiniteSet(U(i)) /\ f[i] = pg.free_size + PHDR + Cardinality(U(i))
           Bad == {i \in 0 .. n : ~Good(i)}
<1>6. bl[off].size \in Nat /\ \A i \in 1 .. n : bl[list[i]].size \in Nat
  BY <1>1, <1>2, <1>3, BlockEnds
<1>7. Good(0)
  <2>1. U(0) = Units(bl, off)
    BY DEF Summed
  <2>2. IsFiniteSet(Units(bl, off)) /\ Cardinality(Units(bl, off)) = bl[off].size + HDR
    BY <1>1, <1>3, UnitsCount
  <2>3. f[0] = pg.free_size + PHDR + (bl[off].size + HDR)
    BY <1>1, <1>5, <1>6, HeapNumbers
  <2> QED BY <2>1, <2>2, <2>3
<1>8. ASSUME NEW i \in 1 .. n, Good(i - 1) PROVE Good(i)
  <2> DEFINE B == Units(bl, list[i])
             V == U(i - 1)
  <2>1. i \in Nat /\ i - 1 \in Nat
    BY <1>2
  <2>2. 1 .. i = (1 .. i - 1) \cup {i}
    BY <2>1
  <2>3. U(i) = V \cup B
    BY <2>2, Zenon DEF Summed
  <2>4. V \cap B = {}
    <3>1. SUFFICES ASSUME NEW x \in V, x \in B PROVE FALSE
      OBVIOUS
    <3>2. PICK o \in DOMAIN bl : o # list[i] /\ x \in Units(bl, o)
      <4>1. CASE x \in Units(bl, off)
        BY <4>1, <1>3
      <4>2. CASE x \notin Units(bl, off)
        <5>1. PICK j \in 1 .. i - 1 : x \in Units(bl, list[j])
          BY <4>2, <3>1 DEF Summed
        <5>2. j \in 1 .. n /\ j # i
          BY <2>1, <1>2
        <5> QED BY <5>1, <5>2, <1>2, <1>3
      <4> QED BY <4>1, <4>2
    <3>3. Units(bl, o) \cap B = {}
      BY <3>2, <1>2, UnitsApart
    <3> QED BY <3>1, <3>2, <3>3
  <2>5. IsFiniteSet(B) /\ Cardinality(B) = bl[list[i]].size + HDR
    BY <1>1, <1>2, UnitsCount
  <2>6. IsFiniteSet(V) /\ f[i - 1] = pg.free_size + PHDR + Cardinality(V)
    BY <1>8
  <2> HIDE DEF B, V
  <2>7. /\ IsFiniteSet(V \cup B) /\ Cardinality(V \cup B) = Cardinality(V) + Cardinality(B) - Cardinality(V \cap B)
        /\ Cardinality(V) \in Nat /\ Cardinality(V \cap B) = 0
    BY <2>4, <2>5, <2>6, FS_Union, FS_CardinalityType, FS_EmptySet
  <2>8. f[i] = f[i - 1] + (bl[list[i]].size + HDR)
    BY <1>5
  <2>9. f[i] = pg.free_size + PHDR + Cardinality(V \cup B)
    <3>1. bl[list[i]].size \in Nat /\ pg.free_size \in Nat /\ Cardinality(V) \in Nat
      BY <2>7, <1>1, <1>6
    <3>2. Cardinality(V \cup B) = Cardinality(V) + (bl[list[i]].size + HDR) - 0
      BY <2>5, <2>7, Zenon
    <3>3. f[i] = pg.free_size + PHDR + Cardinality(V) + (bl[list[i]].size + HDR)
      BY <2>6, <2>8, Zenon
    <3> QED BY <3>1, <3>2, <3>3, HeapNumbers
  <2> HIDE DEF U
  <2> QED BY <2>3, <2>7, <2>9
<1> HIDE DEF Good
<1>9. Bad \in SUBSET Nat
  BY <1>2
<1>10. ASSUME NEW m \in Bad, \A x \in Bad : m <= x PROVE FALSE
  <2>1. m \in 0 .. n /\ ~Good(m)
    OBVIOUS
  <2>2. m # 0
    BY <2>1, <1>7
  <2>3. m \in 1 .. n /\ m - 1 \in 0 .. n /\ ~(m <= m - 1)
    BY <2>1, <2>2, <1>2
  <2>4. Good(m - 1)
    BY <2>3, <1>10
  <2> QED BY <2>1, <2>3, <2>4, <1>8
<1>11. Good(n)
  <2>1. n \in 0 .. n
    BY <1>2
  <2>2. n \in Bad <=> ~Good(n)
    BY <2>1
  <2> HIDE DEF Bad
  <2> QED BY <2>2, <1>9, <1>10, LeastOf
<1> QED BY <1>4, <1>11 DEF Good, n, list

(* The total is the size of the page block just when nothing else is held. *)
LEMMA FullIff ==
  ASSUME NEW pg, NEW bl, NEW H, Tiled(pg, bl), Listed(pg, bl, H), NEW off \in H
  PROVE  total_free_size(pg, bl, off) = pg.og_size <=> H = {off}
<1> DEFINE list == pg.free_blocks
           n == Len(list)
           U == Summed(bl, off, list, n)
           A == PHDR .. pg.next_free_addr - 1
<1>1. /\ list \in Seq(DOMAIN bl) /\ Blocks(bl) /\ pg.free_size \in Nat
      /\ pg.next_free_addr \in Nat /\ PHDR <= pg.next_free_addr
      /\ \A o \in DOMAIN bl : PHDR <= o /\ o < pg.next_free_addr
      /\ pg.next_free_addr + pg.free_size = pg.og_size
  BY DEF Tiled, page_block_t
<1>2. n \in Nat /\ DOMAIN list = 1 .. n
  BY <1>1
<1>3. /\ \A o : (\E i \in 1 .. n : list[i] = o) <=> (o \in DOMAIN bl /\ o \notin H)
      /\ H \subseteq DOMAIN bl
  BY <1>2 DEF Listed
<1>4. IsFiniteSet(U) /\ total_free_size(pg, bl, off) = pg.free_size + PHDR + Cardinality(U)
  BY TotalCounts
<1> HIDE DEF list, n
<1>5. \A x : x \in U <=> \E o \in DOMAIN bl : x \in Units(bl, o) /\ (o = off \/ o \notin H)
  <2>1. \A x : x \in U <=> x \in Units(bl, off) \/ \E j \in 1 .. n : x \in Units(bl, list[j])
    BY DEF Summed
  <2> HIDE DEF U
  <2> QED BY <2>1, <1>3
<1> HIDE DEF U
<1>6. \A o \in DOMAIN bl : Units(bl, o) \subseteq A
  <2> SUFFICES ASSUME NEW o \in DOMAIN bl PROVE Units(bl, o) \subseteq A
    OBVIOUS
  <2>1. o \in Nat /\ Fin(bl, o) \in Nat /\ PHDR <= o /\ o < pg.next_free_addr
    BY <1>1, BlockEnds
  <2>2. Fin(bl, o) \in DOMAIN bl \/ Fin(bl, o) = pg.next_free_addr
    BY DEF Tiled
  <2>3. Fin(bl, o) <= pg.next_free_addr
    BY <2>1, <2>2, <1>1
  <2> QED BY <2>1, <2>3, <1>1, HeapNumbers DEF Units
<1>7. IsFiniteSet(A) /\ Cardinality(A) = pg.next_free_addr - PHDR
  <2>1. PHDR \in Int /\ pg.next_free_addr - 1 \in Int
    BY <1>1, HeapNumbers
  <2>2. /\ IsFiniteSet(A)
        /\ Cardinality(A) = IF PHDR > pg.next_free_addr - 1 THEN 0 ELSE pg.next_free_addr - 1 - PHDR + 1
    BY <2>1, FS_Interval
  <2> QED BY <2>2, <1>1, HeapNumbers
<1>8. U \subseteq A
  BY <1>5, <1>6
<1>9. Cardinality(U) \in Nat
  BY <1>4, FS_CardinalityType
<1>10. total_free_size(pg, bl, off) = pg.og_size <=> Cardinality(U) = Cardinality(A)
  BY <1>1, <1>4, <1>7, <1>9, HeapNumbers, SMTT(30)
<1>11. Cardinality(U) = Cardinality(A) <=> U = A
  BY <1>7, <1>8, FS_Subset
<1>12. ASSUME H = {off} PROVE U = A
  <2>1. ASSUME NEW x \in A PROVE x \in U
    <3>1. PICK o \in DOMAIN bl : x \in Units(bl, o)
      BY <2>1, UnitsCover
    <3> QED BY <3>1, <1>5, <1>12
  <2> QED BY <2>1, <1>8
<1>13. ASSUME U = A, NEW h \in H, h # off PROVE FALSE
  <2>1. h \in DOMAIN bl /\ h \in Nat /\ h < Fin(bl, h) /\ Fin(bl, h) \in Nat
    BY <1>1, <1>3, BlockEnds
  <2>2. h \in Units(bl, h)
    BY <2>1 DEF Units
  <2>3. h \in U
    BY <2>1, <2>2, <1>6, <1>13
  <2>4. PICK o \in DOMAIN bl : h \in Units(bl, o) /\ (o = off \/ o \notin H)
    BY <2>3, <1>5
  <2>5. o # h
    BY <2>4, <1>13
  <2>6. Units(bl, o) \cap Units(bl, h) = {}
    BY <2>1, <2>4, <2>5, UnitsApart
  <2> QED BY <2>2, <2>4, <2>6
<1> QED BY <1>10, <1>11, <1>12, <1>13
-----------------------------------------------------------------------------
(* A page block, its blocks, and those of them that are held. *)
AreaSound(pg, bl, H) == Tiled(pg, bl) /\ Listed(pg, bl, H)

(* The blocks H keep their place and size. *)
Keeps(bl, bm, H) == \A o \in H : o \in DOMAIN bm /\ bm[o].size = bl[o].size

(* The page block pm with the blocks bm is sound, with a block of that size at *)
(* off added to those held, H. *)
Given(bl, pm, bm, H, off, size) ==
  /\ AreaSound(pm, bm, H \cup {off}) /\ Keeps(bl, bm, H)
  /\ off \notin H /\ off \in DOMAIN bm /\ bm[off].size = size

(* bm is bl with a block of that size at offset off. *)
Grown(bl, bm, off, size) ==
  /\ Blocks(bm) /\ DOMAIN bm = DOMAIN bl \cup {off}
  /\ bm[off].size = size /\ Fin(bm, off) = off + HDR + size
  /\ \A o \in DOMAIN bl : o # off => bm[o].size = bl[o].size /\ Fin(bm, o) = Fin(bl, o)

LEMMA WithBlockIs ==
  ASSUME NEW bl, Blocks(bl), NEW off \in Nat, NEW size \in Nat
  PROVE  Grown(bl, WithBlock(bl, off, size), off, size)
<1> DEFINE bm == WithBlock(bl, off, size)
<1>1. DOMAIN bl \subseteq Nat /\ bl \in [DOMAIN bl -> [size : Nat, stale : BOOLEAN]]
  BY DEF Blocks
<1>2. DOMAIN bm = DOMAIN bl \cup {off} /\ bm = [o \in DOMAIN bm |-> bm[o]]
  BY DEF WithBlock
<1>3. bm[off] = [size |-> size, stale |-> FALSE]
  BY DEF WithBlock
<1>4. \A o \in DOMAIN bl : o # off => bm[o] = bl[o]
  BY DEF WithBlock
<1>5. \A o \in DOMAIN bm : bm[o] \in [size : Nat, stale : BOOLEAN]
  <2>1. bm[off] \in [size : Nat, stale : BOOLEAN]
    BY <1>3
  <2>2. \A o \in DOMAIN bl : o # off => bm[o] \in [size : Nat, stale : BOOLEAN]
    BY <1>1, <1>4
  <2> QED BY <2>1, <2>2, <1>2, Zenon
<1>6. bm \in [DOMAIN bm -> [size : Nat, stale : BOOLEAN]]
  BY <1>2, <1>5, Zenon
<1>7. Blocks(bm)
  BY <1>1, <1>2, <1>6 DEF Blocks
<1>8. bm[off].size = size
  BY <1>3
<1> HIDE DEF bm
<1>9. Grown(bl, bm, off, size)
  BY <1>2, <1>4, <1>7, <1>8 DEF Fin, Grown
<1> QED BY <1>9 DEF bm

(* The places of a free list. *)
LEMMA ListIs ==
  ASSUME NEW pg, NEW bl, Tiled(pg, bl)
  PROVE  /\ pg.free_blocks \in Seq(Nat) /\ pg.free_blocks \in Seq(DOMAIN bl)
         /\ Len(pg.free_blocks) \in Nat /\ DOMAIN pg.free_blocks = 1 .. Len(pg.free_blocks)
         /\ \A i \in DOMAIN pg.free_blocks : pg.free_blocks[i] \in DOMAIN bl
BY DEF Tiled, page_block_t

(* pm and bm are pg and bl with a block of that size at off, in the unused     *)
(* room. *)
Opened(pg, bl, size, off, pm, bm) ==
  /\ off = pg.next_free_addr
  /\ pm = TakeRoom(pg, size + HDR)
  /\ bm = WithBlock(bl, off, size)

(* A block in the unused room. *)
LEMMA FreshArea ==
  ASSUME NEW pg, NEW bl, NEW H, AreaSound(pg, bl, H), NEW size \in Nat, pg.free_size >= size + HDR,
         NEW off, NEW pm, NEW bm, Opened(pg, bl, size, off, pm, bm)
  PROVE  Given(bl, pm, bm, H, off, size)
<1> DEFINE x == pg.next_free_addr
           list == pg.free_blocks
<1>1. Tiled(pg, bl) /\ Listed(pg, bl, H)
  BY DEF AreaSound
<1>2. /\ pg \in page_block_t /\ Blocks(bl) /\ x \in Nat /\ PHDR <= x
      /\ pg.free_size \in Nat /\ pg.og_size \in Nat /\ list \in Seq(Nat)
      /\ list \in Seq(DOMAIN bl)
      /\ \A o \in DOMAIN bl : PHDR <= o /\ o < x
      /\ \A o, p \in DOMAIN bl : o < p => Fin(bl, o) <= p
      /\ x + pg.free_size = pg.og_size
  BY <1>1 DEF Tiled, page_block_t
<1>3. \A y : (y = PHDR \/ \E o \in DOMAIN bl : y = Fin(bl, o)) <=> (y \in DOMAIN bl \/ y = x)
  BY <1>1 DEF Tiled
<1>4. /\ pm = [og_size |-> pg.og_size, free_size |-> pg.free_size - (size + HDR),
               next_free_addr |-> x + (size + HDR), free_blocks |-> list]
  BY <1>2 DEF TakeRoom, page_block_t, Opened
<1>5. /\ pm.og_size = pg.og_size /\ pm.free_size = pg.free_size - (size + HDR)
      /\ pm.next_free_addr = x + (size + HDR) /\ pm.free_blocks = list
  BY <1>4
<1>6. pg.free_size - (size + HDR) \in Nat /\ x + (size + HDR) \in Nat
  BY <1>2, HeapNumbers
<1>7. pm \in page_block_t
  BY <1>2, <1>4, <1>6 DEF page_block_t
<1>a. Grown(bl, bm, x, size) /\ off = x
  BY <1>2, WithBlockIs DEF Opened
<1> HIDE DEF x, list
<1>8. /\ Blocks(bm) /\ DOMAIN bm = DOMAIN bl \cup {x}
      /\ bm[x].size = size /\ Fin(bm, x) = x + HDR + size
      /\ \A o \in DOMAIN bl : o # x => bm[o].size = bl[o].size /\ Fin(bm, o) = Fin(bl, o)
  BY <1>a DEF Grown
<1>9. \A o \in DOMAIN bl : o \in Nat /\ o # x /\ Fin(bl, o) \in Nat /\ Fin(bm, o) = Fin(bl, o) /\ Fin(bl, o) <= x
  <2> SUFFICES ASSUME NEW o \in DOMAIN bl
               PROVE  o \in Nat /\ o # x /\ Fin(bl, o) \in Nat /\ Fin(bm, o) = Fin(bl, o) /\ Fin(bl, o) <= x
    OBVIOUS
  <2>1. o \in Nat /\ o < x /\ Fin(bl, o) \in Nat
    BY <1>2, BlockEnds
  <2>2. Fin(bl, o) \in DOMAIN bl \/ Fin(bl, o) = x
    BY <1>3
  <2>3. Fin(bl, o) <= x
    BY <2>1, <2>2, <1>2
  <2> QED BY <2>1, <2>3, <1>2, <1>8
<1>10. x \notin DOMAIN bl /\ x + HDR + size = x + (size + HDR)
  BY <1>2, <1>9, HeapNumbers
<1>11. Tiled(pm, bm)
  <2>1. pm.free_blocks \in Seq(DOMAIN bm)
    BY <1>2, <1>5, <1>8
  <2>2. PHDR <= pm.next_free_addr
    BY <1>2, <1>5, HeapNumbers
  <2>3. \A o \in DOMAIN bm : PHDR <= o /\ o < pm.next_free_addr
    BY <1>2, <1>5, <1>8, <1>9, HeapNumbers
  <2>4. \A o, p \in DOMAIN bm : o < p => Fin(bm, o) <= p
    BY <1>2, <1>8, <1>9
  <2>5. \A y : (y = PHDR \/ \E o \in DOMAIN bm : y = Fin(bm, o))
                 <=> (y \in DOMAIN bm \/ y = pm.next_free_addr)
    <3>1. \A y : (\E o \in DOMAIN bm : y = Fin(bm, o))
                   <=> (y = pm.next_free_addr \/ \E o \in DOMAIN bl : y = Fin(bl, o))
      BY <1>5, <1>8, <1>9, <1>10
    <3> QED BY <3>1, <1>3, <1>8
  <2>6. pm.next_free_addr + pm.free_size = pm.og_size
    BY <1>2, <1>5, HeapNumbers
  <2> QED BY <2>1, <2>2, <2>3, <2>4, <2>5, <2>6, <1>7, <1>8 DEF Tiled
<1>12. H \subseteq DOMAIN bl
  BY <1>1 DEF Listed
<1>13. Listed(pm, bm, H \cup {x})
  BY <1>1, <1>5, <1>8, <1>10, <1>12 DEF Listed, list
<1>14. Keeps(bl, bm, H)
  BY <1>8, <1>10, <1>12 DEF Keeps
<1> QED BY <1>a, <1>8, <1>10, <1>11, <1>12, <1>13, <1>14 DEF AreaSound, Given

(* A page block that was just mapped. *)
LEMMA NewArea ==
  ASSUME NEW n \in Nat, PHDR <= n, NEW pg, pg = NewPage(n)
  PROVE  AreaSound(pg, <<>>, {}) /\ pg.free_size >= n - PHDR /\ pg.free_blocks = <<>>
<1> DEFINE b == n + PAGE - 1
           q == pages_required(n)
           og == PAGE * q
<1>1. b \in Nat /\ b \div PAGE = q
  BY HeapNumbers DEF pages_required
<1>2. b = PAGE * (b \div PAGE) + (b % PAGE) /\ b \div PAGE \in Nat /\ b % PAGE \in 0 .. PAGE - 1
  BY <1>1, HeapNumbers
<1>3. q \in Nat /\ og \in Nat /\ og + (b % PAGE) = b /\ b % PAGE \in 0 .. PAGE - 1
  BY <1>1, <1>2, HeapNumbers
<1> HIDE DEF q
<1>4. og >= n
  BY <1>3, HeapNumbers
<1>5. pg = [og_size |-> og, free_size |-> og - PHDR, next_free_addr |-> PHDR, free_blocks |-> <<>>]
  BY DEF NewPage, q
<1> HIDE DEF og
<1>6. og - PHDR \in Nat /\ og - PHDR >= n - PHDR /\ PHDR + (og - PHDR) = og
  BY <1>3, <1>4, HeapNumbers
<1>7. /\ pg.og_size = og /\ pg.free_size = og - PHDR /\ pg.next_free_addr = PHDR
      /\ pg.free_blocks = <<>>
  BY <1>5
<1>8. pg \in page_block_t
  <2>1. <<>> \in Seq(Nat) /\ og \in Nat /\ og - PHDR \in Nat /\ PHDR \in Nat
    BY <1>3, <1>6, HeapNumbers
  <2> HIDE DEF b
  <2> QED BY <2>1, <1>5 DEF page_block_t
<1>9. DOMAIN <<>> = {} /\ <<>> \in Seq({})
  OBVIOUS
<1>10. Blocks(<<>>)
  BY <1>9 DEF Blocks
<1>11. Tiled(pg, <<>>)
  <2>1. PHDR <= PHDR
    BY HeapNumbers
  <2> QED BY <2>1, <1>6, <1>7, <1>8, <1>9, <1>10 DEF Tiled
<1>12. Listed(pg, <<>>, {})
  BY <1>7, <1>9 DEF Listed
<1> QED BY <1>6, <1>7, <1>11, <1>12 DEF AreaSound
(* A free block is cut in two. *)
Cut(pg, bl, i, size, off, rest, left, pm, bm) ==
  /\ off = pg.free_blocks[i]
  /\ rest = off + size + HDR
  /\ left = bl[off].size - (size + HDR) /\ left >= 0
  /\ pm = [pg EXCEPT !.free_blocks[i] = rest]
  /\ bm = WithBlock(WithBlock(bl, rest, left), off, size)

LEMMA SplitArea ==
  ASSUME NEW pg, NEW bl, NEW H, AreaSound(pg, bl, H), NEW size \in Nat,
         NEW i \in DOMAIN pg.free_blocks, NEW off, NEW rest, NEW left, NEW pm, NEW bm,
         Cut(pg, bl, i, size, off, rest, left, pm, bm)
  PROVE  Given(bl, pm, bm, H, off, size)
<1> DEFINE x == pg.next_free_addr
           list == pg.free_blocks
           n == Len(list)
           new == [list EXCEPT ![i] = rest]
           bk == WithBlock(bl, rest, left)
<1>1. Tiled(pg, bl) /\ Listed(pg, bl, H)
  BY DEF AreaSound
<1>2. /\ pg \in page_block_t /\ Blocks(bl) /\ x \in Nat /\ PHDR <= x
      /\ pg.free_size \in Nat /\ pg.og_size \in Nat
      /\ \A o \in DOMAIN bl : PHDR <= o /\ o < x
      /\ \A o, p \in DOMAIN bl : o < p => Fin(bl, o) <= p
      /\ x + pg.free_size = pg.og_size
  BY <1>1 DEF Tiled, page_block_t
<1>3. \A y : (y = PHDR \/ \E o \in DOMAIN bl : y = Fin(bl, o)) <=> (y \in DOMAIN bl \/ y = x)
  BY <1>1 DEF Tiled
<1>4. /\ list \in Seq(Nat) /\ list \in Seq(DOMAIN bl) /\ n \in Nat /\ DOMAIN list = 1 .. n
      /\ off \in DOMAIN bl /\ off = list[i] /\ i \in 1 .. n
  BY <1>1, ListIs DEF Cut
<1>b. rest = off + size + HDR /\ left = bl[off].size - (size + HDR) /\ left >= 0
  BY DEF Cut
<1>5. /\ off \in Nat /\ bl[off].size \in Nat /\ Fin(bl, off) \in Nat
      /\ Fin(bl, off) = off + HDR + bl[off].size
  BY <1>2, <1>4, BlockEnds
<1>6. left \in Nat /\ rest \in Nat /\ off < rest /\ rest < Fin(bl, off) /\ rest + HDR + left = Fin(bl, off)
  BY <1>5, <1>b, HeapNumbers
<1>7. \A o \in DOMAIN bl : o \in Nat /\ Fin(bl, o) \in Nat /\ o < Fin(bl, o)
  BY <1>2, BlockEnds
<1>8. rest \notin DOMAIN bl
  <2>1. ASSUME rest \in DOMAIN bl PROVE FALSE
    <3>1. Fin(bl, off) <= rest
      BY <2>1, <1>2, <1>4, <1>6
    <3> QED BY <3>1, <1>5, <1>6
  <2> QED BY <2>1
<1>9. pm = [og_size |-> pg.og_size, free_size |-> pg.free_size, next_free_addr |-> x, free_blocks |-> new]
  BY <1>2 DEF page_block_t, Cut
<1>10. /\ pm.og_size = pg.og_size /\ pm.free_size = pg.free_size
       /\ pm.next_free_addr = x /\ pm.free_blocks = new
  BY <1>9
<1>11. /\ new \in Seq(Nat) /\ Len(new) = n /\ DOMAIN new = 1 .. n
       /\ new[i] = rest /\ \A j \in 1 .. n : j # i => new[j] = list[j]
  BY <1>4, <1>6
<1> HIDE DEF new
<1>c. x \in Nat
  BY <1>2
<1> HIDE DEF x, list, n
<1>12. pm \in page_block_t
  BY <1>2, <1>c, <1>9, <1>11 DEF page_block_t
<1>13. /\ Blocks(bk) /\ DOMAIN bk = DOMAIN bl \cup {rest}
       /\ bk[rest].size = left /\ Fin(bk, rest) = rest + HDR + left
       /\ \A o \in DOMAIN bl : o # rest => bk[o].size = bl[o].size /\ Fin(bk, o) = Fin(bl, o)
  <2>1. Grown(bl, bk, rest, left)
    BY <1>2, <1>6, WithBlockIs
  <2> QED BY <2>1 DEF Grown
<1>14. bm = WithBlock(bk, off, size)
  BY DEF Cut
<1> HIDE DEF bk
<1>15. /\ Blocks(bm) /\ DOMAIN bm = DOMAIN bk \cup {off}
       /\ bm[off].size = size /\ Fin(bm, off) = off + HDR + size
       /\ \A o \in DOMAIN bk : o # off => bm[o].size = bk[o].size /\ Fin(bm, o) = Fin(bk, o)
  <2>1. Grown(bk, bm, off, size)
    BY <1>5, <1>13, <1>14, WithBlockIs
  <2> QED BY <2>1 DEF Grown
<1>16. /\ DOMAIN bm = DOMAIN bl \cup {rest} /\ Fin(bm, off) = rest /\ Fin(bm, rest) = Fin(bl, off)
       /\ \A o \in DOMAIN bl : o # off => bm[o].size = bl[o].size /\ Fin(bm, o) = Fin(bl, o)
  <2>1. off + HDR + size = rest /\ rest # off
    BY <1>5, <1>6, <1>b, HeapNumbers
  <2> QED BY <2>1, <1>4, <1>6, <1>8, <1>13, <1>15
<1>17. Tiled(pm, bm)
  <2>1. pm.free_blocks \in Seq(DOMAIN bm)
    <3>1. \A j \in 1 .. n : new[j] \in DOMAIN bm
      <4>1. \A j \in 1 .. n : list[j] \in DOMAIN bl
        BY <1>4
      <4> QED BY <4>1, <1>11, <1>16
    <3> QED BY <3>1, <1>10, <1>11
  <2>2. Fin(bl, off) <= x
    <3>1. Fin(bl, off) \in DOMAIN bl \/ Fin(bl, off) = x
      BY <1>3, <1>4
    <3> QED BY <3>1, <1>2, <1>5
  <2>3. \A o \in DOMAIN bm : PHDR <= o /\ o < x
    BY <2>2, <1>2, <1>4, <1>5, <1>6, <1>16, HeapNumbers
  <2>4. ASSUME NEW o \in DOMAIN bm, NEW p \in DOMAIN bm, o < p PROVE Fin(bm, o) <= p
    <3>1. CASE o = rest
      <4>1. p \in DOMAIN bl /\ p # off
        BY <3>1, <2>4, <1>5, <1>6, <1>16
      <4>2. off < p
        BY <4>1, <3>1, <2>4, <1>5, <1>6, <1>7
      <4> QED BY <3>1, <4>1, <4>2, <1>2, <1>4, <1>16
    <3>2. CASE o = off
      <4>1. p \in DOMAIN bl \/ p = rest
        BY <1>16
      <4>2. CASE p = rest
        BY <4>2, <3>2, <1>6, <1>16
      <4>3. CASE p \in DOMAIN bl
        <5>1. Fin(bl, off) <= p /\ p \in Nat
          BY <4>3, <3>2, <2>4, <1>2, <1>4, <1>7
        <5> QED BY <5>1, <3>2, <1>5, <1>6, <1>16
      <4> QED BY <4>1, <4>2, <4>3
    <3>3. CASE o # rest /\ o # off
      <4>1. o \in DOMAIN bl /\ Fin(bm, o) = Fin(bl, o) /\ o \in Nat /\ Fin(bl, o) \in Nat
        BY <3>3, <1>7, <1>16
      <4>2. CASE p = rest
        <5>1. o < off
          <6>1. ASSUME off < o PROVE FALSE
            <7>1. Fin(bl, off) <= o
              BY <6>1, <4>1, <1>2, <1>4
            <7> QED BY <7>1, <4>1, <4>2, <2>4, <1>5, <1>6
          <6> QED BY <6>1, <4>1, <3>3, <1>5
        <5>2. Fin(bl, o) <= off
          BY <5>1, <4>1, <1>2, <1>4
        <5> QED BY <5>2, <4>1, <4>2, <1>5, <1>6
      <4>3. CASE p # rest
        BY <4>1, <4>3, <2>4, <1>2, <1>16
      <4> QED BY <4>2, <4>3
    <3> QED BY <3>1, <3>2, <3>3
  <2>5. \A y : (y = PHDR \/ \E o \in DOMAIN bm : y = Fin(bm, o)) <=> (y \in DOMAIN bm \/ y = x)
    <3>1. \A y : (\E o \in DOMAIN bm : y = Fin(bm, o))
                   <=> (y = rest \/ \E o \in DOMAIN bl : y = Fin(bl, o))
      BY <1>4, <1>6, <1>8, <1>16
    <3> QED BY <3>1, <1>3, <1>16
  <2>6. PHDR <= x /\ x + pg.free_size = pg.og_size
    BY <1>2
  <2> QED BY <2>1, <2>3, <2>4, <2>5, <2>6, <1>10, <1>12, <1>15 DEF Tiled
<1>18. /\ \A j, k \in 1 .. n : list[j] = list[k] => j = k
       /\ \A o : (\E j \in 1 .. n : list[j] = o) <=> (o \in DOMAIN bl /\ o \notin H)
       /\ H \subseteq DOMAIN bl
  BY <1>1, <1>4 DEF Listed, list
<1>19. off \notin H /\ i \in 1 .. n /\ list[i] = off
  BY <1>4, <1>18
<1>20. Listed(pm, bm, H \cup {off})
  <2>1. \A j \in 1 .. n : list[j] # rest
    BY <1>8, <1>18
  <2>2. \A j, k \in 1 .. n : new[j] = new[k] => j = k
    BY <2>1, <1>11, <1>18, <1>19
  <2>3. ASSUME NEW o PROVE (\E j \in 1 .. n : new[j] = o) <=> (o \in DOMAIN bm /\ o \notin H \cup {off})
    <3>1. ASSUME NEW j \in 1 .. n, new[j] = o PROVE o \in DOMAIN bm /\ o \notin H \cup {off}
      <4>1. CASE j = i
        BY <4>1, <3>1, <1>6, <1>8, <1>11, <1>16, <1>18, <1>5
      <4>2. CASE j # i
        <5>1. list[j] = o /\ o # off
          BY <4>2, <3>1, <1>11, <1>18, <1>19
        <5> QED BY <5>1, <1>16, <1>18
      <4> QED BY <4>1, <4>2
    <3>2. ASSUME o \in DOMAIN bm, o \notin H \cup {off} PROVE \E j \in 1 .. n : new[j] = o
      <4>1. CASE o = rest
        BY <4>1, <1>11, <1>19
      <4>2. CASE o # rest
        <5>1. PICK j \in 1 .. n : list[j] = o
          BY <4>2, <3>2, <1>16, <1>18
        <5>2. j # i
          BY <5>1, <3>2, <1>19
        <5> QED BY <5>1, <5>2, <1>11
      <4> QED BY <4>1, <4>2
    <3> QED BY <3>1, <3>2
  <2>4. DOMAIN pm.free_blocks = 1 .. n /\ pm.free_blocks = new
    BY <1>10, <1>11
  <2>5. H \cup {off} \subseteq DOMAIN bm
    BY <1>4, <1>16, <1>18
  <2> QED BY <2>2, <2>3, <2>4, <2>5, Zenon DEF Listed
<1>21. Keeps(bl, bm, H)
  BY <1>16, <1>18, <1>19 DEF Keeps
<1> QED BY <1>4, <1>15, <1>16, <1>17, <1>19, <1>20, <1>21 DEF AreaSound, Given
(* What RemoveAt leaves of a sequence. *)
LEMMA RemoveAtIs ==
  ASSUME NEW S, NEW s \in Seq(S), NEW i \in 1 .. Len(s)
  PROVE  /\ RemoveAt(s, i) \in Seq(S) /\ Len(RemoveAt(s, i)) = Len(s) - 1
         /\ DOMAIN RemoveAt(s, i) = 1 .. Len(s) - 1
         /\ \A j \in 1 .. Len(s) - 1 : RemoveAt(s, i)[j] = s[IF j < i THEN j ELSE j + 1]
<1> DEFINE n == Len(s)
           a == SubSeq(s, 1, i - 1)
           b == SubSeq(s, i + 1, n)
<1>1. n \in Nat /\ i \in Nat /\ 1 <= i /\ i <= n
  OBVIOUS
<1>2. a \in Seq(S) /\ Len(a) = i - 1 /\ \A j \in 1 .. i - 1 : a[j] = s[j]
  BY <1>1
<1>3. b \in Seq(S) /\ Len(b) = n - i /\ \A j \in 1 .. n - i : b[j] = s[i + j]
  BY <1>1
<1>4. RemoveAt(s, i) = a \o b
  BY DEF RemoveAt
<1> HIDE DEF n, a, b
<1>5. /\ a \o b \in Seq(S) /\ Len(a \o b) = n - 1 /\ DOMAIN (a \o b) = 1 .. n - 1
      /\ \A j \in 1 .. n - 1 : (a \o b)[j] = IF j <= i - 1 THEN a[j] ELSE b[j - (i - 1)]
  <2>a. a \in Seq(S) /\ b \in Seq(S)
    BY <1>2, <1>3
  <2>b. a \o b \in Seq(S)
    BY <2>a
  <2>1. a \o b \in Seq(S) /\ Len(a \o b) = Len(a) + Len(b)
    BY <2>a, <2>b
  <2>2. \A j \in 1 .. Len(a) + Len(b) : (a \o b)[j] = IF j <= Len(a) THEN a[j] ELSE b[j - Len(a)]
    BY <1>2, <1>3
  <2>3. Len(a) + Len(b) = n - 1
    BY <1>1, <1>2, <1>3
  <2>4. DOMAIN (a \o b) = 1 .. Len(a \o b)
    BY <2>1
  <2> QED BY <2>1, <2>2, <2>3, <2>4, <1>2
<1>6. ASSUME NEW j \in 1 .. n - 1 PROVE (a \o b)[j] = s[IF j < i THEN j ELSE j + 1]
  <2>1. CASE j < i
    BY <2>1, <1>1, <1>2, <1>5
  <2>2. CASE ~(j < i)
    <3>1. j - (i - 1) \in 1 .. n - i /\ i + (j - (i - 1)) = j + 1 /\ ~(j <= i - 1)
      BY <2>2, <1>1
    <3>2. (a \o b)[j] = b[j - (i - 1)]
      BY <3>1, <1>5
    <3>3. b[j - (i - 1)] = s[i + (j - (i - 1))]
      BY <3>1, <1>3
    <3> QED BY <3>1, <3>2, <3>3, <2>2
  <2> QED BY <2>1, <2>2
<1> QED BY <1>4, <1>5, <1>6 DEF n

(* r has what s has, but for the item at i. *)
Dropped(s, i, r) ==
  /\ \A j, k \in 1 .. Len(s) - 1 : r[j] = r[k] => j = k
  /\ \A x : (\E j \in 1 .. Len(s) - 1 : r[j] = x) <=> ((\E j \in 1 .. Len(s) : s[j] = x) /\ x # s[i])

(* Without one place, an injective sequence loses one member. *)
LEMMA RemoveAtRange ==
  ASSUME NEW S, NEW s \in Seq(S), NEW i \in 1 .. Len(s),
         \A j, k \in 1 .. Len(s) : s[j] = s[k] => j = k
  PROVE  Dropped(s, i, RemoveAt(s, i))
<1> DEFINE r == RemoveAt(s, i)
           n == Len(s)
           at(j) == IF j < i THEN j ELSE j + 1
<1>1. n \in Nat /\ i \in 1 .. n
  OBVIOUS
<1>2. \A j \in 1 .. n - 1 : r[j] = s[at(j)]
  BY RemoveAtIs
<1> HIDE DEF r, n
<1>3. \A j \in 1 .. n - 1 : at(j) \in 1 .. n /\ at(j) # i
  BY <1>1
<1>4. \A j, k \in 1 .. n - 1 : at(j) = at(k) => j = k
  BY <1>1
<1>5. \A m \in 1 .. n : m # i => \E j \in 1 .. n - 1 : at(j) = m
  <2> SUFFICES ASSUME NEW m \in 1 .. n, m # i PROVE \E j \in 1 .. n - 1 : at(j) = m
    OBVIOUS
  <2>1. CASE m < i
    <3>1. m \in 1 .. n - 1 /\ at(m) = m
      BY <2>1, <1>1
    <3> QED BY <3>1
  <2>2. CASE ~(m < i)
    <3>1. m - 1 \in 1 .. n - 1 /\ at(m - 1) = m
      BY <2>2, <1>1
    <3> QED BY <3>1
  <2> QED BY <2>1, <2>2
<1> HIDE DEF at
<1>6. \A j, k \in 1 .. n : s[j] = s[k] => j = k
  BY DEF n
<1>7. \A j, k \in 1 .. n - 1 : r[j] = r[k] => j = k
  BY <1>2, <1>3, <1>4, <1>6
<1>8. ASSUME NEW x PROVE (\E j \in 1 .. n - 1 : r[j] = x) <=> ((\E j \in 1 .. n : s[j] = x) /\ x # s[i])
  <2>1. ASSUME NEW j \in 1 .. n - 1, r[j] = x PROVE (\E m \in 1 .. n : s[m] = x) /\ x # s[i]
    BY <2>1, <1>1, <1>2, <1>3, <1>6
  <2>2. ASSUME NEW m \in 1 .. n, s[m] = x, x # s[i] PROVE \E j \in 1 .. n - 1 : r[j] = x
    <3>1. PICK j \in 1 .. n - 1 : at(j) = m
      BY <2>2, <1>5
    <3> QED BY <3>1, <2>2, <1>2
  <2> QED BY <2>1, <2>2
<1> QED BY <1>7, <1>8 DEF n, r, Dropped
(* A free block of the right size leaves the list, a link more or less. *)
Taken(pg, bl, i, off, pm, bm) ==
  /\ off = pg.free_blocks[i]
  /\ pm = [pg EXCEPT !.free_blocks = RemoveAt(pg.free_blocks, i)]
  /\ bm = [bl EXCEPT ![off].stale = i < Len(pg.free_blocks)]

LEMMA ExactArea ==
  ASSUME NEW pg, NEW bl, NEW H, AreaSound(pg, bl, H),
         NEW i \in DOMAIN pg.free_blocks, NEW off, NEW pm, NEW bm, Taken(pg, bl, i, off, pm, bm)
  PROVE  Given(bl, pm, bm, H, off, bl[off].size)
<1> DEFINE x == pg.next_free_addr
           list == pg.free_blocks
           n == Len(list)
           new == RemoveAt(list, i)
<1>1. Tiled(pg, bl) /\ Listed(pg, bl, H)
  BY DEF AreaSound
<1>2. pg \in page_block_t /\ Blocks(bl)
  BY <1>1 DEF Tiled
<1>4. /\ list \in Seq(Nat) /\ list \in Seq(DOMAIN bl) /\ n \in Nat /\ DOMAIN list = 1 .. n
      /\ off \in DOMAIN bl /\ off = list[i] /\ i \in 1 .. n
  BY <1>1, ListIs DEF Taken
<1>5. pm = [og_size |-> pg.og_size, free_size |-> pg.free_size, next_free_addr |-> x, free_blocks |-> new]
  BY <1>2 DEF page_block_t, Taken
<1>6. /\ pm.og_size = pg.og_size /\ pm.free_size = pg.free_size
      /\ pm.next_free_addr = x /\ pm.free_blocks = new
  BY <1>5
<1>7. new \in Seq(Nat) /\ new \in Seq(DOMAIN bl) /\ Len(new) = n - 1 /\ DOMAIN new = 1 .. n - 1
  BY <1>4, RemoveAtIs
<1>8. /\ \A j, k \in 1 .. n : list[j] = list[k] => j = k
      /\ \A o : (\E j \in 1 .. n : list[j] = o) <=> (o \in DOMAIN bl /\ o \notin H)
      /\ H \subseteq DOMAIN bl
  BY <1>1, <1>4 DEF Listed
<1>9. /\ \A j, k \in 1 .. n - 1 : new[j] = new[k] => j = k
      /\ \A o : (\E j \in 1 .. n - 1 : new[j] = o) <=> ((\E j \in 1 .. n : list[j] = o) /\ o # list[i])
  <2>1. list \in Seq(Nat) /\ i \in 1 .. Len(list)
    BY <1>4
  <2>2. Dropped(list, i, new)
    BY <2>1, <1>8, RemoveAtRange
  <2> QED BY <2>2 DEF Dropped
<1>10. pg.og_size \in Nat /\ pg.free_size \in Nat /\ x \in Nat
  BY <1>2 DEF page_block_t
<1> HIDE DEF new, x, list, n
<1>11. pm \in page_block_t
  BY <1>5, <1>7, <1>10 DEF page_block_t
<1>12. /\ DOMAIN bm = DOMAIN bl
       /\ \A o \in DOMAIN bl : o # off => bm[o] = bl[o]
       /\ bm[off].size = bl[off].size
       /\ bm[off] \in [size : Nat, stale : BOOLEAN]
       /\ bm = [o \in DOMAIN bl |-> bm[o]]
  <2> DEFINE z == i < Len(pg.free_blocks)
  <2>1. bm = [bl EXCEPT ![off].stale = z]
    BY DEF Taken
  <2>2. z \in BOOLEAN
    OBVIOUS
  <2> HIDE DEF z
  <2>3. bl[off] \in [size : Nat, stale : BOOLEAN] /\ bl = [o \in DOMAIN bl |-> bl[o]]
    BY <1>2, <1>4 DEF Blocks
  <2>4. bm = [o \in DOMAIN bl |-> IF o = off THEN [bl[off] EXCEPT !.stale = z] ELSE bl[o]]
    BY <2>1, <2>3
  <2>5. [bl[off] EXCEPT !.stale = z] = [size |-> bl[off].size, stale |-> z] /\ bl[off].size \in Nat
    BY <2>3
  <2>6. bm[off] = [size |-> bl[off].size, stale |-> z]
    BY <2>4, <2>5, <1>4
  <2>7. [size |-> bl[off].size, stale |-> z] \in [size : Nat, stale : BOOLEAN]
    BY <2>2, <2>5, Zenon
  <2>8. DOMAIN bm = DOMAIN bl /\ (\A o \in DOMAIN bl : o # off => bm[o] = bl[o]) /\ bm = [o \in DOMAIN bl |-> bm[o]]
    BY <2>4
  <2>9. bm[off].size = bl[off].size
    BY <2>6
  <2> QED BY <2>6, <2>7, <2>8, <2>9, Zenon
<1>13. \A o \in DOMAIN bl : bm[o].size = bl[o].size /\ Fin(bm, o) = Fin(bl, o)
  BY <1>12 DEF Fin
<1>14. Blocks(bm)
  <2>1. \A o \in DOMAIN bm : bm[o] \in [size : Nat, stale : BOOLEAN]
    <3>1. \A o \in DOMAIN bl : bl[o] \in [size : Nat, stale : BOOLEAN]
      BY <1>2 DEF Blocks
    <3> QED BY <3>1, <1>12, Zenon
  <2>2. bm \in [DOMAIN bm -> [size : Nat, stale : BOOLEAN]]
    BY <2>1, <1>12, Zenon
  <2> QED BY <2>2, <1>2, <1>12 DEF Blocks
<1>15. Tiled(pm, bm)
  <2>1. /\ PHDR <= x
        /\ \A o \in DOMAIN bl : PHDR <= o /\ o < x
        /\ \A o, p \in DOMAIN bl : o < p => Fin(bl, o) <= p
        /\ x + pg.free_size = pg.og_size
    BY <1>1 DEF Tiled, x
  <2>2. \A y : (y = PHDR \/ \E o \in DOMAIN bl : y = Fin(bl, o)) <=> (y \in DOMAIN bl \/ y = x)
    BY <1>1 DEF Tiled, x
  <2>3. \A y : (y = PHDR \/ \E o \in DOMAIN bm : y = Fin(bm, o)) <=> (y \in DOMAIN bm \/ y = x)
    BY <2>2, <1>12, <1>13
  <2>4. \A o, p \in DOMAIN bm : o < p => Fin(bm, o) <= p
    BY <2>1, <1>12, <1>13
  <2> QED BY <2>1, <2>3, <2>4, <1>6, <1>7, <1>11, <1>12, <1>14 DEF Tiled
<1>16. off \notin H
  BY <1>4, <1>8
<1>17. Listed(pm, bm, H \cup {off})
  <2>1. \A o : (\E j \in 1 .. n - 1 : new[j] = o) <=> (o \in DOMAIN bm /\ o \notin H \cup {off})
    BY <1>4, <1>8, <1>9, <1>12
  <2>2. DOMAIN pm.free_blocks = 1 .. n - 1 /\ pm.free_blocks = new
    BY <1>6, <1>7
  <2>3. H \cup {off} \subseteq DOMAIN bm
    BY <1>4, <1>8, <1>12
  <2> QED BY <2>1, <2>2, <2>3, <1>9, Zenon DEF Listed
<1>18. Keeps(bl, bm, H)
  BY <1>8, <1>12, <1>13 DEF Keeps
<1> QED BY <1>4, <1>12, <1>15, <1>16, <1>17, <1>18 DEF AreaSound, Given
(* The last block of the list grows over the freed one behind it. *)
Merged(bl, last, off, bm) ==
  bm = [o \in DOMAIN bl \ {off} |->
          IF o = last THEN [bl[o] EXCEPT !.size = @ + bl[off].size + HDR] ELSE bl[o]]

LEMMA MergeArea ==
  ASSUME NEW pg, NEW bl, NEW H, AreaSound(pg, bl, H), NEW off \in H,
         NEW last \in DOMAIN bl, last \notin H, last + bl[last].size + HDR = off,
         NEW bm, Merged(bl, last, off, bm)
  PROVE  AreaSound(pg, bm, H \ {off}) /\ Keeps(bl, bm, H \ {off})
<1> DEFINE x == pg.next_free_addr
           list == pg.free_blocks
           D == DOMAIN bl
<1>1. Tiled(pg, bl) /\ Listed(pg, bl, H)
  BY DEF AreaSound
<1>2. /\ pg \in page_block_t /\ Blocks(bl) /\ x \in Nat /\ PHDR <= x
      /\ \A o \in D : PHDR <= o /\ o < x
      /\ \A o, p \in D : o < p => Fin(bl, o) <= p
      /\ x + pg.free_size = pg.og_size
  BY <1>1 DEF Tiled, page_block_t
<1>3. \A y : (y = PHDR \/ \E o \in D : y = Fin(bl, o)) <=> (y \in D \/ y = x)
  BY <1>1 DEF Tiled
<1>4. H \subseteq D /\ off \in D /\ off # last
  BY <1>1 DEF Listed
<1>5. \A o \in D : o \in Nat /\ bl[o].size \in Nat /\ Fin(bl, o) \in Nat /\ o < Fin(bl, o)
                   /\ Fin(bl, o) = o + HDR + bl[o].size
  BY <1>2, BlockEnds
<1>6. Fin(bl, last) = off
  BY <1>5, HeapNumbers
<1>7. \A o \in D : bl[o] \in [size : Nat, stale : BOOLEAN]
  BY <1>2 DEF Blocks
<1> DEFINE big == [bl[last] EXCEPT !.size = @ + bl[off].size + HDR]
<1>8. /\ DOMAIN bm = D \ {off} /\ bm = [o \in DOMAIN bm |-> bm[o]]
      /\ bm[last] = big
      /\ \A o \in D : o # off /\ o # last => bm[o] = bl[o]
  BY <1>4 DEF Merged
<1>9. big.size = bl[last].size + bl[off].size + HDR /\ big \in [size : Nat, stale : BOOLEAN]
  <2>1. bl[last] \in [size : Nat, stale : BOOLEAN] /\ bl[last].size \in Nat /\ bl[off].size \in Nat
    BY <1>4, <1>5, <1>7
  <2>2. big = [size |-> bl[last].size + bl[off].size + HDR, stale |-> bl[last].stale]
    BY <2>1
  <2>3. bl[last].stale \in BOOLEAN /\ bl[last].size + bl[off].size + HDR \in Nat
    BY <2>1, HeapNumbers
  <2>4. [size |-> bl[last].size + bl[off].size + HDR, stale |-> bl[last].stale] \in [size : Nat, stale : BOOLEAN]
    BY <2>3, Zenon
  <2>5. [size |-> bl[last].size + bl[off].size + HDR, stale |-> bl[last].stale].size = bl[last].size + bl[off].size + HDR
    OBVIOUS
  <2> QED BY <2>2, <2>4, <2>5
<1> HIDE DEF big, x, D
<1>10. Blocks(bm)
  <2>1. \A o \in DOMAIN bm : bm[o] \in [size : Nat, stale : BOOLEAN]
    BY <1>7, <1>8, <1>9, Zenon
  <2>2. bm \in [DOMAIN bm -> [size : Nat, stale : BOOLEAN]]
    BY <2>1, <1>8, Zenon
  <2>3. DOMAIN bm \subseteq Nat
    BY <1>5, <1>8
  <2> QED BY <2>2, <2>3 DEF Blocks
<1>11. /\ Fin(bm, last) = Fin(bl, off)
       /\ \A o \in D : o # off /\ o # last => Fin(bm, o) = Fin(bl, o) /\ bm[o].size = bl[o].size
  <2>1. last \in D
    BY DEF D
  <2>2. Fin(bm, last) = last + HDR + (bl[last].size + bl[off].size + HDR)
    BY <1>8, <1>9 DEF Fin
  <2>3. Fin(bm, last) = Fin(bl, off)
    BY <2>1, <2>2, <1>4, <1>5, <1>6, HeapNumbers
  <2> QED BY <2>3, <1>8 DEF Fin
<1>12. last \in D /\ last < off /\ PHDR < off /\ off < x /\ off \in Nat /\ last \in Nat /\ off < Fin(bl, off)
  <2>1. last \in D
    BY DEF D
  <2> QED BY <2>1, <1>2, <1>4, <1>5, <1>6, HeapNumbers
<1>13. \A o \in D : o # last => Fin(bl, o) # off
  <2> SUFFICES ASSUME NEW o \in D, o # last, Fin(bl, o) = off PROVE FALSE
    OBVIOUS
  <2>1. o < last \/ last < o
    BY <1>5, <1>12
  <2>2. CASE o < last
    <3>1. Fin(bl, o) <= last
      BY <2>2, <1>2, <1>12
    <3> QED BY <3>1, <1>12
  <2>3. CASE last < o
    <3>1. off <= o
      BY <2>3, <1>2, <1>6, <1>12
    <3> QED BY <3>1, <1>5, <1>12
  <2> QED BY <2>1, <2>2, <2>3
<1>14. \A y : (y = PHDR \/ \E o \in D \ {off} : y = Fin(bm, o)) <=> (y \in D \ {off} \/ y = x)
  <2>1. PHDR \in D \ {off} \/ PHDR = x
    BY <1>3, <1>12, HeapNumbers
  <2>2. ASSUME NEW o \in D \ {off} PROVE Fin(bm, o) \in D \ {off} \/ Fin(bm, o) = x
    <3>1. CASE o = last
      <4>1. Fin(bl, off) \in D \/ Fin(bl, off) = x
        BY <1>3, <1>4
      <4>2. Fin(bl, off) # off
        BY <1>4, <1>5, <1>12
      <4> QED BY <3>1, <4>1, <4>2, <1>11
    <3>2. CASE o # last
      <4>1. Fin(bl, o) \in D \/ Fin(bl, o) = x
        BY <1>3
      <4> QED BY <3>2, <4>1, <1>11, <1>13
    <3> QED BY <3>1, <3>2
  <2>3. ASSUME NEW y, y \in D \ {off} \/ y = x PROVE y = PHDR \/ \E o \in D \ {off} : y = Fin(bm, o)
    <3>1. CASE y = PHDR
      BY <3>1
    <3>2. CASE y # PHDR
      <4>1. PICK o \in D : y = Fin(bl, o)
        BY <3>2, <2>3, <1>3
      <4>2. y # off
        BY <2>3, <1>12, <1>2
      <4>3. o # last
        BY <4>1, <4>2, <1>6
      <4>4. CASE o = off
        BY <4>1, <4>4, <1>4, <1>11, <1>12
      <4>5. CASE o # off
        BY <4>1, <4>3, <4>5, <1>11
      <4> QED BY <4>4, <4>5
    <3> QED BY <3>1, <3>2
  <2> QED BY <2>1, <2>2, <2>3
<1>15. ASSUME NEW o \in D \ {off}, NEW p \in D \ {off}, o < p PROVE Fin(bm, o) <= p
  <2>1. CASE o = last
    <3>1. off <= p
      BY <2>1, <1>15, <1>2, <1>6
    <3>2. off < p
      BY <3>1, <1>5, <1>12
    <3>3. Fin(bl, off) <= p
      BY <3>2, <1>2, <1>4
    <3> QED BY <2>1, <3>3, <1>11
  <2>2. CASE o # last
    BY <2>2, <1>15, <1>2, <1>11
  <2> QED BY <2>1, <2>2
<1>16. /\ list \in Seq(DOMAIN bl) /\ DOMAIN list = 1 .. Len(list)
       /\ \A i, j \in DOMAIN list : list[i] = list[j] => i = j
       /\ \A o : (\E i \in DOMAIN list : list[i] = o) <=> (o \in D /\ o \notin H)
  BY <1>1, ListIs DEF Listed, D
<1>17. list \in Seq(D \ {off})
  <2>1. \A i \in 1 .. Len(list) : list[i] \in D \ {off}
    BY <1>16
  <2> HIDE DEF list
  <2> QED BY <2>1, <1>16
<1>18. Tiled(pg, bm)
  <2>1. \A o \in DOMAIN bm : PHDR <= o /\ o < x
    BY <1>2, <1>8
  <2>2. \A o, p \in DOMAIN bm : o < p => Fin(bm, o) <= p
    BY <1>8, <1>15
  <2>3. pg.free_blocks \in Seq(DOMAIN bm)
    BY <1>8, <1>17
  <2>4. PHDR <= x /\ x + pg.free_size = pg.og_size
    BY <1>2
  <2>5. \A y : (y = PHDR \/ \E o \in DOMAIN bm : y = Fin(bm, o)) <=> (y \in DOMAIN bm \/ y = x)
    BY <1>8, <1>14
  <2> QED BY <2>1, <2>2, <2>3, <2>4, <2>5, <1>2, <1>10, Zenon DEF Tiled, x
<1>19. Listed(pg, bm, H \ {off})
  <2>1. \A o : (\E i \in DOMAIN list : list[i] = o) <=> (o \in DOMAIN bm /\ o \notin H \ {off})
    BY <1>4, <1>8, <1>16
  <2>2. H \ {off} \subseteq DOMAIN bm
    BY <1>4, <1>8
  <2> QED BY <2>1, <2>2, <1>16, Zenon DEF Listed
<1>20. Keeps(bl, bm, H \ {off})
  <2>1. last \notin H
    OBVIOUS
  <2> QED BY <2>1, <1>4, <1>8, <1>11 DEF Keeps
<1> QED BY <1>18, <1>19, <1>20 DEF AreaSound

(* pm is pg with the block at off at the end of its list. *)
Appended(pg, off, pm) == pm = [pg EXCEPT !.free_blocks = Append(@, off)]

(* The freed block at the end of the list. *)
LEMMA AppendArea ==
  ASSUME NEW pg, NEW bl, NEW H, AreaSound(pg, bl, H), NEW off \in H,
         NEW pm, Appended(pg, off, pm)
  PROVE  AreaSound(pm, bl, H \ {off})
<1> DEFINE x == pg.next_free_addr
           list == pg.free_blocks
           n == Len(list)
           new == Append(list, off)
<1>1. Tiled(pg, bl) /\ Listed(pg, bl, H)
  BY DEF AreaSound
<1>2. pg \in page_block_t /\ Blocks(bl) /\ x \in Nat /\ pg.og_size \in Nat /\ pg.free_size \in Nat
  BY <1>1 DEF Tiled, page_block_t
<1>3. list \in Seq(Nat) /\ list \in Seq(DOMAIN bl) /\ n \in Nat /\ DOMAIN list = 1 .. n
  BY <1>1, ListIs
<1>4. /\ \A i, j \in 1 .. n : list[i] = list[j] => i = j
      /\ \A o : (\E i \in 1 .. n : list[i] = o) <=> (o \in DOMAIN bl /\ o \notin H)
      /\ H \subseteq DOMAIN bl /\ off \in DOMAIN bl
  BY <1>1, <1>3 DEF Listed
<1>5. off \in Nat
  BY <1>2, <1>4, BlockEnds
<1>6. pm = [og_size |-> pg.og_size, free_size |-> pg.free_size, next_free_addr |-> x, free_blocks |-> new]
  BY <1>2 DEF page_block_t, Appended
<1>7. /\ pm.og_size = pg.og_size /\ pm.free_size = pg.free_size
      /\ pm.next_free_addr = x /\ pm.free_blocks = new
  BY <1>6
<1>8. /\ new \in Seq(Nat) /\ new \in Seq(DOMAIN bl) /\ Len(new) = n + 1 /\ DOMAIN new = 1 .. n + 1
      /\ new[n + 1] = off /\ \A i \in 1 .. n : new[i] = list[i]
  BY <1>3, <1>4, <1>5
<1> HIDE DEF new, list, n, x
<1>9. pm \in page_block_t
  BY <1>2, <1>6, <1>8 DEF page_block_t
<1>10. Tiled(pm, bl)
  <2>1. /\ PHDR <= x
        /\ \A o \in DOMAIN bl : PHDR <= o /\ o < x
        /\ \A o, p \in DOMAIN bl : o < p => Fin(bl, o) <= p
        /\ x + pg.free_size = pg.og_size
    BY <1>1 DEF Tiled, x
  <2>2. \A y : (y = PHDR \/ \E o \in DOMAIN bl : y = Fin(bl, o)) <=> (y \in DOMAIN bl \/ y = x)
    BY <1>1 DEF Tiled, x
  <2>3. pm.free_blocks \in Seq(DOMAIN bl) /\ pm.next_free_addr = x /\ x + pm.free_size = pm.og_size
    BY <2>1, <1>7, <1>8
  <2> QED BY <2>1, <2>2, <2>3, <1>2, <1>9, Zenon DEF Tiled
<1>11. \A i \in 1 .. n + 1 : i \in 1 .. n \/ i = n + 1
  BY <1>3
<1>12. \A i \in 1 .. n : list[i] # off
  BY <1>4
<1>13. \A i, j \in 1 .. n + 1 : new[i] = new[j] => i = j
  BY <1>4, <1>8, <1>11, <1>12
<1>14. n + 1 \in 1 .. n + 1 /\ \A i \in 1 .. n : i \in 1 .. n + 1
  BY <1>3
<1>15. \A o : (\E i \in 1 .. n + 1 : new[i] = o) <=> (o = off \/ \E i \in 1 .. n : list[i] = o)
  BY <1>8, <1>11, <1>14
<1>16. Listed(pm, bl, H \ {off})
  <2>1. \A o : (\E i \in 1 .. n + 1 : new[i] = o) <=> (o \in DOMAIN bl /\ o \notin H \ {off})
    BY <1>4, <1>15
  <2>2. DOMAIN pm.free_blocks = 1 .. n + 1 /\ pm.free_blocks = new
    BY <1>7, <1>8
  <2>3. H \ {off} \subseteq DOMAIN bl
    BY <1>4
  <2> QED BY <2>1, <2>2, <2>3, <1>13, Zenon DEF Listed
<1> QED BY <1>10, <1>16 DEF AreaSound

-----------------------------------------------------------------------------
(* mem_pool has the page blocks that are mapped, each once. *)
Pooled ==
  /\ mem_pool \in Seq(Area)
  /\ \A j, k \in 1 .. Len(mem_pool) : mem_pool[j] = mem_pool[k] => j = k
  /\ \A a : (\E k \in 1 .. Len(mem_pool) : mem_pool[k] = a) <=> a \in Mapped

Rooms ==
  /\ page \in [Area -> page_block_t \cup {EMPTY}]
  /\ block \in [Area -> {block[a] : a \in Area}]
  /\ \A a \in Mapped : Tiled(page[a], block[a])

(* Two programs never hold the same block. *)
Holdings ==
  /\ held \subseteq [area : Area, off : Nat, size : Size]
  /\ \A h, g \in held : h.area = g.area /\ h.off = g.off => h = g

(* What is held is a block, and as large as was asked for. *)
Present ==
  \A h \in held :
    h.area \in Mapped /\ h.off \in DOMAIN block[h.area] /\ block[h.area][h.off].size >= h.size

(* The free lists are exact, and each page block has a block that is held. *)
Exact ==
  \A a \in Mapped : Listed(page[a], block[a], HeldIn(a)) /\ HeldIn(a) # {}

(* The og units from page a on are in no page of another page block. *)
Clear(a, og) ==
  \A b \in Mapped : b # a => \A x : ~(x \in Extent(a, og) /\ x \in Extent(b, page[b].og_size))

(* No page is in two page blocks. *)
Apart == \A a \in Mapped : Clear(a, page[a].og_size)

Sound == Pooled /\ Rooms /\ Holdings /\ Present /\ Exact /\ Apart

(* The inductive invariant of the user heap. *)
HeapInv == astray \in BOOLEAN /\ (~astray => Sound)

-----------------------------------------------------------------------------
LEMMA HeapInvInit == HeapInit => HeapInv
<1> SUFFICES ASSUME HeapInit PROVE HeapInv
  OBVIOUS
<1>1. page \in [Area -> page_block_t \cup {EMPTY}] /\ block \in [Area -> {block[a] : a \in Area}]
  BY DEF HeapInit
<1>2. Mapped = {}
  BY DEF HeapInit, Mapped
<1>3. mem_pool = <<>> /\ held = {} /\ astray = FALSE
  BY DEF HeapInit
<1>4. Pooled
  BY <1>2, <1>3 DEF Pooled
<1> QED BY <1>1, <1>2, <1>3, <1>4 DEF HeapInv, Sound, Rooms, Holdings, Present, Exact, Apart

LEMMA HeldInIs ==
  \A b, o : o \in HeldIn(b) <=> \E h \in held : h.area = b /\ h.off = o
BY DEF HeldIn

LEMMA HeldInIsNext ==
  \A b, o : o \in (HeldIn(b))' <=> \E h \in held' : h.area = b /\ h.off = o
BY DEF HeldIn

LEMMA HeldInStays ==
  ASSUME NEW b, \A o : o \in (HeldIn(b))' <=> o \in HeldIn(b)
  PROVE  (HeldIn(b))' = HeldIn(b)
OBVIOUS

(* The page block pm with the blocks bm takes the place of what area a had. *)
Put(a, pm, bm) == page' = [page EXCEPT ![a] = pm] /\ block' = [block EXCEPT ![a] = bm]

LEMMA PutIs ==
  ASSUME Rooms, NEW a \in Area, NEW pm, NEW bm, Put(a, pm, bm), pm \in page_block_t \cup {EMPTY}
  PROVE  /\ page' \in [Area -> page_block_t \cup {EMPTY}]
         /\ block' \in [Area -> {block[b] : b \in Area}']
         /\ page'[a] = pm /\ block'[a] = bm
         /\ \A b \in Area : b # a => page'[b] = page[b] /\ block'[b] = block[b]
<1>1. page \in [Area -> page_block_t \cup {EMPTY}] /\ DOMAIN block = Area /\ block = [b \in Area |-> block[b]]
  BY DEF Rooms
<1>2. page' = [page EXCEPT ![a] = pm] /\ block' = [block EXCEPT ![a] = bm]
  BY DEF Put
<1>3. DOMAIN block' = Area /\ block' = [b \in Area |-> block'[b]]
  BY <1>1, <1>2
<1>4. block' \in [Area -> {block[b] : b \in Area}']
  BY <1>3
<1> QED BY <1>1, <1>2, <1>4

(* A program gets the block at off in area a. *)
LEMMA HoldStep ==
  ASSUME Sound, NEW a \in Area, NEW pm, NEW bm, NEW off, NEW size \in Size,
         Put(a, pm, bm), Hold(a, off, size),
         Given(block[a], pm, bm, HeldIn(a), off, size), Clear(a, pm.og_size),
         \/ a \in Mapped /\ mem_pool' = mem_pool
         \/ a \notin Mapped /\ mem_pool' = Append(mem_pool, a)
  PROVE  Sound'
<1> DEFINE new == [area |-> a, off |-> off, size |-> size]
<1>0. /\ AreaSound(pm, bm, HeldIn(a) \cup {off}) /\ Keeps(block[a], bm, HeldIn(a))
      /\ off \notin HeldIn(a) /\ off \in DOMAIN bm /\ bm[off].size = size
  BY DEF Given
<1>1. Pooled /\ Rooms /\ Holdings /\ Present /\ Exact /\ Apart
  BY DEF Sound
<1>2. pm \in page_block_t /\ Blocks(bm) /\ Tiled(pm, bm) /\ Listed(pm, bm, HeldIn(a) \cup {off})
  BY <1>0 DEF AreaSound, Tiled
<1>3. pm # EMPTY /\ off \in Nat /\ size \in Nat
  BY <1>0, <1>2, BlockEnds, HeapAssumption, HeapNumbers
<1>4. /\ page' \in [Area -> page_block_t \cup {EMPTY}]
      /\ block' \in [Area -> {block[b] : b \in Area}']
      /\ page'[a] = pm /\ block'[a] = bm
      /\ \A b \in Area : b # a => page'[b] = page[b] /\ block'[b] = block[b]
  BY <1>1, <1>2, PutIs
<1>5. \A b : b \in Mapped' <=> b \in Mapped \/ b = a
  BY <1>3, <1>4 DEF Mapped
<1>6. held' = held \cup {new} /\ new.area = a /\ new.off = off /\ new.size = size
  BY DEF Hold
<1>7. new \in [area : Area, off : Nat, size : Size]
  BY <1>3
<1> HIDE DEF new
<1>8. (HeldIn(a))' = HeldIn(a) \cup {off} /\ \A b : b # a => (HeldIn(b))' = HeldIn(b)
  <2>1. \A o : o \in (HeldIn(a))' <=> o \in HeldIn(a) \cup {off}
    BY <1>6, HeldInIs, HeldInIsNext
  <2>2. \A b : b # a => \A o : o \in (HeldIn(b))' <=> o \in HeldIn(b)
    BY <1>6, HeldInIs, HeldInIsNext
  <2>3. (HeldIn(a))' = HeldIn(a) \cup {off}
    BY <2>1
  <2>4. ASSUME NEW b, b # a PROVE (HeldIn(b))' = HeldIn(b)
    BY <2>2, <2>4, HeldInStays
  <2> QED BY <2>3, <2>4
<1>9. Pooled'
  <2>1. /\ mem_pool \in Seq(Area)
        /\ \A j, k \in 1 .. Len(mem_pool) : mem_pool[j] = mem_pool[k] => j = k
        /\ \A b : (\E k \in 1 .. Len(mem_pool) : mem_pool[k] = b) <=> b \in Mapped
    BY <1>1 DEF Pooled
  <2>2. CASE a \in Mapped /\ mem_pool' = mem_pool
    <3>1. \A b : b \in Mapped' <=> b \in Mapped
      BY <2>2, <1>5
    <3> QED BY <2>1, <2>2, <3>1 DEF Pooled
  <2>3. CASE a \notin Mapped /\ mem_pool' = Append(mem_pool, a)
    <3> DEFINE n == Len(mem_pool)
    <3>1. /\ n \in Nat /\ mem_pool' \in Seq(Area) /\ Len(mem_pool') = n + 1
          /\ mem_pool'[n + 1] = a /\ \A k \in 1 .. n : mem_pool'[k] = mem_pool[k]
      BY <2>1, <2>3
    <3>2. \A k \in 1 .. n : mem_pool[k] # a
      BY <2>1, <2>3
    <3>3. \A k : k \in 1 .. n + 1 <=> k \in 1 .. n \/ k = n + 1
      BY <3>1
    <3> HIDE DEF n
    <3>4. \A j, k \in 1 .. n + 1 : mem_pool'[j] = mem_pool'[k] => j = k
      <4>1. \A j, k \in 1 .. n : mem_pool[j] = mem_pool[k] => j = k
        BY <2>1 DEF n
      <4> QED BY <4>1, <3>1, <3>2, <3>3
    <3>5. \A b : (\E k \in 1 .. n + 1 : mem_pool'[k] = b) <=> b \in Mapped'
      <4>1. \A b : (\E k \in 1 .. n : mem_pool[k] = b) <=> b \in Mapped
        BY <2>1 DEF n
      <4>2. \A b : (\E k \in 1 .. n + 1 : mem_pool'[k] = b) <=> (b = a \/ \E k \in 1 .. n : mem_pool[k] = b)
        BY <3>1, <3>3
      <4> QED BY <4>1, <4>2, <1>5
    <3> QED BY <3>1, <3>4, <3>5 DEF Pooled
  <2> QED BY <2>2, <2>3
<1>10. Rooms'
  <2>1. ASSUME NEW b \in Mapped' PROVE Tiled(page'[b], block'[b])
    <3>1. CASE b = a
      BY <3>1, <1>2, <1>4
    <3>2. CASE b # a
      <4>1. b \in Mapped /\ b \in Area
        BY <3>2, <1>5 DEF Mapped
      <4>2. Tiled(page[b], block[b])
        BY <4>1, <1>1 DEF Rooms
      <4> QED BY <4>1, <4>2, <3>2, <1>4
    <3> QED BY <3>1, <3>2
  <2> QED BY <2>1, <1>4 DEF Rooms
<1>11. Holdings'
  <2>1. held' \subseteq [area : Area, off : Nat, size : Size]
    BY <1>1, <1>6, <1>7 DEF Holdings
  <2>2. \A h \in held : ~(h.area = a /\ h.off = off)
    BY <1>0, HeldInIs
  <2>3. \A h, g \in held' : h.area = g.area /\ h.off = g.off => h = g
    BY <2>2, <1>1, <1>6 DEF Holdings
  <2> QED BY <2>1, <2>3 DEF Holdings
<1>12. Present'
  <2> SUFFICES ASSUME NEW h \in held'
               PROVE  h.area \in Mapped' /\ h.off \in DOMAIN block'[h.area] /\ block'[h.area][h.off].size >= h.size
    BY DEF Present
  <2>1. CASE h = new
    BY <2>1, <1>0, <1>3, <1>4, <1>5, <1>6
  <2>2. CASE h # new
    <3>1. h \in held
      BY <2>2, <1>6
    <3>2. h.area \in Mapped /\ h.off \in DOMAIN block[h.area] /\ block[h.area][h.off].size >= h.size
      BY <3>1, <1>1 DEF Present
    <3>3. CASE h.area = a
      <4>1. h.off \in HeldIn(a)
        BY <3>1, <3>3, HeldInIs
      <4>2. h.off \in DOMAIN bm /\ bm[h.off].size = block[a][h.off].size
        BY <4>1, <1>0 DEF Keeps
      <4> QED BY <4>2, <3>2, <3>3, <1>4, <1>5
    <3>4. CASE h.area # a
      <4>1. h.area \in Area
        BY <3>2 DEF Mapped
      <4> QED BY <4>1, <3>2, <3>4, <1>4, <1>5
    <3> QED BY <3>3, <3>4
  <2> QED BY <2>1, <2>2
<1>13. Exact'
  <2> SUFFICES ASSUME NEW b \in Mapped'
               PROVE  Listed(page'[b], block'[b], (HeldIn(b))') /\ (HeldIn(b))' # {}
    BY DEF Exact
  <2>1. CASE b = a
    BY <2>1, <1>2, <1>4, <1>8
  <2>2. CASE b # a
    <3>1. b \in Mapped /\ b \in Area
      BY <2>2, <1>5 DEF Mapped
    <3>2. Listed(page[b], block[b], HeldIn(b)) /\ HeldIn(b) # {}
      BY <3>1, <1>1 DEF Exact
    <3> QED BY <3>1, <3>2, <2>2, <1>4, <1>8
  <2> QED BY <2>1, <2>2
<1>14. Apart'
  <2>1. ASSUME NEW b \in Mapped', NEW c \in Mapped', b # c, NEW x
        PROVE  ~(x \in Extent(b, page'[b].og_size) /\ x \in Extent(c, page'[c].og_size))
    <3>1. \A d \in Mapped' : d # a => d \in Mapped /\ page'[d] = page[d]
      BY <1>4, <1>5 DEF Mapped
    <3>2. CASE b = a
      BY <2>1, <3>1, <3>2, <1>4 DEF Clear
    <3>3. CASE c = a
      BY <2>1, <3>1, <3>3, <1>4 DEF Clear
    <3>4. CASE b # a /\ c # a
      BY <2>1, <3>1, <3>4, <1>1 DEF Apart, Clear
    <3> QED BY <3>2, <3>3, <3>4
  <2> QED BY <2>1, Zenon DEF Apart, Clear
<1> QED BY <1>9, <1>10, <1>11, <1>12, <1>13, <1>14 DEF Sound

(* A program gives a block back, and its page block stays. *)
LEMMA GiveStep ==
  ASSUME Sound, NEW h \in held, NEW pm, NEW bm,
         Put(h.area, pm, bm), held' = held \ {h}, mem_pool' = mem_pool,
         AreaSound(pm, bm, HeldIn(h.area) \ {h.off}), Keeps(block[h.area], bm, HeldIn(h.area) \ {h.off}),
         HeldIn(h.area) # {h.off}, pm.og_size = page[h.area].og_size
  PROVE  Sound'
<1> DEFINE a == h.area
<1>1. Pooled /\ Rooms /\ Holdings /\ Present /\ Exact /\ Apart
  BY DEF Sound
<1>2. pm \in page_block_t /\ Tiled(pm, bm) /\ Listed(pm, bm, HeldIn(a) \ {h.off})
  BY DEF AreaSound, Tiled
<1>3. pm # EMPTY /\ a \in Area /\ a \in Mapped /\ h.off \in HeldIn(a)
  BY <1>1, <1>2, HeldInIs, HeapAssumption DEF Present, Mapped
<1>4. /\ page' \in [Area -> page_block_t \cup {EMPTY}]
      /\ block' \in [Area -> {block[b] : b \in Area}']
      /\ page'[a] = pm /\ block'[a] = bm
      /\ \A b \in Area : b # a => page'[b] = page[b] /\ block'[b] = block[b]
  BY <1>1, <1>2, <1>3, PutIs
<1>5. \A b : b \in Mapped' <=> b \in Mapped
  BY <1>3, <1>4 DEF Mapped
<1>6. \A g, k \in held : g.area = k.area /\ g.off = k.off => g = k
  BY <1>1 DEF Holdings
<1>7. Keeps(block[a], bm, HeldIn(a) \ {h.off}) /\ HeldIn(a) # {h.off}
  OBVIOUS
<1> HIDE DEF a
<1>8. (HeldIn(a))' = HeldIn(a) \ {h.off} /\ \A b : b # a => (HeldIn(b))' = HeldIn(b)
  <2>1. \A o : o \in (HeldIn(a))' <=> o \in HeldIn(a) \ {h.off}
    BY <1>6, HeldInIs, HeldInIsNext DEF a
  <2>2. \A b : b # a => \A o : o \in (HeldIn(b))' <=> o \in HeldIn(b)
    BY HeldInIs, HeldInIsNext DEF a
  <2>3. (HeldIn(a))' = HeldIn(a) \ {h.off}
    BY <2>1
  <2>4. ASSUME NEW b, b # a PROVE (HeldIn(b))' = HeldIn(b)
    BY <2>2, <2>4, HeldInStays
  <2> QED BY <2>3, <2>4
<1>9. Pooled'
  <2>1. /\ mem_pool \in Seq(Area)
        /\ \A j, k \in 1 .. Len(mem_pool) : mem_pool[j] = mem_pool[k] => j = k
        /\ \A b : (\E k \in 1 .. Len(mem_pool) : mem_pool[k] = b) <=> b \in Mapped
    BY <1>1 DEF Pooled
  <2> QED BY <2>1, <1>5 DEF Pooled
<1>10. Rooms'
  <2>1. ASSUME NEW b \in Mapped' PROVE Tiled(page'[b], block'[b])
    <3>1. b \in Mapped /\ b \in Area
      BY <1>5 DEF Mapped
    <3>2. Tiled(page[b], block[b])
      BY <3>1, <1>1 DEF Rooms
    <3>3. CASE b = a
      BY <3>3, <1>2, <1>4 DEF a
    <3>4. CASE b # a
      BY <3>1, <3>2, <3>4, <1>4
    <3> QED BY <3>3, <3>4
  <2> QED BY <2>1, <1>4 DEF Rooms
<1>11. Holdings'
  BY <1>1 DEF Holdings
<1>12. Present'
  <2> SUFFICES ASSUME NEW g \in held'
               PROVE  g.area \in Mapped' /\ g.off \in DOMAIN block'[g.area] /\ block'[g.area][g.off].size >= g.size
    BY DEF Present
  <2>1. g \in held /\ g # h
    OBVIOUS
  <2>2. g.area \in Mapped /\ g.off \in DOMAIN block[g.area] /\ block[g.area][g.off].size >= g.size
    BY <2>1, <1>1 DEF Present
  <2>3. CASE g.area = a
    <3>1. g.off \in HeldIn(a) \ {h.off}
      BY <2>1, <2>3, <1>6, HeldInIs DEF a
    <3>2. g.off \in DOMAIN bm /\ bm[g.off].size = block[a][g.off].size
      BY <3>1, <1>7 DEF Keeps
    <3> QED BY <3>2, <2>2, <2>3, <1>4, <1>5
  <2>4. CASE g.area # a
    <3>1. g.area \in Area
      BY <2>2 DEF Mapped
    <3> QED BY <3>1, <2>2, <2>4, <1>4, <1>5
  <2> QED BY <2>3, <2>4
<1>13. Exact'
  <2> SUFFICES ASSUME NEW b \in Mapped'
               PROVE  Listed(page'[b], block'[b], (HeldIn(b))') /\ (HeldIn(b))' # {}
    BY DEF Exact
  <2>1. CASE b = a
    <3>1. HeldIn(a) \ {h.off} # {}
      BY <1>3, <1>7 DEF a
    <3>2. Listed(pm, bm, HeldIn(a) \ {h.off})
      BY <1>2 DEF a
    <3> QED BY <2>1, <3>1, <3>2, <1>4, <1>8
  <2>2. CASE b # a
    <3>1. b \in Mapped /\ b \in Area
      BY <1>5 DEF Mapped
    <3>2. Listed(page[b], block[b], HeldIn(b)) /\ HeldIn(b) # {}
      BY <3>1, <1>1 DEF Exact
    <3> QED BY <3>1, <3>2, <2>2, <1>4, <1>8
  <2> QED BY <2>1, <2>2
<1>14. Apart'
  <2>1. \A b \in Mapped' : b \in Mapped /\ page'[b].og_size = page[b].og_size
    <3>1. page'[a].og_size = page[a].og_size
      BY <1>4 DEF a
    <3> QED BY <3>1, <1>4, <1>5 DEF Mapped
  <2>2. ASSUME NEW b \in Mapped', NEW c \in Mapped', b # c, NEW x
        PROVE  ~(x \in Extent(b, page'[b].og_size) /\ x \in Extent(c, page'[c].og_size))
    BY <2>1, <2>2, <1>1 DEF Apart, Clear
  <2> QED BY <2>2, Zenon DEF Apart, Clear
<1> QED BY <1>9, <1>10, <1>11, <1>12, <1>13, <1>14 DEF Sound

(* A program gives the last block of a page block back, which is unmapped. *)
LEMMA UnmapStep ==
  ASSUME Sound, NEW h \in held, unmap_free_page(h.area), held' = held \ {h},
         HeldIn(h.area) = {h.off}
  PROVE  Sound'
<1> DEFINE a == h.area
           n == Len(mem_pool)
           k == CHOOSE j \in DOMAIN mem_pool : mem_pool[j] = a
<1>1. Pooled /\ Rooms /\ Holdings /\ Present /\ Exact /\ Apart
  BY DEF Sound
<1>2. a \in Area /\ a \in Mapped
  BY <1>1 DEF Present, Mapped
<1>3. Put(a, EMPTY, <<>>) /\ mem_pool' = RemoveAt(mem_pool, k)
  BY DEF unmap_free_page, Put
<1>4. /\ page' \in [Area -> page_block_t \cup {EMPTY}]
      /\ block' \in [Area -> {block[b] : b \in Area}']
      /\ page'[a] = EMPTY
      /\ \A b \in Area : b # a => page'[b] = page[b] /\ block'[b] = block[b]
  BY <1>1, <1>2, <1>3, PutIs
<1>5. \A b : b \in Mapped' <=> b \in Mapped /\ b # a
  BY <1>4 DEF Mapped
<1>6. /\ mem_pool \in Seq(Area) /\ n \in Nat /\ DOMAIN mem_pool = 1 .. n
      /\ \A i, j \in 1 .. n : mem_pool[i] = mem_pool[j] => i = j
      /\ \A b : (\E i \in 1 .. n : mem_pool[i] = b) <=> b \in Mapped
  BY <1>1 DEF Pooled
<1>7. k \in 1 .. n /\ mem_pool[k] = a
  BY <1>2, <1>6
<1>8. \A g \in held' : g \in held /\ g.area # a
  <2>1. \A g \in held : g.area = a => g.off = h.off
    BY HeldInIs
  <2> QED BY <2>1, <1>1 DEF Holdings
<1> HIDE DEF a, n, k
<1>9. Pooled'
  <2> DEFINE r == RemoveAt(mem_pool, k)
  <2>1. r \in Seq(Area) /\ Len(r) = n - 1
    BY <1>6, <1>7, RemoveAtIs DEF n
  <2>2. /\ \A i, j \in 1 .. n - 1 : r[i] = r[j] => i = j
        /\ \A b : (\E i \in 1 .. n - 1 : r[i] = b) <=> ((\E i \in 1 .. n : mem_pool[i] = b) /\ b # a)
    <3>1. Dropped(mem_pool, k, r)
      BY <1>6, <1>7, RemoveAtRange DEF n
    <3> HIDE DEF r
    <3> QED BY <3>1, <1>7 DEF Dropped, n
  <2>3. mem_pool' = r
    BY <1>3
  <2> HIDE DEF r
  <2>4. \A b : (\E i \in 1 .. n - 1 : r[i] = b) <=> b \in Mapped'
    BY <2>2, <1>5, <1>6
  <2> QED BY <2>1, <2>2, <2>3, <2>4 DEF Pooled
<1>10. Rooms'
  <2>1. ASSUME NEW b \in Mapped' PROVE Tiled(page'[b], block'[b])
    <3>1. b \in Mapped /\ b \in Area /\ b # a
      BY <1>5 DEF Mapped
    <3>2. Tiled(page[b], block[b])
      BY <3>1, <1>1 DEF Rooms
    <3> QED BY <3>1, <3>2, <1>4
  <2> QED BY <2>1, <1>4 DEF Rooms
<1>11. Holdings'
  BY <1>1 DEF Holdings
<1>12. Present'
  <2> SUFFICES ASSUME NEW g \in held'
               PROVE  g.area \in Mapped' /\ g.off \in DOMAIN block'[g.area] /\ block'[g.area][g.off].size >= g.size
    BY DEF Present
  <2>1. g \in held /\ g.area # a
    BY <1>8
  <2>2. g.area \in Mapped /\ g.off \in DOMAIN block[g.area] /\ block[g.area][g.off].size >= g.size
    BY <2>1, <1>1 DEF Present
  <2>3. g.area \in Area
    BY <2>2 DEF Mapped
  <2> QED BY <2>1, <2>2, <2>3, <1>4, <1>5
<1>13. Exact'
  <2> SUFFICES ASSUME NEW b \in Mapped'
               PROVE  Listed(page'[b], block'[b], (HeldIn(b))') /\ (HeldIn(b))' # {}
    BY DEF Exact
  <2>1. b \in Mapped /\ b \in Area /\ b # a
    BY <1>5 DEF Mapped
  <2>2. Listed(page[b], block[b], HeldIn(b)) /\ HeldIn(b) # {}
    BY <2>1, <1>1 DEF Exact
  <2>3. \A o : o \in (HeldIn(b))' <=> o \in HeldIn(b)
    BY <2>1, HeldInIs, HeldInIsNext DEF a
  <2>4. (HeldIn(b))' = HeldIn(b)
    BY <2>3, HeldInStays
  <2> QED BY <2>1, <2>2, <2>4, <1>4
<1>14. Apart'
  <2>1. ASSUME NEW b \in Mapped', NEW c \in Mapped', b # c, NEW x
        PROVE  ~(x \in Extent(b, page'[b].og_size) /\ x \in Extent(c, page'[c].og_size))
    <3>1. b \in Mapped /\ c \in Mapped /\ page'[b] = page[b] /\ page'[c] = page[c]
      BY <1>4, <1>5 DEF Mapped
    <3> QED BY <2>1, <3>1, <1>1 DEF Apart, Clear
  <2> QED BY <2>1, Zenon DEF Apart, Clear
<1> QED BY <1>9, <1>10, <1>11, <1>12, <1>13, <1>14 DEF Sound

-----------------------------------------------------------------------------
(* What the invariant says of one page block. *)
LEMMA SoundAt ==
  ASSUME Sound, NEW a \in Mapped
  PROVE  /\ a \in Area /\ AreaSound(page[a], block[a], HeldIn(a))
         /\ page = [page EXCEPT ![a] = page[a]] /\ block = [block EXCEPT ![a] = block[a]]
<1>1. a \in Area
  BY DEF Mapped
<1>2. page = [page EXCEPT ![a] = page[a]] /\ block = [block EXCEPT ![a] = block[a]]
  BY <1>1 DEF Sound, Rooms
<1> QED BY <1>1, <1>2 DEF Sound, Rooms, Exact, AreaSound

(* Least is the least member. *)
LEMMA LeastIs ==
  ASSUME NEW S \in SUBSET Nat, S # {}
  PROVE  Least(S) \in S
BY LeastOf DEF Least

(* A page block has the page it starts at. *)
LEMMA CoversItself ==
  ASSUME Sound, NEW a \in Mapped
  PROVE  a \in Extent(a, page[a].og_size)
<1> DEFINE og == page[a].og_size
           b == og + PAGE - 1
           q == pages_required(og)
<1>1. a \in Int /\ Tiled(page[a], block[a])
  BY HeapAssumption DEF Sound, Rooms, Mapped, Area
<1>2. og \in Nat /\ og >= 1
  BY <1>1, HeapNumbers DEF Tiled, page_block_t
<1>3. b \in Nat /\ b >= PAGE /\ q = b \div PAGE
  BY <1>2, HeapNumbers DEF pages_required
<1> HIDE DEF b
<1>4. b = PAGE * (b \div PAGE) + (b % PAGE) /\ b \div PAGE \in Nat /\ b % PAGE \in 0 .. PAGE - 1
  BY <1>3, HeapNumbers
<1> HIDE DEF q
<1>5. q # 0 /\ q \in Nat
  BY <1>3, <1>4, HeapNumbers
<1> QED BY <1>1, <1>5 DEF Extent, q

LEMMA MallocKeeps ==
  ASSUME Sound, ~astray', malloc
  PROVE  Sound'
<1>1. PICK size \in Size :
    \/ /\ Serving(size) # {}
       /\ LET a == mem_pool[Least(Serving(size))]
              i == Least(Fits(a, size))
          IN \/ /\ Fits(a, size) # {}
                /\ block[a][page[a].free_blocks[i]].size > size
                /\ split(a, i, size)
             \/ /\ Fits(a, size) # {}
                /\ block[a][page[a].free_blocks[i]].size = size
                /\ exact(a, i, size)
             \/ /\ Fits(a, size) = {}
                /\ fresh(a, page[a], block[a], size)
       /\ UNCHANGED mem_pool
    \/ /\ Serving(size) = {}
       /\ LET a  == Least(Area \ Covered)
              pg == NewPage(size + HDR + PHDR)
          IN /\ Area \ Covered # {}
             /\ fresh(a, pg, <<>>, size)
             /\ astray' = (Extent(a, pg.og_size) \cap Covered # {})
             /\ mem_pool' = Append(mem_pool, a)
  BY DEF malloc
<1>2. size \in Nat
  BY HeapNumbers
<1>3. CASE Serving(size) # {}
  <2> DEFINE k == Least(Serving(size))
             a == mem_pool[k]
             i == Least(Fits(a, size))
             off == page[a].free_blocks[i]
  <2>1. /\ mem_pool \in Seq(Area) /\ DOMAIN mem_pool = 1 .. Len(mem_pool)
        /\ \A b : (\E j \in 1 .. Len(mem_pool) : mem_pool[j] = b) <=> b \in Mapped
    BY DEF Sound, Pooled
  <2>2. k \in Serving(size)
    <3>1. Serving(size) \in SUBSET Nat
      BY <2>1 DEF Serving
    <3> QED BY <3>1, <1>3, LeastIs
  <2>3. a \in Mapped /\ (Fits(a, size) # {} \/ page[a].free_size >= size + HDR)
    BY <2>1, <2>2 DEF Serving
  <2>4. /\ \/ /\ Fits(a, size) # {}
              /\ block[a][off].size > size
              /\ split(a, i, size)
           \/ /\ Fits(a, size) # {}
              /\ block[a][off].size = size
              /\ exact(a, i, size)
           \/ /\ Fits(a, size) = {}
              /\ fresh(a, page[a], block[a], size)
        /\ mem_pool' = mem_pool
    BY <1>1, <1>3
  <2> HIDE DEF k
  <2> HIDE DEF a
  <2>5. /\ a \in Area /\ AreaSound(page[a], block[a], HeldIn(a))
        /\ page = [page EXCEPT ![a] = page[a]] /\ block = [block EXCEPT ![a] = block[a]]
    BY <2>3, SoundAt
  <2>6. /\ Tiled(page[a], block[a]) /\ page[a] \in page_block_t /\ Blocks(block[a])
        /\ page[a].free_blocks \in Seq(Nat)
        /\ DOMAIN page[a].free_blocks = 1 .. Len(page[a].free_blocks)
        /\ \A j \in DOMAIN page[a].free_blocks : page[a].free_blocks[j] \in DOMAIN block[a]
    BY <2>5, ListIs DEF AreaSound, Tiled
  <2>7. page \in [Area -> page_block_t \cup {EMPTY}] /\ DOMAIN block = Area
    BY DEF Sound, Rooms
  <2>8. ASSUME Fits(a, size) # {} PROVE i \in DOMAIN page[a].free_blocks
    <3>1. Fits(a, size) \in SUBSET Nat
      BY <2>6 DEF Fits
    <3>2. i \in Fits(a, size)
      BY <2>8, <3>1, LeastIs
    <3> QED BY <3>2 DEF Fits
  <2> HIDE DEF i
  <2>9. CASE Fits(a, size) # {} /\ block[a][off].size > size /\ split(a, i, size)
    <3> DEFINE rest == off + size + HDR
               left == block[a][off].size - (size + HDR)
               pm == [page[a] EXCEPT !.free_blocks[i] = rest]
               bm == WithBlock(WithBlock(block[a], rest, left), off, size)
    <3>1. i \in DOMAIN page[a].free_blocks
      BY <2>8, <2>9
    <3>2. off \in DOMAIN block[a]
      BY <2>6, <3>1
    <3>3. left \in Int
      <4>1. block[a][off].size \in Nat
        BY <2>6, <3>2 DEF Blocks
      <4> QED BY <4>1, <1>2, HeapNumbers
    <3>4. /\ page' = [page EXCEPT ![a].free_blocks[i] = rest]
          /\ block' = [block EXCEPT ![a] =
                WithBlock(WithBlock(@, rest, IF left < 0 THEN SIZES + left ELSE left), off, size)]
          /\ Hold(a, off, size) /\ astray' = (left < 0)
      BY <2>9 DEF split
    <3>5. ~(left < 0)
      BY <3>4
    <3>6. block' = [block EXCEPT ![a] = WithBlock(WithBlock(@, rest, left), off, size)]
      BY <3>4, <3>5
    <3>7. Put(a, pm, bm) /\ pm.og_size = page[a].og_size
      BY <3>4, <3>6, <2>5, <2>6, <2>7 DEF Put, page_block_t
    <3>8. left >= 0
      BY <3>3, <3>5
    <3>9. Cut(page[a], block[a], i, size, off, rest, left, pm, bm)
      BY <3>8 DEF Cut
    <3> HIDE DEF pm, bm, rest, left, off
    <3>10. Given(block[a], pm, bm, HeldIn(a), off, size)
      BY <3>9, <3>1, <2>5, <1>2, SplitArea
    <3>11. Clear(a, pm.og_size)
      BY <3>7, <2>3 DEF Sound, Apart
    <3> QED BY <3>4, <3>7, <3>10, <3>11, <2>3, <2>4, <2>5, HoldStep
  <2>10. CASE Fits(a, size) # {} /\ block[a][off].size = size /\ exact(a, i, size)
    <3> DEFINE pm == [page[a] EXCEPT !.free_blocks = RemoveAt(page[a].free_blocks, i)]
               bm == [block[a] EXCEPT ![off].stale = i < Len(page[a].free_blocks)]
    <3>1. i \in DOMAIN page[a].free_blocks
      BY <2>8, <2>10
    <3>2. /\ page' = [page EXCEPT ![a].free_blocks = RemoveAt(page[a].free_blocks, i)]
          /\ block' = [block EXCEPT ![a][off].stale = i < Len(page[a].free_blocks)]
          /\ Hold(a, off, size)
      BY <2>10 DEF exact
    <3>3. Put(a, pm, bm) /\ pm.og_size = page[a].og_size
      BY <3>2, <2>5, <2>6, <2>7 DEF Put, page_block_t
    <3>4. Taken(page[a], block[a], i, off, pm, bm)
      BY DEF Taken
    <3> HIDE DEF pm, bm, off
    <3>5. Given(block[a], pm, bm, HeldIn(a), off, block[a][off].size)
      BY <3>1, <3>4, <2>5, ExactArea
    <3>6. Given(block[a], pm, bm, HeldIn(a), off, size)
      BY <3>5, <2>10
    <3>7. Clear(a, pm.og_size)
      BY <3>3, <2>3 DEF Sound, Apart
    <3> QED BY <3>2, <3>3, <3>6, <3>7, <2>3, <2>4, <2>5, HoldStep
  <2>11. CASE Fits(a, size) = {} /\ fresh(a, page[a], block[a], size)
    <3> DEFINE pm == TakeRoom(page[a], size + HDR)
               new == page[a].next_free_addr
               bm == WithBlock(block[a], new, size)
    <3>1. Put(a, pm, bm) /\ Hold(a, new, size) /\ pm.og_size = page[a].og_size
      BY <2>6, <2>11 DEF fresh, Put, TakeRoom, page_block_t
    <3>2. page[a].free_size >= size + HDR
      BY <2>3, <2>11
    <3>3. Opened(page[a], block[a], size, new, pm, bm)
      BY DEF Opened
    <3> HIDE DEF pm, bm, new
    <3>4. Given(block[a], pm, bm, HeldIn(a), new, size)
      BY <3>2, <3>3, <2>5, <1>2, FreshArea
    <3>5. Clear(a, pm.og_size)
      BY <3>1, <2>3 DEF Sound, Apart
    <3> QED BY <3>1, <3>4, <3>5, <2>3, <2>4, <2>5, HoldStep
  <2> QED BY <2>4, <2>9, <2>10, <2>11
<1>4. CASE Serving(size) = {}
  <2> DEFINE n == size + HDR + PHDR
             pg == NewPage(n)
             a == Least(Area \ Covered)
             new == pg.next_free_addr
             pm == TakeRoom(pg, size + HDR)
             bm == WithBlock(<<>>, new, size)
  <2>1. /\ Area \ Covered # {}
        /\ fresh(a, pg, <<>>, size)
        /\ Extent(a, pg.og_size) \cap Covered = {}
        /\ mem_pool' = Append(mem_pool, a)
    BY <1>1, <1>4
  <2>2. Put(a, pm, bm) /\ Hold(a, new, size)
    BY <2>1 DEF fresh, Put
  <2>3. a \in Area /\ a \notin Covered
    <3>1. Area \ Covered \in SUBSET Nat
      BY HeapAssumption DEF Area
    <3> QED BY <2>1, <3>1, LeastIs
  <2>0. a \notin Mapped
    BY <2>3, CoversItself DEF Covered
  <2>4. HeldIn(a) = {}
    BY <2>0, HeldInIs DEF Sound, Present
  <2>5. n \in Nat /\ PHDR <= n /\ n - PHDR = size + HDR /\ size + HDR \in Nat
    BY <1>2, HeapNumbers
  <2>6. AreaSound(pg, <<>>, {}) /\ pg.free_size >= n - PHDR
    BY <2>5, NewArea
  <2>7. Opened(pg, <<>>, size, new, pm, bm)
    BY DEF Opened
  <2>8. pg.free_size >= size + HDR
    BY <2>5, <2>6
  <2>11. pm.og_size = pg.og_size
    BY DEF TakeRoom, NewPage
  <2> HIDE DEF n, pg, pm, bm, new, a
  <2>12. Clear(a, pm.og_size)
    BY <2>1, <2>11 DEF Clear, Covered
  <2>9. Given(<<>>, pm, bm, {}, new, size)
    BY <2>6, <2>7, <2>8, <1>2, FreshArea
  <2>10. Given(block[a], pm, bm, HeldIn(a), new, size)
    BY <2>4, <2>9 DEF Given, Keeps
  <2> QED BY <2>0, <2>1, <2>2, <2>3, <2>10, <2>12, HoldStep
<1> QED BY <1>3, <1>4

LEMMA FreeKeeps ==
  ASSUME Sound, ~astray', free
  PROVE  Sound'
<1>1. PICK h \in held :
    /\ held' = held \ {h}
    /\ \/ /\ is_page_free(h.area, h.off)
          /\ unmap_free_page(h.area)
       \/ /\ ~is_page_free(h.area, h.off)
          /\ LET a    == h.area
                 list == page[a].free_blocks
                 last == list[Len(list)]
             IN IF list # <<>> /\ last + block[a][last].size + HDR = h.off
                THEN merge(a, last, h.off) /\ UNCHANGED <<page, astray>>
                ELSE append(a, h.off)
          /\ UNCHANGED mem_pool
  BY DEF free
<1> DEFINE a == h.area
           off == h.off
           pg == page[a]
           bl == block[a]
           list == pg.free_blocks
           last == list[Len(list)]
<1>2. a \in Mapped /\ off \in HeldIn(a)
  BY HeldInIs DEF Sound, Present
<1>3. /\ a \in Area /\ AreaSound(pg, bl, HeldIn(a))
      /\ page = [page EXCEPT ![a] = pg] /\ block = [block EXCEPT ![a] = bl]
  BY <1>2, SoundAt
<1>4. Tiled(pg, bl) /\ Listed(pg, bl, HeldIn(a))
  BY <1>3 DEF AreaSound
<1>5. is_page_free(a, off) <=> HeldIn(a) = {off}
  BY <1>2, <1>4, FullIff DEF is_page_free
<1>6. page \in [Area -> page_block_t \cup {EMPTY}] /\ DOMAIN block = Area
  BY DEF Sound, Rooms
<1>7. CASE is_page_free(a, off)
  <2>1. unmap_free_page(a) /\ held' = held \ {h} /\ HeldIn(a) = {off}
    BY <1>1, <1>5, <1>7
  <2> QED BY <2>1, UnmapStep
<1>8. CASE ~is_page_free(a, off)
  <2>1. HeldIn(a) # {off} /\ mem_pool' = mem_pool /\ held' = held \ {h}
    BY <1>1, <1>5, <1>8
  <2>2. CASE list # <<>> /\ last + bl[last].size + HDR = off
    <3> DEFINE bm == [o \in DOMAIN bl \ {off} |->
                        IF o = last THEN [bl[o] EXCEPT !.size = @ + bl[off].size + HDR] ELSE bl[o]]
    <3>1. merge(a, last, off) /\ UNCHANGED <<page, astray>>
      BY <1>1, <1>8, <2>2
    <3>2. Put(a, pg, bm)
      <4>1. block' = [block EXCEPT ![a] = bm]
        BY <3>1, Zenon DEF merge
      <4>2. page' = [page EXCEPT ![a] = pg]
        BY <3>1, <1>3
      <4> HIDE DEF bm, pg, a
      <4> QED BY <4>1, <4>2 DEF Put
    <3>3. Merged(bl, last, off, bm)
      BY DEF Merged
    <3>4. last \in DOMAIN bl /\ last \notin HeldIn(a)
      <4>1. list \in Seq(Nat) /\ DOMAIN list = 1 .. Len(list)
        BY <1>4, ListIs
      <4>2. Len(list) \in DOMAIN list
        BY <4>1, <2>2
      <4> QED BY <4>2, <1>4 DEF Listed
    <3>5. last + bl[last].size + HDR = off
      BY <2>2
    <3> HIDE DEF bm, last, list
    <3>6. AreaSound(pg, bm, HeldIn(a) \ {off}) /\ Keeps(bl, bm, HeldIn(a) \ {off})
      BY <3>3, <3>4, <3>5, <1>2, <1>3, MergeArea
    <3> QED BY <3>1, <3>2, <3>6, <2>1, GiveStep
  <2>3. CASE ~(list # <<>> /\ last + bl[last].size + HDR = off)
    <3>1. append(a, off)
      BY <1>1, <1>8, <2>3
    <3> DEFINE pm == [pg EXCEPT !.free_blocks = Append(@, off)]
    <3>2. page' = [page EXCEPT ![a].free_blocks = Append(@, off)] /\ block' = block
      BY <3>1 DEF append
    <3>3. Put(a, pm, bl) /\ pm.og_size = pg.og_size
      BY <3>2, <1>3, <1>4, <1>6 DEF Put, Tiled, page_block_t
    <3>4. Appended(pg, off, pm)
      BY DEF Appended
    <3> HIDE DEF pm
    <3>5. AreaSound(pm, bl, HeldIn(a) \ {off})
      BY <3>4, <1>2, <1>3, AppendArea
    <3>6. Keeps(bl, bl, HeldIn(a) \ {off})
      BY <1>4 DEF Keeps, Listed
    <3> QED BY <3>2, <3>3, <3>5, <3>6, <2>1, GiveStep
  <2> QED BY <2>2, <2>3
<1> QED BY <1>7, <1>8

LEMMA AstrayBoolean ==
  ASSUME Sound, ~astray, malloc \/ free, astray \in BOOLEAN
  PROVE  astray' \in BOOLEAN
<1>1. CASE malloc
  <2>1. PICK size \in Size :
          \/ \E a, i : split(a, i, size)
          \/ \E a, i : exact(a, i, size)
          \/ astray' = astray
          \/ \E a, pg : astray' = (Extent(a, pg.og_size) \cap Covered # {})
    BY <1>1, Zenon DEF malloc
  <2>2. ASSUME NEW a, NEW i, split(a, i, size) PROVE astray' \in BOOLEAN
    <3>1. PICK left : astray' = (left < 0)
      BY <2>2, Zenon DEF split
    <3> QED BY <3>1, SMT
  <2>3. ASSUME NEW a, NEW i, exact(a, i, size) PROVE astray' \in BOOLEAN
    BY <2>3 DEF exact
  <2>4. ASSUME NEW a, NEW pg, astray' = (Extent(a, pg.og_size) \cap Covered # {}) PROVE astray' \in BOOLEAN
    BY <2>4
  <2> QED BY <2>1, <2>2, <2>3, <2>4
<1>2. CASE free
  <2>1. PICK h \in held :
          \/ unmap_free_page(h.area)
          \/ astray' = astray
          \/ append(h.area, h.off)
    BY <1>2 DEF free
  <2>2. h.area \in Mapped /\ h.off \in DOMAIN block[h.area]
    BY DEF Sound, Present
  <2>3. block[h.area][h.off].stale \in BOOLEAN
    BY <2>2 DEF Sound, Rooms, Tiled, Blocks
  <2> QED BY <2>1, <2>3 DEF unmap_free_page, append
<1> QED BY <1>1, <1>2

LEMMA HeapInvStep == HeapInv /\ [HeapNext]_heapvars => HeapInv'
<1> SUFFICES ASSUME HeapInv, [HeapNext]_heapvars PROVE HeapInv'
  OBVIOUS
<1>1. CASE UNCHANGED heapvars
  <2>1. UNCHANGED <<mem_pool, page, block, held, astray>>
    BY <1>1 DEF heapvars
  <2>2. Mapped' = Mapped /\ \A b : (HeldIn(b))' = HeldIn(b)
    BY <2>1 DEF Mapped, HeldIn
  <2> SUFFICES ASSUME Sound PROVE Sound'
    BY <2>1 DEF HeapInv
  <2>3. Pooled'
    BY <2>1, <2>2 DEF Sound, Pooled
  <2>4. Rooms'
    BY <2>1, <2>2 DEF Sound, Rooms
  <2>5. Holdings' /\ Present'
    BY <2>1, <2>2 DEF Sound, Holdings, Present
  <2>6. Exact'
    BY <2>1, <2>2 DEF Sound, Exact
  <2>7. Apart'
    BY <2>1, <2>2 DEF Sound, Apart, Clear
  <2> QED BY <2>3, <2>4, <2>5, <2>6, <2>7 DEF Sound
<1>2. CASE HeapNext
  <2>1. ~astray /\ (malloc \/ free)
    BY <1>2 DEF HeapNext
  <2>2. Sound
    BY <2>1 DEF HeapInv
  <2>3. astray' \in BOOLEAN
    BY <2>1, <2>2, AstrayBoolean DEF HeapInv
  <2> QED BY <2>1, <2>2, <2>3, MallocKeeps, FreeKeeps DEF HeapInv
<1> QED BY <1>1, <1>2

LEMMA HeapInvAlways == HeapSpec => []HeapInv
BY HeapInvInit, HeapInvStep, PTL DEF HeapSpec

-----------------------------------------------------------------------------
(* Until malloc or free goes astray, their state stays well formed: the free   *)
(* list of a page block only names its blocks, and its unused room starts      *)
(* between its header and its end. *)
THEOREM HeapTypes == HeapSpec => []HeapTypeOK
<1>1. HeapInv => HeapTypeOK
  <2> SUFFICES ASSUME HeapInv, ~astray
               PROVE  HeapTypeOK
    BY DEF HeapInv, HeapTypeOK
  <2>0. Sound
    BY DEF HeapInv
  <2>1. ASSUME NEW a \in Mapped
        PROVE  /\ page[a].og_size \in Nat /\ page[a].free_size \in Nat
               /\ page[a].next_free_addr \in PHDR .. page[a].og_size
               /\ page[a].free_blocks \in Seq(DOMAIN block[a])
               /\ \A o \in DOMAIN block[a] : block[a][o] \in [size : Nat, stale : BOOLEAN]
    <3>1. Tiled(page[a], block[a])
      BY <2>0 DEF Sound, Rooms
    <3>2. /\ page[a].og_size \in Nat /\ page[a].free_size \in Nat /\ page[a].next_free_addr \in Nat
          /\ PHDR <= page[a].next_free_addr
          /\ page[a].next_free_addr + page[a].free_size = page[a].og_size
          /\ page[a].free_blocks \in Seq(DOMAIN block[a])
      BY <3>1 DEF Tiled, page_block_t
    <3>3. page[a].next_free_addr \in PHDR .. page[a].og_size
      BY <3>2, HeapNumbers
    <3>4. \A o \in DOMAIN block[a] : block[a][o] \in [size : Nat, stale : BOOLEAN]
      BY <3>1 DEF Tiled, Blocks
    <3> QED BY <3>2, <3>3, <3>4
  <2>2. mem_pool \in Seq(Area) /\ held \subseteq [area : Area, off : Nat, size : Size]
    BY <2>0 DEF Sound, Pooled, Holdings
  <2> QED BY <2>1, <2>2, Zenon DEF HeapInv, HeapTypeOK
<1> QED BY <1>1, HeapInvAlways, PTL

(* Until a split leaves less than a header, a stale link is put back or mmap   *)
(* gives a page block in pieces, the mem_blocks of a page block lie one behind *)
(* the other from its header to its unused room, whatever else malloc splits   *)
(* and free merges. *)
THEOREM HeapBlocksTile == HeapSpec => []BlocksTile
<1>1. HeapInv => BlocksTile
  <2> SUFFICES ASSUME HeapInv, ~astray, NEW a \in Mapped
               PROVE  LET ends == {PHDR} \cup {End(a, o) : o \in DOMAIN block[a]}
                      IN /\ \A o, p \in DOMAIN block[a] : o < p => End(a, o) <= p
                         /\ ends = DOMAIN block[a] \cup {page[a].next_free_addr}
                         /\ page[a].next_free_addr + page[a].free_size = page[a].og_size
    BY DEF BlocksTile
  <2>0. Sound
    BY DEF HeapInv
  <2>1. Tiled(page[a], block[a])
    BY <2>0 DEF Sound, Rooms
  <2>2. \A o : End(a, o) = Fin(block[a], o)
    BY DEF End, Fin
  <2>3. \A o, p \in DOMAIN block[a] : o < p => End(a, o) <= p
    BY <2>1, <2>2 DEF Tiled
  <2>4. \A x : (x = PHDR \/ \E o \in DOMAIN block[a] : x = End(a, o))
                 <=> (x \in DOMAIN block[a] \/ x = page[a].next_free_addr)
    BY <2>1, <2>2 DEF Tiled
  <2>5. {PHDR} \cup {End(a, o) : o \in DOMAIN block[a]} = DOMAIN block[a] \cup {page[a].next_free_addr}
    BY <2>4
  <2>6. page[a].next_free_addr + page[a].free_size = page[a].og_size
    BY <2>1 DEF Tiled
  <2> QED BY <2>3, <2>5, <2>6
<1> QED BY <1>1, HeapInvAlways, PTL

(* Until one of these three steps is made, a block is on the free list of its  *)
(* page block once or is held, and never both. *)
THEOREM HeapFreeOrHeld == HeapSpec => []FreeOrHeld
<1>1. HeapInv => FreeOrHeld
  <2> SUFFICES ASSUME HeapInv, ~astray, NEW a \in Mapped
               PROVE  LET list == page[a].free_blocks
                      IN /\ \A i, j \in DOMAIN list : list[i] = list[j] => i = j
                         /\ {list[i] : i \in DOMAIN list} = DOMAIN block[a] \ HeldIn(a)
                         /\ HeldIn(a) \subseteq DOMAIN block[a]
    BY DEF FreeOrHeld
  <2>0. Sound
    BY DEF HeapInv
  <2>1. Listed(page[a], block[a], HeldIn(a))
    BY <2>0 DEF Sound, Exact
  <2> DEFINE list == page[a].free_blocks
  <2>2. /\ \A i, j \in DOMAIN list : list[i] = list[j] => i = j
        /\ \A o : (\E i \in DOMAIN list : list[i] = o) <=> (o \in DOMAIN block[a] /\ o \notin HeldIn(a))
        /\ HeldIn(a) \subseteq DOMAIN block[a]
    BY <2>1 DEF Listed
  <2> HIDE DEF list
  <2>3. {list[i] : i \in DOMAIN list} = DOMAIN block[a] \ HeldIn(a)
    BY <2>2
  <2> QED BY <2>2, <2>3 DEF list
<1> QED BY <1>1, HeapInvAlways, PTL

(* Until one of these three steps is made, what a program holds stays mapped,  *)
(* as large as it asked for and in pages of its own page block only: free      *)
(* never unmaps a page in which something else is held. *)
THEOREM HeapHeldIsThere == HeapSpec => []HeldIsThere
<1>1. HeapInv => HeldIsThere
  <2> SUFFICES ASSUME Sound PROVE HeldIsThere
    BY DEF HeapInv, HeldIsThere
  <2> SUFFICES ASSUME NEW h \in held
               PROVE  /\ h.area \in Mapped
                      /\ h.off \in DOMAIN block[h.area]
                      /\ block[h.area][h.off].size >= h.size
                      /\ \A b \in Mapped \ {h.area} :
                           Extent(b, page[b].og_size) \cap Extent(h.area, page[h.area].og_size) = {}
    BY DEF HeldIsThere
  <2>1. h.area \in Mapped /\ h.off \in DOMAIN block[h.area] /\ block[h.area][h.off].size >= h.size
    BY DEF Sound, Present
  <2>2. Clear(h.area, page[h.area].og_size)
    BY <2>1 DEF Sound, Apart
  <2> QED BY <2>1, <2>2 DEF Clear
<1> QED BY <1>1, HeapInvAlways, PTL

(* Until one of these three steps is made, mem_pool has the mapped page blocks *)
(* and each of them has a block that is held: is_page_free finds every page    *)
(* block whose last block is freed. *)
THEOREM HeapEmptyGivenBack == HeapSpec => []EmptyGivenBack
<1>1. HeapInv => EmptyGivenBack
  <2> SUFFICES ASSUME HeapInv, ~astray
               PROVE  /\ \A a \in Mapped : HeldIn(a) # {}
                      /\ Mapped = {mem_pool[k] : k \in DOMAIN mem_pool}
    BY DEF EmptyGivenBack
  <2>0. Sound
    BY DEF HeapInv
  <2>1. \A a \in Mapped : HeldIn(a) # {}
    BY <2>0 DEF Sound, Exact
  <2>2. /\ DOMAIN mem_pool = 1 .. Len(mem_pool)
        /\ \A a : (\E k \in 1 .. Len(mem_pool) : mem_pool[k] = a) <=> a \in Mapped
    BY <2>0 DEF Sound, Pooled
  <2>3. Mapped = {mem_pool[k] : k \in DOMAIN mem_pool}
    BY <2>2
  <2> QED BY <2>1, <2>3
<1> QED BY <1>1, HeapInvAlways, PTL
=============================================================================
