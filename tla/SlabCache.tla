------------------------------ MODULE SlabCache ------------------------------
(***************************************************************************)
(* One slab cache of the kernel heap (kernel/memory.c, kmalloc and kfree   *)
(* for sizes up to 2048).  A slab is a page: its header, then objects.     *)
(* The array free_list, a stack of the addresses of the free objects, has  *)
(* no room of its own: it starts where object 0 starts (memory.h:44-55,    *)
(* memory.c:448-452), so its first entries lie inside the objects with the *)
(* lowest indices.                                                         *)
(*                                                                         *)
(* The cache of objects of 2048 bytes has TOTAL = 1; the one of 1024 bytes *)
(* has TOTAL = 3 and all of its free_list inside object 0.                 *)
(*                                                                         *)
(* `wild' is set when the allocator uses a slab that is gone or empty, and *)
(* when it returns a word from free_list that a caller wrote there; the    *)
(* model stops behind that step.  Slip_ operators are as in Scheduler.     *)
(***************************************************************************)
EXTENDS Naturals, FiniteSets

CONSTANTS
  Page,    \* the pages of the kernel heap that can become slabs
  NULL,
  TOTAL,   \* total_count: objects in a slab
  WORDS    \* obj_size / sizeof(void*): free_list entries an object covers

Index == 0 .. TOTAL - 1

(* What is in an entry of free_list when the allocator did not put it there: a *)
(* caller's data.  It may be the address of an object of this cache, held or    *)
(* not (a file_t has its ops there, fs.c:239), or no such address; which one    *)
(* matters, and is chosen, when kmalloc pops it. *)
JUNK == TOTAL

ASSUME SlabAssumption ==
  /\ NULL \notin Page
  /\ TOTAL \in Nat \ {0}
  /\ WORDS \in Nat \ {0}
  /\ IsFiniteSet(Page)

VARIABLES
  partial, full,        \* the heads of the cache's two lists
  next, prev,           \* slab_t.next and slab_t.prev
  free_count,
  free_list,
  mapped,               \* the pages that mmap gave to this cache
  used,                 \* the objects <<page, index>> that callers hold
  low,                  \* history: the slabs that handed out an object under free_list
  wild

lists == <<partial, full, next, prev>>
vars == <<lists, free_count, free_list, mapped, used, low, wild>>

(* The objects that entries of free_list lie in. *)
Covers(i, k) == k \div WORDS = i
LowIndex == {i \in Index : \E k \in Index : Covers(i, k)}

-----------------------------------------------------------------------------
(***************************************************************************)
(* List surgery on links l = [nx |-> ..., pv |-> ...], one assignment of   *)
(* the code after the other.                                               *)
(***************************************************************************)
SetNext(l, c, s, v) == IF c THEN [l EXCEPT !.nx[s] = v] ELSE l
SetPrev(l, c, s, v) == IF c THEN [l EXCEPT !.pv[s] = v] ELSE l

Slip_unlink(l, s) == SetNext(l, l.pv[s] # NULL, l.pv[s], l.nx[s])

unlink(l, s) ==
  LET m == SetNext(l, l.pv[s] # NULL, l.pv[s], l.nx[s])
  IN SetPrev(m, m.nx[s] # NULL, m.nx[s], m.pv[s])

push(l, s, head) ==
  LET m == SetPrev(l, head # NULL, head, s)
  IN [m EXCEPT !.nx[s] = head, !.pv[s] = NULL]

Links == [nx |-> next, pv |-> prev]

SetLinks(l) == next' = l.nx /\ prev' = l.pv

-----------------------------------------------------------------------------
Init ==
  /\ partial = NULL
  /\ full = NULL
  /\ next = [p \in Page |-> NULL]
  /\ prev = [p \in Page |-> NULL]
  /\ free_count = [p \in Page |-> 0]
  /\ free_list = [p \in Page |-> [k \in Index |-> JUNK]]
  /\ mapped = {}
  /\ used = {}
  /\ low = {}
  /\ wild = FALSE

HandOut(s, i) ==
  /\ used' = used \cup {<<s, i>>}
  /\ low' = IF i \in LowIndex THEN low \cup {s} ELSE low
  /\ UNCHANGED wild

(* The slab leaves the head of the partial list for the head of the full one. *)
to_full(s) ==
  /\ SetLinks(push(SetPrev(Links, next[s] # NULL, next[s], NULL), s, full))
  /\ partial' = next[s]
  /\ full' = s

(* The slab is there and its counter is not 0. *)
Offers(s) == s \in mapped /\ free_count[s] > 0

Slip_Top(s) == free_list[s][0]

(* The last entry of a slab's list of free objects. *)
Top(s) == free_list[s][free_count[s] - 1]

(* The counter goes down, and a slab with nothing left changes lists. *)
pop(s) ==
  /\ free_count' = [free_count EXCEPT ![s] = free_count[s] - 1]
  /\ IF free_count[s] = 1 THEN to_full(s) ELSE UNCHANGED lists

(* A word that a caller wrote is returned as if it were a free object: now two  *)
(* may hold the same object, be it of this slab or of another, or the caller    *)
(* gets what is no object at all. *)
hand_out_junk ==
  /\ used' \in {used} \cup {used \cup {o} : o \in mapped \X Index}
  /\ wild' = TRUE
  /\ UNCHANGED low

(* kmalloc from the first partial slab. *)
kmalloc_partial ==
  LET s == partial
  IN /\ partial # NULL
     /\ \/ /\ ~Offers(s)
           /\ wild' = TRUE
           /\ UNCHANGED <<lists, free_count, used, low>>
        \/ /\ Offers(s)
           /\ pop(s)
           /\ IF Top(s) = JUNK THEN hand_out_junk ELSE HandOut(s, Top(s))
     /\ UNCHANGED <<free_list, mapped>>

(* kmalloc with no partial slab: a page is mapped, filled in and put on the   *)
(* partial list, and its last object handed out, whatever remains. *)
kmalloc_new ==
  /\ partial = NULL
  /\ \E s \in Page \ mapped :
       /\ mapped' = mapped \cup {s}
       /\ SetLinks([nx |-> [next EXCEPT ![s] = NULL], pv |-> [prev EXCEPT ![s] = NULL]])
       /\ free_list' = [free_list EXCEPT ![s] = [k \in Index |-> k]]
       /\ free_count' = [free_count EXCEPT ![s] = TOTAL - 1]
       /\ partial' = s
       /\ HandOut(s, TOTAL - 1)
  /\ UNCHANGED full

kmalloc == ~wild /\ (kmalloc_partial \/ kmalloc_new)

(* A caller writes a word to an object it holds, and with it over the entry of *)
(* free_list that lies there. *)
caller_writes ==
  /\ ~wild
  /\ \E o \in used, k \in Index :
       /\ Covers(o[2], k)
       /\ free_list' = [free_list EXCEPT ![o[1]] = [free_list[o[1]] EXCEPT ![k] = JUNK]]
  /\ UNCHANGED <<lists, free_count, mapped, used, low, wild>>

(* The lists after the two `if's of kfree, for a slab with n free objects. *)
after_free(s, n) ==
  LET l1 == IF n = 1 THEN push(unlink(Links, s), s, partial) ELSE Links
      p1 == IF n = 1 THEN s ELSE partial
      l2 == IF n = TOTAL THEN unlink(l1, s) ELSE l1
  IN [links   |-> l2,
      full    |-> IF n = 1 /\ full = s THEN unlink(Links, s).nx[s] ELSE full,
      partial |-> IF n = TOTAL /\ p1 = s THEN l2.nx[s] ELSE p1]

(* kfree ends with the page going back to the heap when the slab has become   *)
(* empty; what it held is gone. *)
Release(s, a, n, fl) ==
  IF n = TOTAL
  THEN /\ mapped' = mapped \ {s}
       /\ low' = low \ {s}
       /\ SetLinks([nx |-> [a.links.nx EXCEPT ![s] = NULL],
                    pv |-> [a.links.pv EXCEPT ![s] = NULL]])
       /\ free_count' = [free_count EXCEPT ![s] = 0]
       /\ free_list' = [free_list EXCEPT ![s] = [k \in Index |-> JUNK]]
  ELSE /\ SetLinks(a.links)
       /\ free_count' = [free_count EXCEPT ![s] = n]
       /\ free_list' = [free_list EXCEPT ![s] = fl]
       /\ UNCHANGED <<mapped, low>>

Slip_kfree ==
  /\ ~wild
  /\ \E o \in used :
       LET s == o[1]
           n == free_count[s] + 1
           a == after_free(s, n)
       IN /\ used' = used \ {o}
          /\ full' = a.full
          /\ partial' = a.partial
          /\ Release(s, a, n, free_list[s])
          /\ UNCHANGED wild

(* kfree of an object its caller holds.  The address goes into free_list,      *)
(* whether or not the entry lies in an object that is still held. *)
kfree ==
  /\ ~wild
  /\ \E o \in used :
       LET s == o[1]
           n == free_count[s] + 1
           a == after_free(s, n)
       IN /\ used' = used \ {o}
          /\ full' = a.full
          /\ partial' = a.partial
          /\ Release(s, a, n, [free_list[s] EXCEPT ![n - 1] = o[2]])
          /\ UNCHANGED wild

Next == kmalloc \/ caller_writes \/ kfree

Spec == Init /\ [][Next]_vars
-----------------------------------------------------------------------------
TypeOK ==
  /\ partial \in Page \cup {NULL}
  /\ full \in Page \cup {NULL}
  /\ next \in [Page -> Page \cup {NULL}]
  /\ prev \in [Page -> Page \cup {NULL}]
  /\ free_count \in [Page -> 0 .. TOTAL]
  /\ free_list \in [Page -> [Index -> Index \cup {JUNK}]]
  /\ mapped \subseteq Page
  /\ used \subseteq Page \X Index
  /\ low \subseteq Page
  /\ wild \in BOOLEAN

(* The slabs on the list that starts at head. *)
OnList(head) ==
  {p \in Page : \A S \in SUBSET Page :
     (head \in S /\ \A u \in S : next[u] # NULL => next[u] \in S) => p \in S}
Slabs(head) == IF head = NULL THEN {} ELSE OnList(head)

(* The two lists are disjoint, hold every slab, the partial list the slabs    *)
(* with a free object and the full list those without, and next and prev      *)
(* mirror each other on them (memory.c:424-430, :474-488).                    *)
ListsSound ==
  /\ Slabs(partial) = {s \in mapped : free_count[s] > 0}
  /\ Slabs(full) = {s \in mapped : free_count[s] = 0}
  /\ \A h \in {partial, full} \ {NULL} : prev[h] = NULL
  /\ \A s, t \in mapped : next[s] = t <=> prev[t] = s

(* "In the current state of the allocator its not possible to have an empty   *)
(* slab, ALL empty slabs are freed" (memory.h:63-64): every slab on a list is *)
(* mapped and a caller holds an object of it. *)
NoEmptySlab ==
  \A s \in Slabs(partial) \cup Slabs(full) : s \in mapped /\ \E o \in used : o[1] = s

(* What the allocator itself put on a list of free objects is not held by a     *)
(* caller, and is on it once. *)
OfferedOnce ==
  \A s \in mapped : \A j, k \in 0 .. free_count[s] - 1 :
    free_list[s][j] # JUNK =>
      /\ <<s, free_list[s][j]>> \notin used
      /\ free_list[s][j] = free_list[s][k] => j = k

(* Every object of a slab is held or offered, as long as the slab has handed   *)
(* out none of the objects that free_list lies in. *)
HeldOrOffered ==
  \A s \in mapped \ low :
    {i \in Index : <<s, i>> \notin used} = {free_list[s][k] : k \in 0 .. free_count[s] - 1}

(* kmalloc hands out no object that is held, up to the first time it pops a     *)
(* word that a caller wrote: writing over other entries, and the entries kfree  *)
(* puts in their place, do no harm to those that are left (memory.c:421, :471). *)
NeverTwice == ~wild => OfferedOnce

(* Up to then no object of a slab is lost either, if the slab has handed out    *)
(* none of the objects that free_list lies in (memory.c:448-456, :471). *)
NothingLost == ~wild => HeldOrOffered
=============================================================================
