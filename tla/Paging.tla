-------------------------------- MODULE Paging --------------------------------
(***************************************************************************)
(* Physical frames and the page tables that hold them: pmm_alloc and       *)
(* pmm_free, the kernel heap's mmap and unmmap, the address space of a     *)
(* task from mmap_ring3 to unmmap_ring3 (kernel/memory.c), and the mmap    *)
(* and munmap system calls (kernel/syscall/mmap.c, munmap.c).              *)
(*                                                                         *)
(* A page directory is modelled with the page tables it leads to: an entry *)
(* is a table, [frame |-> f, pte |-> [slot -> frame]].  A table is cleared *)
(* when it is allocated, so what a freed one held does not matter.  The    *)
(* window map_tmp_page opens is closed again inside each handler.          *)
(*                                                                         *)
(* Running out of frames or of heap pages is not detected by the code:     *)
(* pmm_alloc then returns a frame that does not exist (memory.c:138-159).  *)
(* sys_munmap checks neither its address nor its length nor whether an     *)
(* entry is present: for an absent one it frees frame 0, an absent table   *)
(* it takes to be frame 0, and in the upper half it clears the kernel's    *)
(* own tables.  `wild' is set when memory runs out, when frame 0 is freed  *)
(* while it is in use and when sys_munmap writes to frame 0 or to the      *)
(* kernel's tables; the model stops there, because what the kernel then    *)
(* overwrites is arbitrary.  Slip_ operators are as in Scheduler.          *)
(***************************************************************************)
EXTENDS Integers, FiniteSets

CONSTANTS
  Task,      \* the ring-3 tasks that can exist at a time
  FRAMES,    \* bitmap_size
  RESERVED,  \* the frames populate_bitmap leaves used: the kernel, frame 0 too
  PTES,      \* entries of a page table (1024)
  UPDE,      \* directory entries below KERNEL_BASE (768)
  KPDE,      \* directory entries of the kernel heap
  RUN_BOUND  \* the longest run of pages asked for at once

Frame == 0 .. FRAMES - 1
Slot == 0 .. PTES - 1
ABSENT == -1
CODE == <<0, 1>>     \* USER_CODE and USER_STACK as <<directory entry, slot>>
STACK == <<0, 2>>

(* Memory runs out before the addresses below KERNEL_BASE do. *)
ASSUME PagingAssumption ==
  /\ FRAMES \in Nat /\ PTES \in Nat /\ UPDE \in Nat \ {0} /\ KPDE \in Nat \ {0}
  /\ PTES > 2
  /\ FRAMES < UPDE * PTES
  /\ RESERVED \subseteq Frame /\ 0 \in RESERVED
  /\ RUN_BOUND \in Nat

VARIABLES
  bitmap,        \* the frames whose bit is set
  kernel_pd,     \* kernel_page_directory, the entries of the heap
  kheap_pages,   \* the pages of the heap marked as taken
  runs,          \* history: the runs <<first page, length>> held by callers of mmap
  space,         \* [Task -> directory]; cr3 = ABSENT for a task that does not exist
  regions,       \* history: what sys_mmap returned and sys_munmap has not taken back
  torn,          \* history: the tasks that were given a region in pieces, or called
                 \* munmap for other pages than exactly one region
  wild

vars == <<bitmap, kernel_pd, kheap_pages, runs, space, regions, torn, wild>>

NoTable == [frame |-> ABSENT, pte |-> [j \in Slot |-> ABSENT]]
NoSpace == [cr3 |-> ABSENT, user |-> [i \in 0 .. UPDE - 1 |-> NoTable],
            kernel |-> [i \in 0 .. KPDE - 1 |-> ABSENT]]

-----------------------------------------------------------------------------
Slip_pmm_alloc(used) ==
  IF Frame \subseteq used THEN FRAMES
  ELSE LET free == Frame \ used
           low  == CHOOSE f \in free : \A g \in free : f <= g
       IN low + 1

(* pmm_alloc(1): the first frame whose bit is clear; when there is none, the   *)
(* search ends at bitmap_size and the frame after the last is returned. *)
pmm_alloc(used) ==
  IF Frame \subseteq used THEN FRAMES
  ELSE CHOOSE f \in Frame \ used : \A g \in Frame \ used : f <= g

(* pmm_free of each of the given frames. *)
pmm_free(used, frames) == used \ frames

Overrun(used) == FRAMES \in used

(* The n pages from the v-th on, as <<directory entry, slot>>. *)
At(v) == <<v \div PTES, v % PTES>>
Pages(v, n) == {At(k) : k \in v .. v + n - 1}

-----------------------------------------------------------------------------
(* One round of mmap's loop on m = [used, pd]: a frame for page v of the heap *)
(* and, if the directory has none yet, a page table for it. *)
MapHeapPage(m, v) ==
  LET i     == At(v)[1]
      page  == pmm_alloc(m.used)
      used1 == m.used \cup {page}
      new   == m.pd[i].frame = ABSENT
      table == pmm_alloc(used1)
  IN [used |-> IF new THEN used1 \cup {table} ELSE used1,
      pd   |-> [m.pd EXCEPT ![i].frame = IF new THEN table ELSE @,
                            ![i].pte[At(v)[2]] = page]]

(* mmap's loop for n pages from page v on: m before each round and behind the  *)
(* last. *)
HeapRounds(m, v, n) ==
  LET after[i \in 0 .. n] == IF i = 0 THEN m ELSE MapHeapPage(after[i - 1], v + i - 1)
  IN after

(* free_virt_area_idx: the first run of n free pages of the heap. *)
Slip_FreeRuns(n) == {v \in 0 .. KPDE * PTES - n : v \notin kheap_pages}

FreeRuns(n) ==
  {v \in 0 .. KPDE * PTES - n : (v .. v + n - 1) \cap kheap_pages = {}}

(* The numbers of pages asked for: one for a slab, one or more by             *)
(* fp_allocation. *)
npages == 1 .. RUN_BOUND

(* mmap, from kmalloc or fp_allocation. *)
mmap ==
  \E n \in npages :
    IF FreeRuns(n) = {}
    THEN wild' = TRUE /\ UNCHANGED <<bitmap, kernel_pd, kheap_pages, runs, space, regions, torn>>
    ELSE LET v == CHOOSE x \in FreeRuns(n) : \A y \in FreeRuns(n) : x <= y
             m == HeapRounds([used |-> bitmap, pd |-> kernel_pd], v, n)[n]
         IN /\ bitmap' = m.used
            /\ kernel_pd' = m.pd
            /\ kheap_pages' = kheap_pages \cup v .. v + n - 1
            /\ runs' = runs \cup {<<v, n>>}
            /\ wild' = Overrun(m.used)
            /\ UNCHANGED <<space, regions, torn>>

Slip_unmmap ==
  \E r \in runs :
    LET gone == Pages(r[1], r[2])
        pd == [i \in 0 .. KPDE - 1 |->
                 LET t == [kernel_pd[i] EXCEPT !.pte =
                             [j \in Slot |-> IF <<i, j>> \in gone THEN ABSENT ELSE @[j]]]
                 IN IF \A j \in Slot : t.pte[j] = ABSENT THEN NoTable ELSE t]
    IN /\ kernel_pd' = pd
       /\ bitmap' = bitmap \ ({kernel_pd[p[1]].pte[p[2]] : p \in gone}
                              \cup {kernel_pd[i].frame : i \in {k \in 0 .. KPDE - 1 : pd[k] = NoTable}})
       /\ kheap_pages' = kheap_pages \ r[1] .. r[1] + r[2] - 1
       /\ runs' = runs \ {r}
       /\ UNCHANGED <<space, regions, torn, wild>>

(* unmmap, from kfree: the frames of a run are freed, its page tables stay. *)
unmmap ==
  \E r \in runs :
    LET gone == Pages(r[1], r[2])
    IN /\ kernel_pd' = [i \in 0 .. KPDE - 1 |-> [kernel_pd[i] EXCEPT !.pte =
                          [j \in Slot |-> IF <<i, j>> \in gone THEN ABSENT ELSE @[j]]]]
       /\ bitmap' = pmm_free(bitmap, {kernel_pd[p[1]].pte[p[2]] : p \in gone})
       /\ kheap_pages' = kheap_pages \ r[1] .. r[1] + r[2] - 1
       /\ runs' = runs \ {r}
       /\ UNCHANGED <<space, regions, torn, wild>>

-----------------------------------------------------------------------------
(* mmap_ring3: frames for the code, the stack, a page table and a directory,  *)
(* and a copy of the kernel's directory entries as they are now. *)
mmap_ring3 ==
  \E t \in Task :
    /\ space[t].cr3 = ABSENT
    /\ LET u0 == bitmap
           code == pmm_alloc(u0)          u1 == u0 \cup {code}
           stack == pmm_alloc(u1)         u2 == u1 \cup {stack}
           table == pmm_alloc(u2)         u3 == u2 \cup {table}
           dir == pmm_alloc(u3)           u4 == u3 \cup {dir}
       IN /\ bitmap' = u4
          /\ wild' = Overrun(u4)
          /\ space' = [space EXCEPT ![t] =
               [cr3 |-> dir,
                user |-> [NoSpace.user EXCEPT ![0] =
                  [frame |-> table,
                   pte |-> [NoTable.pte EXCEPT ![CODE[2]] = code, ![STACK[2]] = stack]]],
                kernel |-> [i \in 0 .. KPDE - 1 |-> kernel_pd[i].frame]]]
    /\ UNCHANGED <<kernel_pd, kheap_pages, runs, regions, torn>>

(* The frames of the user half of a directory: pages and page tables. *)
UserTables(d) == {d.user[i].frame : i \in 0 .. UPDE - 1} \ {ABSENT}
UserPages(d) == {p \in (0 .. UPDE - 1) \X Slot : d.user[p[1]].pte[p[2]] # ABSENT}
UserFrames(d) == {d.user[p[1]].pte[p[2]] : p \in UserPages(d)}

Slip_unmmap_ring3 ==
  \E t \in Task :
    /\ space[t].cr3 # ABSENT
    /\ bitmap' = bitmap \ (UserFrames(space[t]) \cup {space[t].cr3})
    /\ space' = [space EXCEPT ![t] = NoSpace]
    /\ regions' = {r \in regions : r.task # t}
    /\ torn' = torn \ {t}
    /\ UNCHANGED <<kernel_pd, kheap_pages, runs, wild>>

(* unmmap_ring3, from the reaper: all that the lower half leads to, and the   *)
(* directory. *)
unmmap_ring3 ==
  \E t \in Task :
    /\ space[t].cr3 # ABSENT
    /\ bitmap' = pmm_free(bitmap, UserFrames(space[t]) \cup UserTables(space[t]) \cup {space[t].cr3})
    /\ space' = [space EXCEPT ![t] = NoSpace]
    /\ regions' = {r \in regions : r.task # t}
    /\ torn' = torn \ {t}
    /\ UNCHANGED <<kernel_pd, kheap_pages, runs, wild>>

(* Every use of a frame: as a page or, with slot PTES, as the table of an      *)
(* entry of the heap or of a task, and as the directory of a task. *)
Use ==
  ({"heap"} \X {0} \X (0 .. KPDE - 1) \X (0 .. PTES))
    \cup ({"task"} \X Task \X (0 .. UPDE - 1) \X (0 .. PTES))
    \cup ({"dir"} \X Task \X {0} \X {0})

InTable(tab, j) == IF j = PTES THEN tab.frame ELSE tab.pte[j]

(* The frame in use there under the kernel's directory pd and the spaces sp. *)
FrameAt(pd, sp, u) ==
  IF u[1] = "heap" THEN InTable(pd[u[3]], u[4])
  ELSE IF u[1] = "task" THEN InTable(sp[u[2]].user[u[3]], u[4]) ELSE sp[u[2]].cr3

InUse == {u \in Use : FrameAt(kernel_pd, space, u) # ABSENT}

FramesInUse == {FrameAt(kernel_pd, space, u) : u \in InUse}

-----------------------------------------------------------------------------
(* The first page that sys_mmap finds free; it starts looking at page 1. *)
FirstFree(user) ==
  CHOOSE v \in 1 .. UPDE * PTES - 1 :
    /\ user[At(v)[1]].pte[At(v)[2]] = ABSENT
    /\ \A w \in 1 .. v - 1 : user[At(w)[1]].pte[At(w)[2]] # ABSENT

(* One page of sys_mmap on m = [used, user]: a page table first if there is   *)
(* none, then the page. *)
MapUserPage(m) ==
  LET a     == At(FirstFree(m.user))
      new   == m.user[a[1]].frame = ABSENT
      table == pmm_alloc(m.used)
      used1 == IF new THEN m.used \cup {table} ELSE m.used
      page  == pmm_alloc(used1)
  IN [used |-> used1 \cup {page},
      user |-> [m.user EXCEPT ![a[1]].frame = IF new THEN table ELSE @,
                              ![a[1]].pte[a[2]] = page]]

(* n rounds of it: m before each of them and behind the last. *)
UserRounds(m, n) ==
  LET after[i \in 0 .. n] == IF i = 0 THEN m ELSE MapUserPage(after[i - 1])
  IN after

(* sys_mmap of n pages: the first n free pages wherever they are, and the     *)
(* address of the first.  Asked for none, the loop takes all memory. *)
sys_mmap ==
  \E t \in Task, n \in 0 .. RUN_BOUND :
    /\ space[t].cr3 # ABSENT
    /\ IF n = 0
       THEN bitmap' = 0 .. FRAMES /\ wild' = TRUE /\ UNCHANGED <<space, regions, torn>>
       ELSE LET m == UserRounds([used |-> bitmap, user |-> space[t].user], n)[n]
                first == FirstFree(space[t].user)
                taken == Pages(first, n) \cap UserPages(space[t])
            IN /\ bitmap' = m.used
               /\ wild' = Overrun(m.used)
               /\ space' = [space EXCEPT ![t].user = m.user]
               /\ regions' = regions \cup {[task |-> t, first |-> first, len |-> n]}
               /\ torn' = IF taken # {} THEN torn \cup {t} ELSE torn
    /\ UNCHANGED <<kernel_pd, kheap_pages, runs>>

Slip_Unmapped(v, n) == Pages(v, n - 1)

Slip_Unmapped_more(v, n) ==
  {p \in (At(v)[1] .. UPDE + KPDE - 1) \X (At(v)[2] .. PTES - 1) :
     (p[1] - At(v)[1]) * (PTES - At(v)[2]) + (p[2] - At(v)[2]) <= n}

(* The entries sys_munmap clears for n pages from page v: it goes from the    *)
(* slot of v to the end of the table, and in each table that follows starts   *)
(* at that slot again. *)
Unmapped(v, n) ==
  {p \in (At(v)[1] .. UPDE + KPDE - 1) \X (At(v)[2] .. PTES - 1) :
     (p[1] - At(v)[1]) * (PTES - At(v)[2]) + (p[2] - At(v)[2]) < n}

(* History only: the pages where restarting at that slot makes no difference. *)
OneTable(v, n) == At(v)[2] = 0 \/ At(v)[1] = At(v + n - 1)[1]

(* sys_munmap of any n pages from any page v on: a region as sys_mmap returned *)
(* it, a part of one, the code or the stack, pages that are not mapped, or the  *)
(* kernel's half.  An entry that is absent makes it free frame 0; a table that  *)
(* is absent, or beyond the user half, makes it write to frame 0 or to the      *)
(* kernel's tables.  A call for no bytes changes nothing. *)
sys_munmap ==
  \E t \in Task, v \in 0 .. (UPDE + KPDE) * PTES - 1, n \in 1 .. RUN_BOUND :
    LET d == space[t]
        asked == [task |-> t, first |-> v, len |-> n]
        hit == Unmapped(v, n)
        gone == hit \cap UserPages(d)
        frames == {d.user[p[1]].pte[p[2]] : p \in gone}
    IN /\ d.cr3 # ABSENT
       /\ IF \E p \in hit : p[1] >= UPDE \/ d.user[p[1]].frame = ABSENT
          THEN wild' = TRUE /\ UNCHANGED <<bitmap, space>>
          ELSE /\ bitmap' = pmm_free(bitmap, frames \cup (IF gone = hit THEN {} ELSE {0}))
               /\ space' = [space EXCEPT ![t].user =
                    [i \in 0 .. UPDE - 1 |-> [d.user[i] EXCEPT !.pte =
                       [j \in Slot |-> IF <<i, j>> \in gone THEN ABSENT ELSE @[j]]]]]
               /\ wild' = (gone # hit /\ 0 \in FramesInUse)
       /\ regions' = regions \ {asked}
       /\ torn' = IF asked \in regions /\ OneTable(v, n) THEN torn ELSE torn \cup {t}
       /\ UNCHANGED <<kernel_pd, kheap_pages, runs>>

-----------------------------------------------------------------------------
Init ==
  /\ bitmap = RESERVED
  /\ kernel_pd = [i \in 0 .. KPDE - 1 |-> NoTable]
  /\ kheap_pages = {}
  /\ runs = {}
  /\ space = [t \in Task |-> NoSpace]
  /\ regions = {}
  /\ torn = {}
  /\ wild = FALSE

Next ==
  /\ ~wild
  /\ mmap \/ unmmap \/ mmap_ring3 \/ unmmap_ring3 \/ sys_mmap \/ sys_munmap

Spec == Init /\ [][Next]_vars
-----------------------------------------------------------------------------
Entry == -1 .. FRAMES
Table == [frame : Entry, pte : [Slot -> Entry]]

TypeOK ==
  /\ bitmap \subseteq 0 .. FRAMES
  /\ kernel_pd \in [0 .. KPDE - 1 -> Table]
  /\ kheap_pages \subseteq 0 .. KPDE * PTES - 1
  /\ runs \subseteq (0 .. KPDE * PTES - 1) \X (1 .. RUN_BOUND)
  /\ space \in [Task -> [cr3 : Entry, user : [0 .. UPDE - 1 -> Table],
                         kernel : [0 .. KPDE - 1 -> Entry]]]
  /\ regions \subseteq [task : Task, first : 1 .. UPDE * PTES - 1, len : 1 .. RUN_BOUND]
  /\ torn \subseteq Task
  /\ wild \in BOOLEAN

(* No frame is mapped in two places or serves as a table and as a page, and   *)
(* no page is mapped to a frame that pmm_alloc could give away                *)
(* (memory.c:136-171). *)
FramesUsedOnce ==
  ~wild =>
    /\ \A u, v \in InUse : FrameAt(kernel_pd, space, u) = FrameAt(kernel_pd, space, v) => u = v
    /\ FramesInUse \subseteq bitmap

(* Every frame that is taken is reserved or in use: munmap, unmmap and        *)
(* unmmap_ring3 leak nothing. *)
NothingLeaks ==
  ~wild => bitmap \subseteq RESERVED \cup FramesInUse

(* A directory's copy of a kernel entry is the kernel's table or, if the heap *)
(* has grown since the task was created, absent; it never leads to a table    *)
(* that was freed or replaced (memory.c:335-338, :270-289). *)
KernelHalfFresh ==
  \A t \in Task, i \in 0 .. KPDE - 1 :
    space[t].kernel[i] \in {ABSENT, kernel_pd[i].frame}

(* The runs callers hold are disjoint, and exactly their pages are mapped and  *)
(* marked (memory.c:205-223, :263, :282). *)
HeapSound ==
  ~wild =>
    /\ \A r, s \in runs : r # s => Pages(r[1], r[2]) \cap Pages(s[1], s[2]) = {}
    /\ kheap_pages = UNION {r[1] .. r[1] + r[2] - 1 : r \in runs}
    /\ {p \in (0 .. KPDE - 1) \X Slot : kernel_pd[p[1]].pte[p[2]] # ABSENT}
         = {At(v) : v \in kheap_pages}

(* As long as sys_mmap found its pages in one piece and the task called        *)
(* munmap only for whole regions that it clears in one go (munmap.c:13-29), a   *)
(* task's pages are its code, its stack and the regions it was given, and no    *)
(* two regions share a page. *)
RegionsSound ==
  ~wild =>
    \A t \in Task \ torn :
      LET mine == {r \in regions : r.task = t}
      IN space[t].cr3 # ABSENT =>
           /\ UserPages(space[t]) = {CODE, STACK} \cup UNION {Pages(r.first, r.len) : r \in mine}
           /\ \A r, s \in mine : r # s => Pages(r.first, r.len) \cap Pages(s.first, s.len) = {}

(* What makes the kernel overwrite memory it does not own: every frame is      *)
(* taken, be it by a request for no bytes at all (memory.c:138-158,            *)
(* mmap.c:53), the heap has no addresses left for a run (memory.c:205-223), or *)
(* a task was given a region in pieces (mmap.c:18-80) or called munmap for       *)
(* other pages than exactly one region that lies in one table (munmap.c:6-29).  *)
(* Whole regions given in one piece and taken back one by one do no harm. *)
WildExplained ==
  wild => FRAMES \in bitmap \/ (\E n \in npages : FreeRuns(n) = {}) \/ torn # {}
=============================================================================
