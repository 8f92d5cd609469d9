------------------------------- MODULE UserHeap -------------------------------
(***************************************************************************)
(* malloc and free of the C library for ring-3 programs                    *)
(* (userspace/stdlib/malloc.c, free.c).  Memory comes from the kernel in   *)
(* page blocks; a page block has a header, mem_blocks one behind the       *)
(* other, each with a header of its own, and room that was never used.     *)
(* Sizes are in units of 8 bytes, to which align_up rounds.                *)
(*                                                                         *)
(* The list of page blocks and the free list of each are sequences here,    *)
(* and a page block is named by its first page.  The program uses mmap and *)
(* munmap only through malloc and free, and its page blocks lie in the     *)
(* first page table, behind its code and its stack (Paging has what        *)
(* happens elsewhere).                                                     *)
(*                                                                         *)
(* Three things make the blocks overlap or the lists lead elsewhere.       *)
(* `astray' is set by the step that does one of them, which the model      *)
(* makes as the code does; it stops behind that step.                      *)
(*  - An exact fit leaves the block's next_mem_block as it was             *)
(*    (malloc.c:93-105), which `stale' marks, and free puts the block back *)
(*    with it (free.c:53, :68): the list goes on to a block that may be    *)
(*    held, or comes round again.                                          *)
(*  - A split that leaves less than a header writes the header of the rest *)
(*    over the block behind, with a size that wraps (malloc.c:63-64).      *)
(*  - sys_mmap takes free pages wherever they are and returns the first    *)
(*    (mmap.c:18-80), so that a page block of several pages which starts   *)
(*    in a hole runs over the page block behind the hole.                  *)
(*                                                                         *)
(* Slip_ operators are as in Scheduler.                                    *)
(***************************************************************************)
EXTENDS Integers, Sequences, FiniteSets, SequencesExt

CONSTANTS
  AREAS,    \* a bound on the pages that mmap gives
  PAGE,     \* PAGE_SIZE
  PHDR,     \* sizeof(page_block_t)
  HDR,      \* sizeof(mem_block_t)
  Size,     \* the sizes programs ask for
  EMPTY     \* no page block starts here

Area == 0 .. AREAS - 1   \* the pages from the first that mmap gives
SIZES == 536870912       \* the values of a size_t in units of 8 bytes

page_block_t ==
  [og_size : Nat, free_size : Nat, next_free_addr : Nat, free_blocks : Seq(Nat)]

ASSUME HeapAssumption ==
  /\ AREAS \in Nat
  /\ PAGE \in Nat \ {0} /\ PHDR \in Nat \ {0} /\ HDR \in Nat \ {0}
  /\ Size \subseteq Nat
  /\ EMPTY \notin page_block_t

VARIABLES
  mem_pool,    \* the first pages of the page blocks, in list order
  page,        \* [Area -> page_block_t], EMPTY where no page block starts
  block,       \* [Area -> offset -> [size, stale]]: the mem_blocks
  held,        \* what programs hold: [area, off, size], with the size asked for
  astray

heapvars == <<mem_pool, page, block, held, astray>>

-----------------------------------------------------------------------------
pages_required(len) == (len + PAGE - 1) \div PAGE

(* alloc_page_block for n units: whole pages from mmap. *)
NewPage(n) ==
  LET og == PAGE * pages_required(n)
  IN [og_size |-> og, free_size |-> og - PHDR, next_free_addr |-> PHDR, free_blocks |-> <<>>]

(* The pages of a page block at a. *)
Extent(a, og) == a .. a + pages_required(og) - 1

Mapped == {a \in Area : page[a] # EMPTY}
Covered == UNION {Extent(a, page[a].og_size) : a \in Mapped}

(* alloc_mem_block: the header is written where the unused room starts. *)
TakeRoom(pg, target) ==
  [pg EXCEPT !.free_size = @ - target, !.next_free_addr = @ + target]

WithBlock(bl, off, size) ==
  [o \in DOMAIN bl \cup {off} |-> IF o = off THEN [size |-> size, stale |-> FALSE] ELSE bl[o]]

Hold(a, off, size) == held' = held \cup {[area |-> a, off |-> off, size |-> size]}

(* The positions in the free list of area a with a block that is large enough. *)
Fits(a, size) ==
  {i \in DOMAIN page[a].free_blocks : block[a][page[a].free_blocks[i]].size >= size}

Least(S) == CHOOSE x \in S : \A y \in S : x <= y

(* The positions in mem_pool of the page blocks that can serve a request. *)
Serving(size) ==
  {k \in DOMAIN mem_pool : \/ Fits(mem_pool[k], size) # {}
                           \/ page[mem_pool[k]].free_size >= size + HDR}

-----------------------------------------------------------------------------
Slip_split(a, i, size) ==
  LET off  == page[a].free_blocks[i]
      rest == off + size + HDR
      left == block[a][off].size - size
  IN /\ page' = [page EXCEPT ![a].free_blocks[i] = rest]
     /\ block' = [block EXCEPT ![a] = WithBlock(WithBlock(@, rest, left), off, size)]
     /\ Hold(a, off, size)
     /\ UNCHANGED astray

(* A larger block is cut: its front is handed out and the rest takes its      *)
(* place on the list, with the size that is left or that wraps                *)
(* (malloc.c:61-91). *)
split(a, i, size) ==
  LET off  == page[a].free_blocks[i]
      rest == off + size + HDR
      left == block[a][off].size - (size + HDR)
  IN /\ page' = [page EXCEPT ![a].free_blocks[i] = rest]
     /\ block' = [block EXCEPT ![a] =
          WithBlock(WithBlock(@, rest, IF left < 0 THEN SIZES + left ELSE left), off, size)]
     /\ Hold(a, off, size)
     /\ astray' = (left < 0)

Slip_exact(a, i, size) ==
  LET list == page[a].free_blocks
  IN /\ block' = [block EXCEPT ![a][list[i]].stale = i < Len(list)]
     /\ Hold(a, list[i], size)
     /\ UNCHANGED <<page, astray>>

(* A block of the size asked for leaves the list and keeps its link           *)
(* (malloc.c:93-105). *)
exact(a, i, size) ==
  LET list == page[a].free_blocks
  IN /\ page' = [page EXCEPT ![a].free_blocks = RemoveAt(list, i)]
     /\ block' = [block EXCEPT ![a][list[i]].stale = i < Len(list)]
     /\ Hold(a, list[i], size)
     /\ UNCHANGED astray

(* A new block in the unused room of area a, for the page block pg. *)
fresh(a, pg, bl, size) ==
  /\ page' = [page EXCEPT ![a] = TakeRoom(pg, size + HDR)]
  /\ block' = [block EXCEPT ![a] = WithBlock(bl, pg.next_free_addr, size)]
  /\ Hold(a, pg.next_free_addr, size)

(* malloc: the first page block that can serve, from its free list if that    *)
(* has a block and else from its unused room; a new page block at the end of   *)
(* mem_pool if there is none, at the first free page and as many pages on as   *)
(* it takes, free or not. *)
malloc ==
  \E size \in Size :
    \/ /\ Serving(size) # {}
       /\ LET a == mem_pool[Least(Serving(size))]
              i == Least(Fits(a, size))
          IN \/ /\ Fits(a, size) # {}
                /\ block[a][page[a].free_blocks[i]].size > size
                /\ split(a, i, size)
             \/ /\ Fits(a, size) # {}
                /\ block[a][page[a].free_blocks[i]].size = size
                /\ exact(a, i, size)
             \/ /\ Fits(a, size) = {}
                /\ fresh(a, page[a], block[a], size)
                /\ UNCHANGED astray
       /\ UNCHANGED mem_pool
    \/ /\ Serving(size) = {}
       /\ LET a  == Least(Area \ Covered)
              pg == NewPage(size + HDR + PHDR)
          IN /\ Area \ Covered # {}
             /\ Extent(a, pg.og_size) \subseteq Area
             /\ fresh(a, pg, <<>>, size)
             /\ astray' = (Extent(a, pg.og_size) \cap Covered # {})
             /\ mem_pool' = Append(mem_pool, a)

-----------------------------------------------------------------------------
(* The unused room, the block that is being freed and the free list, with the *)
(* headers of them all (free.c:7-13). *)
total_free_size(pg, bl, off) ==
  LET list == pg.free_blocks
      sum[i \in 0 .. Len(list)] ==
        IF i = 0 THEN pg.free_size + bl[off].size + HDR + PHDR
        ELSE sum[i - 1] + bl[list[i]].size + HDR
  IN sum[Len(list)]

Slip_is_page_free(a, off) == total_free_size(page[a], block[a], off) = PAGE

(* is_page_free: these add up to the page block. *)
is_page_free(a, off) == total_free_size(page[a], block[a], off) = page[a].og_size

(* unmap_free_page, and munmap of the whole page block. *)
unmap_free_page(a) ==
  /\ mem_pool' = RemoveAt(mem_pool, CHOOSE k \in DOMAIN mem_pool : mem_pool[k] = a)
  /\ page' = [page EXCEPT ![a] = EMPTY]
  /\ block' = [block EXCEPT ![a] = <<>>]
  /\ UNCHANGED astray

Slip_merge(a, last, off) ==
  LET bl == block[a]
  IN block' = [block EXCEPT ![a] =
       [o \in DOMAIN bl \ {off} |->
          IF o = last THEN [bl[o] EXCEPT !.size = @ + bl[off].size] ELSE bl[o]]]

(* The last block of the list grows over the freed one right behind it. *)
merge(a, last, off) ==
  LET bl == block[a]
  IN block' = [block EXCEPT ![a] =
       [o \in DOMAIN bl \ {off} |->
          IF o = last THEN [bl[o] EXCEPT !.size = @ + bl[off].size + HDR] ELSE bl[o]]]

(* The freed block at the end of the list, which goes on wherever its own     *)
(* link leads. *)
append(a, off) ==
  /\ page' = [page EXCEPT ![a].free_blocks = Append(@, off)]
  /\ astray' = block[a][off].stale
  /\ UNCHANGED block

(* free of something a program holds. *)
free ==
  \E h \in held :
    LET a    == h.area
        list == page[a].free_blocks
        last == list[Len(list)]
    IN /\ held' = held \ {h}
       /\ \/ /\ is_page_free(a, h.off)
             /\ unmap_free_page(a)
          \/ /\ ~is_page_free(a, h.off)
             /\ IF list # <<>> /\ last + block[a][last].size + HDR = h.off
                THEN merge(a, last, h.off) /\ UNCHANGED <<page, astray>>
                ELSE append(a, h.off)
             /\ UNCHANGED mem_pool

HeapInit ==
  /\ mem_pool = <<>>
  /\ page = [a \in Area |-> EMPTY]
  /\ block = [a \in Area |-> <<>>]
  /\ held = {}
  /\ astray = FALSE

HeapNext == ~astray /\ (malloc \/ free)

HeapSpec == HeapInit /\ [][HeapNext]_heapvars
-----------------------------------------------------------------------------
HeldIn(a) == {h.off : h \in {x \in held : x.area = a}}
End(a, off) == off + HDR + block[a][off].size

HeapTypeOK ==
  /\ astray \in BOOLEAN
  /\ ~astray =>
       /\ mem_pool \in Seq(Area)
       /\ \A a \in Mapped :
            /\ page[a].og_size \in Nat /\ page[a].free_size \in Nat
            /\ page[a].next_free_addr \in PHDR .. page[a].og_size
            /\ page[a].free_blocks \in Seq(DOMAIN block[a])
            /\ \A o \in DOMAIN block[a] : block[a][o] \in [size : Nat, stale : BOOLEAN]
       /\ held \subseteq [area : Area, off : Nat, size : Size]

(* Until a split underflows or one of the other two steps is made, the blocks *)
(* of a page block lie one behind the other, without overlap or gap, from its *)
(* header to its unused room, and the room is what free_size says              *)
(* (malloc.c:27-30, :63-68, free.c:62-64). *)
BlocksTile ==
  ~astray => \A a \in Mapped :
    LET ends == {PHDR} \cup {End(a, o) : o \in DOMAIN block[a]}
    IN /\ \A o, p \in DOMAIN block[a] : o < p => End(a, o) <= p
       /\ ends = DOMAIN block[a] \cup {page[a].next_free_addr}
       /\ page[a].next_free_addr + page[a].free_size = page[a].og_size

(* Until a stale link is put back, or one of the other two steps is made, a   *)
(* block is on the free list, once, or held by a program, never both, so      *)
(* malloc gives out no block twice and free loses none (malloc.c:70-104,      *)
(* free.c:50-69). *)
FreeOrHeld ==
  ~astray => \A a \in Mapped :
    LET list == page[a].free_blocks
    IN /\ \A i, j \in DOMAIN list : list[i] = list[j] => i = j
       /\ {list[i] : i \in DOMAIN list} = DOMAIN block[a] \ HeldIn(a)
       /\ HeldIn(a) \subseteq DOMAIN block[a]

(* Until mmap gives a page block in pieces, or one of the other two steps is  *)
(* made, what a program holds is mapped, as large as it asked for, and in     *)
(* pages of no other page block, so that freeing another block leaves it      *)
(* alone: free unmaps a page block only with its last block (free.c:5-18,     *)
(* :44; mmap.c:18-80). *)
HeldIsThere ==
  ~astray => \A h \in held :
    /\ h.area \in Mapped
    /\ h.off \in DOMAIN block[h.area]
    /\ block[h.area][h.off].size >= h.size
    /\ \A b \in Mapped \ {h.area} :
         Extent(b, page[b].og_size) \cap Extent(h.area, page[h.area].og_size) = {}

(* Until one of the three steps is made, a page block in which nothing is     *)
(* held is given back: the sums of is_page_free stay exact through splits and *)
(* merges (free.c:7-16). *)
EmptyGivenBack ==
  ~astray =>
    /\ \A a \in Mapped : HeldIn(a) # {}
    /\ Mapped = {mem_pool[k] : k \in DOMAIN mem_pool}
=============================================================================
