------------------------------ MODULE BootMemory ------------------------------
(***************************************************************************)
(* init_memory (kernel/memory.c): the kernel maps its boot module and the  *)
(* frame bitmap behind its own image, then marks in the bitmap what the    *)
(* boot loader's memory map, the kernel and the module occupy.  What it    *)
(* leaves clear, pmm_alloc hands out (module Paging).                      *)
(*                                                                         *)
(* The inputs come from the boot loader: the map, in any order, and the    *)
(* place of the module.  Addresses are bytes, a page has PAGE of them, a   *)
(* byte of the bitmap has BITS bits.  `extern char _kernel_start' makes    *)
(* (uint64_t)_kernel_start the byte stored at that address, which is       *)
(* address 0: it is an input too, and it may be negative.                  *)
(*                                                                         *)
(* Slip_ operators are as in Scheduler.                                    *)
(***************************************************************************)
EXTENDS Integers, Sequences

CONSTANTS
  PAGE, BITS,
  PTES,        \* entries of boot_page_table before the one for VGA memory
  TOP,         \* the end of the highest entry of the memory map
  KERNEL_END,  \* last_paged_addr, the page-aligned end of the kernel's image
  MAP_LEN      \* the longest memory map

ASSUME BootAssumption ==
  /\ PAGE \in Nat \ {0} /\ BITS \in Nat \ {0} /\ PTES \in Nat
  /\ TOP \in Nat /\ MAP_LEN \in Nat \ {0}
  /\ KERNEL_END \in Nat /\ KERNEL_END % PAGE = 0

VARIABLES
  mmap,            \* the memory map: a sequence of [addr, len, available]
  mod_start, mod_end,
  low_byte,        \* (uint64_t)_kernel_start
  bitmap_size,
  kernel_end_addr,
  used,            \* the numbers of the bits set in the bitmap
  k,               \* the entry populate_bitmap looks at
  pc,
  wild             \* something outside the bitmap and the page table was written

input == <<mmap, mod_start, mod_end, low_byte>>
vars == <<input, bitmap_size, kernel_end_addr, used, k, pc, wild>>

-----------------------------------------------------------------------------
align_down_4k(a) == a - (a % PAGE)

align_up_4k(a) == align_down_4k(a + PAGE - 1)

Slip_pages(len) == len \div PAGE

(* Whole pages that a length takes, the rounding of populate_bitmap. *)
pages(len) == (len + PAGE - 1) \div PAGE

End(e) == e.addr + e.len

bitmap_len == (bitmap_size + BITS - 1) \div BITS

(* fetch_highest_block: the last entry, which is taken for the highest. *)
fetch_highest_block == mmap[Len(mmap)]

Slip_total_bitmap_pages(size) == ((size + BITS - 1) \div BITS) \div PAGE

total_bitmap_pages(size) == pages((size + BITS - 1) \div BITS)

total_module_pages ==
  align_up_4k(mod_end) \div PAGE - align_down_4k(mod_start) \div PAGE

(* set_used_bitmaps: bits beyond the end of the bitmap lie in other memory. *)
set_used_bitmaps(ranges) ==
  LET bits == UNION {r[1] .. r[1] + r[2] - 1 : r \in ranges}
  IN /\ used' = used \cup {b \in bits : 0 <= b /\ b < BITS * bitmap_len}
     /\ wild' = (wild \/ \E b \in bits : b < 0 \/ b >= BITS * bitmap_len)

-----------------------------------------------------------------------------
(* init_memory up to populate_bitmap: the pages behind the kernel are mapped   *)
(* one to one, as many as the module and the bitmap have.  The bitmap is put   *)
(* at the end of the module, mapped or not, and cleared. *)
init_memory ==
  /\ pc = "map"
  /\ bitmap_size' = End(fetch_highest_block) \div PAGE
  /\ kernel_end_addr' =
       KERNEL_END + PAGE * (total_bitmap_pages(bitmap_size') + total_module_pages)
  /\ wild' = \/ kernel_end_addr' \div PAGE > PTES
             \/ mod_end + bitmap_len' > kernel_end_addr'
  /\ used' = {}
  /\ pc' = "scan"
  /\ UNCHANGED <<input, k>>

(* next_mmap lies at the end of the map. *)
last_entry == k >= Len(mmap)

(* The ranges one round of populate_bitmap marks: the entry if it is not       *)
(* available, and the gap between it and the next one. *)
entry_ranges ==
  {<<mmap[j].addr \div PAGE, pages(mmap[j].len)>> : j \in {x \in {k} : ~mmap[x].available}}

gap_ranges ==
  {<<End(mmap[k]) \div PAGE, pages(mmap[j].addr - End(mmap[k]))>> :
     j \in {x \in {k + 1} \cap DOMAIN mmap : End(mmap[k]) < mmap[x].addr}}

(* One round of the loop of populate_bitmap. *)
populate_bitmap ==
  /\ pc = "scan"
  /\ set_used_bitmaps(entry_ranges \cup gap_ranges)
  /\ k' = IF last_entry THEN k ELSE k + 1
  /\ pc' = IF last_entry THEN "kernel" ELSE "scan"
  /\ UNCHANGED <<input, bitmap_size, kernel_end_addr>>

(* The range of the kernel, the module and the bitmap starts at the byte read  *)
(* from address 0.  A negative one becomes 2^64 less: its page is 2^52 - 1,    *)
(* and with 32-bit addresses its bit is the one before the bitmap. *)
kernel_range ==
  IF low_byte >= 0
  THEN <<low_byte \div PAGE, pages(kernel_end_addr - low_byte)>>
  ELSE <<-1, pages(kernel_end_addr - low_byte)>>

module_range == <<align_down_4k(mod_start) \div PAGE, total_module_pages>>

(* The end of populate_bitmap. *)
populate_kernel ==
  /\ pc = "kernel"
  /\ set_used_bitmaps({kernel_range, module_range})
  /\ pc' = "done"
  /\ UNCHANGED <<input, bitmap_size, kernel_end_addr, k>>

-----------------------------------------------------------------------------
Entry == [addr : 0 .. TOP, len : 1 .. TOP, available : BOOLEAN]

(* No two entries overlap. *)
Apart(m) ==
  \A i, j \in DOMAIN m : i # j => End(m[i]) <= m[j].addr \/ End(m[j]) <= m[i].addr

(* The boot loader has put the kernel and the module into available memory,    *)
(* here the first entry, and the module on a page boundary behind the kernel.  *)
(* A char is smaller than a page. *)
(* The first entry of the map is taken to be available from address 0 on and   *)
(* to hold the kernel and its module.  An ordinary PC has a hole below 1 MB,    *)
(* where the kernel begins; all below its end is marked whatever the map says   *)
(* (populate_kernel), so an entry more or less there makes no difference. *)
Init ==
  /\ \E n \in 0 .. MAP_LEN - 1, l \in KERNEL_END .. TOP :
       \E rest \in [1 .. n -> {e \in Entry : l <= e.addr /\ End(e) <= TOP}] :
         mmap = <<[addr |-> 0, len |-> l, available |-> TRUE]>> \o rest
  /\ Apart(mmap)
  /\ mod_start \in {a \in KERNEL_END .. TOP : a % PAGE = 0}
  /\ mod_end \in mod_start + 1 .. mmap[1].len
  /\ low_byte \in 1 - PAGE .. PAGE - 1
  /\ bitmap_size = 0
  /\ kernel_end_addr = KERNEL_END
  /\ used = {}
  /\ k = 1
  /\ pc = "map"
  /\ wild = FALSE

Next == init_memory \/ populate_bitmap \/ populate_kernel

Spec == Init /\ [][Next]_vars
-----------------------------------------------------------------------------
TypeOK ==
  /\ bitmap_size \in 0 .. TOP
  /\ kernel_end_addr \in Nat
  /\ used \subseteq 0 .. BITS * bitmap_len - 1
  /\ k \in DOMAIN mmap
  /\ pc \in {"map", "scan", "kernel", "done"}
  /\ wild \in BOOLEAN

Byte(f) == f * PAGE .. f * PAGE + PAGE - 1

(* The bytes that are available memory, and those the kernel itself fills. *)
Ram == UNION {mmap[i].addr .. End(mmap[i]) - 1 : i \in {j \in DOMAIN mmap : mmap[j].available}}

Taken == 0 .. KERNEL_END - 1 \cup mod_start .. mod_end + bitmap_len - 1

(* The frames the kernel may hand out. *)
Usable == {f \in 0 .. bitmap_size - 1 : Byte(f) \subseteq Ram \ Taken}

(* The last frame of a range to be marked that does not start on a page        *)
(* boundary. *)
UnalignedTail ==
  LET reserved == {<<mmap[i].addr, mmap[i].len>> : i \in {j \in DOMAIN mmap : ~mmap[j].available}}
      gaps == {<<End(mmap[i]), mmap[i + 1].addr - End(mmap[i])>> : i \in 1 .. Len(mmap) - 1}
  IN {(r[1] + r[2] - 1) \div PAGE : r \in {x \in reserved \cup gaps : x[1] % PAGE # 0}}

(* Every frame that holds memory the map does not offer, the kernel, the       *)
(* module or the bitmap is marked, so pmm_alloc never returns it - but for the *)
(* last frame of a range that is not aligned, whose length is rounded and whose *)
(* start is not (memory.c:77-80, :90-93). *)
NothingUnusableIsFree ==
  (pc = "done" /\ ~wild) =>
    0 .. bitmap_size - 1 \subseteq used \cup Usable \cup UnalignedTail

(* If the map is in order no usable frame is lost, but for those up to the end  *)
(* of the pages mapped for the module and the bitmap (memory.c:87, :101-105). *)
Sorted == \A i, j \in DOMAIN mmap : i < j => mmap[i].addr < mmap[j].addr

NothingUsableIsLost ==
  (pc = "done" /\ ~wild /\ Sorted) => \A f \in used \cap Usable : f < kernel_end_addr \div PAGE

(* The bitmap the boot leaves behind is right in both directions               *)
(* (memory.c:63-112): what pmm_alloc hands out is memory, and all of it is     *)
(* there to be handed out. *)
BitmapRight == NothingUnusableIsFree /\ NothingUsableIsLost

(* The boot writes outside its bitmap and page table only on a machine where   *)
(* one of the things it takes for granted does not hold: the last entry of the *)
(* map ends highest and on a page boundary, the module starts right behind the *)
(* kernel, the memory and the page table have room for both and the bitmap, and *)
(* the byte at address 0 is not negative (memory.c:47, :66, :101, :191). *)
WildNeedsOddMachine ==
  wild =>
    \/ \E i \in DOMAIN mmap : End(mmap[i]) > End(fetch_highest_block)
    \/ End(fetch_highest_block) % PAGE # 0
    \/ mod_start # KERNEL_END
    \/ kernel_end_addr > End(fetch_highest_block)
    \/ kernel_end_addr \div PAGE > PTES
    \/ low_byte < 0
=============================================================================
