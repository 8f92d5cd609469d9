----------------------------- MODULE BootProofs -----------------------------
(***************************************************************************)
(* Proofs about BootMemory, for every memory map, every place of the       *)
(* module and all sizes of pages, bitmap and page table.                   *)
(***************************************************************************)
EXTENDS BootMemory, WellFoundedInduction, TLAPS

(* The bits set for l bytes at address a. *)
Bits(a, l) == a \div PAGE .. a \div PAGE + pages(l) - 1

(* What the rounds of populate_bitmap mark for entry i of the map m, and behind *)
(* it. *)
EntryBits(m, i) == IF m[i].available THEN {} ELSE Bits(m[i].addr, m[i].len)

GapBits(m, i) ==
  IF i < Len(m) /\ End(m[i]) < m[i + 1].addr
  THEN Bits(End(m[i]), m[i + 1].addr - End(m[i]))
  ELSE {}

(* Those of the bits B that a bitmap of l bytes has. *)
InBitmap(B, l) == {b \in B : 0 <= b /\ b < BITS * l}

(* What is marked after n rounds. *)
Marked(m, l, n) == UNION {InBitmap(EntryBits(m, i) \cup GapBits(m, i), l) : i \in 1 .. n}

(* What populate_bitmap marks at its end. *)
KernelBits == kernel_range[1] .. kernel_range[1] + kernel_range[2] - 1

ModuleBits == module_range[1] .. module_range[1] + module_range[2] - 1

(* What the boot loader promises of the machine. *)
Machine ==
  /\ Len(mmap) \in Nat \ {0} /\ DOMAIN mmap = 1 .. Len(mmap)
  /\ \A i \in DOMAIN mmap :
       /\ mmap[i].addr \in Nat /\ mmap[i].len \in Nat \ {0}
       /\ mmap[i].available \in BOOLEAN /\ End(mmap[i]) <= TOP
  /\ Apart(mmap)
  /\ mmap[1].addr = 0 /\ mmap[1].available
  /\ mod_start \in Nat /\ KERNEL_END <= mod_start /\ mod_start % PAGE = 0
  /\ mod_end \in Nat /\ mod_start < mod_end /\ mod_end <= mmap[1].len
  /\ low_byte \in 1 - PAGE .. PAGE - 1

(* The sizes init_memory computes. *)
Sized ==
  IF pc = "map"
  THEN bitmap_size = 0 /\ kernel_end_addr = KERNEL_END
  ELSE /\ bitmap_size = End(fetch_highest_block) \div PAGE
       /\ kernel_end_addr =
            KERNEL_END + PAGE * (total_bitmap_pages(bitmap_size) + total_module_pages)
       /\ ~wild => mod_end + bitmap_len <= kernel_end_addr

(* How far the marking has come. *)
Progress ==
  /\ pc = "map" => k = 1 /\ used = {} /\ ~wild
  /\ pc = "scan" => used = Marked(mmap, bitmap_len, k - 1)
  /\ pc = "kernel" => used = Marked(mmap, bitmap_len, Len(mmap))
  /\ pc = "done" =>
       /\ used = Marked(mmap, bitmap_len, Len(mmap)) \cup InBitmap(KernelBits \cup ModuleBits, bitmap_len)
       /\ ~wild => low_byte >= 0

BootInv ==
  /\ Machine /\ Sized /\ Progress
  /\ k \in 1 .. Len(mmap)
  /\ pc \in {"map", "scan", "kernel", "done"}
  /\ wild \in BOOLEAN
  /\ WildNeedsOddMachine

-----------------------------------------------------------------------------
(* Division with remainder. *)
LEMMA Division ==
  ASSUME NEW P \in Nat \ {0}, NEW a \in Nat
  PROVE a = P * (a \div P) + (a % P) /\ a \div P \in Nat /\ a % P \in 0 .. P - 1
OBVIOUS

(* The quotient is the largest number that fits. *)
LEMMA Floor ==
  ASSUME NEW P \in Nat \ {0}, NEW a \in Nat, NEW f \in Nat
  PROVE f <= a \div P <=> P * f <= a
<1> DEFINE q == a \div P
           r == a % P
<1>1. a = P * q + r /\ q \in Nat /\ r \in 0 .. P - 1
  BY Division
<1> HIDE DEF q, r
<1>2. ASSUME f <= q PROVE P * f <= a
  <2>1. P * f <= P * q
    BY <1>1, <1>2
  <2>2. P * f \in Nat /\ P * q \in Nat
    BY <1>1
  <2> QED BY <1>1, <2>1, <2>2
<1>3. ASSUME f > q PROVE P * f > a
  <2>1. P * f >= P * (q + 1)
    BY <1>1, <1>3
  <2>2. P * (q + 1) = P * q + P
    BY <1>1
  <2>3. P * f \in Nat /\ P * q \in Nat
    BY <1>1
  <2> QED BY <1>1, <2>1, <2>2, <2>3
<1>4. P * f \in Nat
  OBVIOUS
<1> QED BY <1>1, <1>2, <1>3, <1>4 DEF q

(* A multiple divides without remainder. *)
LEMMA Multiple ==
  ASSUME NEW P \in Nat \ {0}, NEW q \in Nat
  PROVE (P * q) \div P = q /\ (P * q) % P = 0
<1> DEFINE a == P * q
           d == a \div P
<1>1. a \in Nat
  OBVIOUS
<1>2. d \in Nat
  BY <1>1, Division
<1>3. q <= d
  BY <1>1, Floor
<1>4. ~(q + 1 <= d)
  <2>1. ~(P * (q + 1) <= P * q)
    OBVIOUS
  <2> QED BY <1>1, <2>1, Floor
<1>5. d = q
  BY <1>2, <1>3, <1>4
<1>6. a = P * d + (a % P)
  BY <1>1, Division
<1>7. a % P \in Nat
  BY <1>1, Division
<1> QED BY <1>1, <1>5, <1>6, <1>7

(* A length rounded up to whole pieces. *)
LEMMA Ceil ==
  ASSUME NEW P \in Nat \ {0}, NEW l \in Nat
  PROVE  /\ (l + P - 1) \div P \in Nat
         /\ P * ((l + P - 1) \div P) >= l
         /\ \A f \in Nat : f < (l + P - 1) \div P <=> P * f < l
<1> DEFINE c == (l + P - 1) \div P
<1>1. l + P - 1 \in Nat
  OBVIOUS
<1>2. c \in Nat
  BY <1>1, Division
<1>3. ASSUME NEW f \in Nat PROVE f < c <=> P * f < l
  <2>1. f + 1 <= c <=> P * (f + 1) <= l + P - 1
    BY <1>1, Floor
  <2>2. P * (f + 1) = P * f + P /\ P * f \in Nat
    OBVIOUS
  <2> HIDE DEF c
  <2> QED BY <1>2, <2>1, <2>2
<1> HIDE DEF c
<1>4. P * c >= l
  <2>1. ~(P * c < l)
    BY <1>2, <1>3
  <2> QED BY <2>1, <1>2
<1> QED BY <1>2, <1>3, <1>4 DEF c

-----------------------------------------------------------------------------
LEMMA Numbers ==
  /\ PAGE \in Nat \ {0} /\ BITS \in Nat \ {0} /\ PTES \in Nat /\ TOP \in Nat
  /\ KERNEL_END \in Nat /\ KERNEL_END % PAGE = 0
BY BootAssumption

LEMMA Pages ==
  ASSUME NEW l \in Nat
  PROVE pages(l) \in Nat /\ PAGE * pages(l) >= l /\ \A f \in Nat : f < pages(l) <=> PAGE * f < l
BY Numbers, Ceil DEF pages

(* Every frame marked for a range holds a byte of it. *)
LEMMA Touches ==
  ASSUME NEW a \in Nat, NEW l \in Nat \ {0}, NEW f \in Bits(a, l)
  PROVE  f \in Nat /\ PAGE * f < a + l /\ a < PAGE * f + PAGE
<1> DEFINE q == a \div PAGE
           r == a % PAGE
<1>1. a = PAGE * q + r /\ q \in Nat /\ r \in 0 .. PAGE - 1
  BY Numbers, Division
<1>2. pages(l) \in Nat /\ \A j \in Nat : j < pages(l) <=> PAGE * j < l
  BY Pages
<1>3. f \in q .. q + pages(l) - 1
  BY DEF Bits
<1> HIDE DEF q, r
<1>4. f \in Nat /\ f >= q /\ f - q \in Nat /\ f - q < pages(l)
  BY <1>1, <1>2, <1>3
<1>5. PAGE * (f - q) < l /\ PAGE * (f - q) \in Nat
  BY <1>2, <1>4, Numbers
<1>6. PAGE * f = PAGE * q + PAGE * (f - q) /\ PAGE * q \in Nat
  BY <1>1, <1>4, Numbers
<1> QED BY <1>1, <1>4, <1>5, <1>6, Numbers

(* The frame of a byte of a range is marked for it, unless the range is not    *)
(* aligned and this is its last frame. *)
LEMMA Covers ==
  ASSUME NEW a \in Nat, NEW l \in Nat \ {0}, NEW f \in Nat, NEW x \in Nat,
         PAGE * f <= x, x < PAGE * f + PAGE, a <= x, x < a + l
  PROVE  f \in Bits(a, l) \/ (a % PAGE # 0 /\ f = (a + l - 1) \div PAGE)
<1> DEFINE q == a \div PAGE
           r == a % PAGE
           g == (a + l - 1) \div PAGE
<1>1. a = PAGE * q + r /\ q \in Nat /\ r \in 0 .. PAGE - 1
  BY Numbers, Division
<1>2. pages(l) \in Nat /\ \A j \in Nat : j < pages(l) <=> PAGE * j < l
  BY Pages
<1>3. a + l - 1 \in Nat
  OBVIOUS
<1>4. g \in Nat /\ \A h \in Nat : h <= g <=> PAGE * h <= a + l - 1
  BY <1>3, Numbers, Division, Floor
<1>5. Bits(a, l) = q .. q + pages(l) - 1
  BY DEF Bits
<1>6. PAGE * f \in Nat /\ PAGE * q \in Nat
  BY <1>1, Numbers
<1> HIDE DEF q, r, g
<1>7. q <= f
  <2>1. ASSUME q >= f + 1 PROVE FALSE
    <3>1. PAGE * q >= PAGE * (f + 1)
      BY <2>1, <1>1, Numbers
    <3>2. PAGE * (f + 1) = PAGE * f + PAGE
      BY Numbers
    <3> QED BY <3>1, <3>2, <1>1, <1>6, Numbers
  <2> QED BY <2>1, <1>1
<1>8. f - q \in Nat /\ PAGE * (f - q) = PAGE * f - PAGE * q
  BY <1>7, <1>1, Numbers
<1>9. CASE f - q < pages(l)
  BY <1>9, <1>8, <1>5, <1>1, <1>2
<1>10. CASE ~(f - q < pages(l))
  <2>1. PAGE * f - PAGE * q >= l
    BY <1>10, <1>8, <1>2, <1>6
  <2>2. r # 0
    BY <2>1, <1>1, <1>6
  <2>3. f <= g
    BY <1>4, <1>6
  <2>4. ~(f + 1 <= g)
    <3>1. PAGE * (f + 1) = PAGE * f + PAGE
      BY Numbers
    <3>2. PAGE * f + PAGE > a + l - 1
      BY <2>1, <1>1, <1>6, Numbers
    <3>3. ~(PAGE * (f + 1) <= a + l - 1)
      BY <3>1, <3>2, <1>6, Numbers
    <3> QED BY <3>3, <1>4
  <2>5. f = g
    BY <2>3, <2>4, <1>4
  <2> QED BY <2>2, <2>5 DEF g, r
<1> QED BY <1>9, <1>10

-----------------------------------------------------------------------------
(* The bytes of the bitmap hold all its bits. *)
LEMMA BitmapLength ==
  ASSUME NEW n \in Nat
  PROVE  (n + BITS - 1) \div BITS \in Nat /\ n <= BITS * ((n + BITS - 1) \div BITS)
<1> DEFINE c == (n + BITS - 1) \div BITS
<1>1. c \in Nat /\ BITS * c >= n
  BY Numbers, Ceil
<1> HIDE DEF c
<1>2. BITS * c \in Nat
  BY <1>1, Numbers
<1>3. n <= BITS * c
  BY <1>1, <1>2
<1> QED BY <1>1, <1>3 DEF c

(* The pages of the boot module. *)
LEMMA ModulePages ==
  ASSUME Machine
  PROVE  /\ total_module_pages = pages(mod_end) - mod_start \div PAGE
         /\ align_down_4k(mod_start) \div PAGE = mod_start \div PAGE
         /\ mod_start \div PAGE \in Nat /\ PAGE * (mod_start \div PAGE) = mod_start
         /\ pages(mod_end) \in Nat /\ mod_start \div PAGE < pages(mod_end)
<1>1. /\ mod_start \in Nat /\ mod_start % PAGE = 0
      /\ mod_end \in Nat /\ mod_start < mod_end
  BY DEF Machine
<1> DEFINE q == mod_start \div PAGE
<1>2. mod_start = PAGE * q + (mod_start % PAGE) /\ q \in Nat
  BY <1>1, Numbers, Division
<1> DEFINE b == mod_end + PAGE - 1
<1>3. b \in Nat /\ b \div PAGE = pages(mod_end)
  BY <1>1, Numbers DEF pages
<1>4. b = PAGE * pages(mod_end) + (b % PAGE) /\ pages(mod_end) \in Nat /\ b % PAGE \in Nat
  <2>1. b = PAGE * (b \div PAGE) + (b % PAGE) /\ b \div PAGE \in Nat /\ b % PAGE \in 0 .. PAGE - 1
    BY <1>3, Numbers, Division
  <2> QED BY <2>1, <1>3, Numbers
<1> HIDE DEF q
<1>5. PAGE * q = mod_start
  BY <1>1, <1>2, Numbers
<1>6. align_down_4k(mod_start) = mod_start
  BY <1>1 DEF align_down_4k
<1>7. align_up_4k(mod_end) = b - (b % PAGE)
  BY DEF align_up_4k, align_down_4k
<1> HIDE DEF b
<1>8. align_up_4k(mod_end) = PAGE * pages(mod_end)
  <2>1. PAGE * pages(mod_end) \in Nat
    BY <1>4, Numbers
  <2> QED BY <1>3, <1>4, <1>7, <2>1
<1>9. align_up_4k(mod_end) \div PAGE = pages(mod_end)
  <2>1. (PAGE * pages(mod_end)) \div PAGE = pages(mod_end)
    BY <1>4, Multiple, Numbers
  <2> QED BY <1>8, <2>1
<1>10. q < pages(mod_end)
  BY <1>1, <1>2, <1>5, Pages
<1>11. total_module_pages = pages(mod_end) - q
  BY <1>6, <1>9 DEF total_module_pages, q
<1> QED BY <1>2, <1>4, <1>5, <1>6, <1>10, <1>11 DEF q

(* The entries of the map end behind their start. *)
LEMMA MapEnd ==
  ASSUME Machine
  PROVE  /\ \A i \in DOMAIN mmap : End(mmap[i]) \in Nat \ {0} /\ mmap[i].addr < End(mmap[i])
                                   /\ End(mmap[i]) = mmap[i].addr + mmap[i].len
         /\ Len(mmap) \in DOMAIN mmap
         /\ End(fetch_highest_block) \in Nat /\ End(fetch_highest_block) <= TOP
<1>1. \A i \in DOMAIN mmap : End(mmap[i]) \in Nat \ {0} /\ mmap[i].addr < End(mmap[i])
                             /\ End(mmap[i]) = mmap[i].addr + mmap[i].len
  BY DEF Machine, End
<1>2. Len(mmap) \in DOMAIN mmap
  BY DEF Machine
<1> QED BY <1>1, <1>2 DEF Machine, fetch_highest_block

(* The sizes of bitmap and kernel that init_memory computes. *)
LEMMA SizesOf ==
  ASSUME Machine, NEW n, n = End(fetch_highest_block) \div PAGE,
         NEW e, e = KERNEL_END + PAGE * (total_bitmap_pages(n) + total_module_pages)
  PROVE  /\ n \in 0 .. TOP
         /\ total_bitmap_pages(n) \in Nat
         /\ (n + BITS - 1) \div BITS \in Nat /\ n <= BITS * ((n + BITS - 1) \div BITS)
         /\ e \in Nat /\ e >= PAGE /\ KERNEL_END <= e
         /\ e = PAGE * (e \div PAGE) /\ e \div PAGE \in Nat \ {0}
         /\ mod_start = KERNEL_END => mod_end + ((n + BITS - 1) \div BITS) <= e
         /\ PAGE * n <= End(fetch_highest_block)
         /\ End(fetch_highest_block) % PAGE = 0 => End(fetch_highest_block) = PAGE * n
<1> DEFINE H == End(fetch_highest_block)
           L == (n + BITS - 1) \div BITS
           T == total_bitmap_pages(n)
           M == total_module_pages
           K == KERNEL_END \div PAGE
<1>1. H \in Nat /\ H <= TOP
  BY MapEnd
<1>2. n \in Nat /\ H = PAGE * n + (H % PAGE) /\ H % PAGE \in Nat
  <2>1. H = PAGE * (H \div PAGE) + (H % PAGE) /\ H \div PAGE \in Nat /\ H % PAGE \in 0 .. PAGE - 1
    BY <1>1, Numbers, Division
  <2> QED BY <2>1, Numbers
<1> HIDE DEF H
<1>3. PAGE * n \in Nat /\ PAGE * n <= H /\ (H % PAGE = 0 => H = PAGE * n)
  BY <1>1, <1>2, Numbers
<1>4. n <= PAGE * n
  BY <1>2, Numbers
<1>5. n \in 0 .. TOP
  BY <1>1, <1>2, <1>3, <1>4, Numbers
<1>6. L \in Nat /\ n <= BITS * L
  BY <1>2, BitmapLength
<1>7. T = pages(L)
  BY DEF total_bitmap_pages
<1> HIDE DEF L, T
<1>8. T \in Nat /\ PAGE * T >= L
  BY <1>6, <1>7, Pages
<1> DEFINE s == mod_start \div PAGE
<1>9. /\ M = pages(mod_end) - s /\ s \in Nat /\ PAGE * s = mod_start
      /\ pages(mod_end) \in Nat /\ s < pages(mod_end)
  BY ModulePages
<1>10. KERNEL_END = PAGE * K /\ K \in Nat
  <2>1. KERNEL_END = PAGE * K + (KERNEL_END % PAGE) /\ K \in Nat
    BY Numbers, Division
  <2> HIDE DEF K
  <2> QED BY <2>1, Numbers
<1>11. mod_end \in Nat /\ PAGE * pages(mod_end) >= mod_end
  BY Pages DEF Machine
<1> HIDE DEF M, s, K
<1>12. M \in Nat \ {0}
  BY <1>9
<1>13. e = PAGE * (K + T + M)
  <2>1. PAGE * (K + T + M) = PAGE * K + PAGE * (T + M)
    BY <1>8, <1>10, <1>12, Numbers
  <2>2. e = KERNEL_END + PAGE * (T + M)
    BY DEF T, M
  <2> QED BY <2>1, <2>2, <1>10
<1> DEFINE Q == K + T + M
<1>14. Q \in Nat \ {0} /\ K <= Q
  BY <1>8, <1>10, <1>12
<1>15. e \in Nat /\ e \div PAGE = Q
  BY <1>13, <1>14, Multiple, Numbers
<1> HIDE DEF Q
<1>16. PAGE * 1 <= PAGE * Q /\ PAGE * K <= PAGE * Q
  BY <1>10, <1>14, Numbers
<1>17. e >= PAGE /\ KERNEL_END <= e /\ e = PAGE * Q
  BY <1>13, <1>16, <1>10, Numbers DEF Q
<1>18. ASSUME mod_start = KERNEL_END PROVE mod_end + L <= e
  <2>1. PAGE * (T + M) = PAGE * T + PAGE * M /\ PAGE * M = PAGE * pages(mod_end) - PAGE * s
    BY <1>8, <1>9, <1>12, Numbers
  <2>2. e = KERNEL_END + PAGE * (T + M)
    BY DEF T, M
  <2>3. PAGE * T \in Nat /\ PAGE * pages(mod_end) \in Nat
    BY <1>8, <1>9, Numbers
  <2>4. PAGE * s = KERNEL_END
    BY <1>9, <1>18
  <2> QED BY <2>1, <2>2, <2>3, <2>4, <1>6, <1>8, <1>11, Numbers
<1> QED BY <1>3, <1>5, <1>6, <1>8, <1>14, <1>15, <1>17, <1>18 DEF H, L, T
-----------------------------------------------------------------------------
(* The frames of the kernel and of the module. *)
LEMMA KernelFrames ==
  ASSUME Machine, Sized, pc # "map"
  PROVE  /\ low_byte >= 0 => KernelBits = 0 .. kernel_end_addr \div PAGE - 1
         /\ low_byte < 0 => -1 \in KernelBits
         /\ ~wild => ModuleBits \subseteq 0 .. kernel_end_addr \div PAGE - 1
<1> DEFINE K == kernel_end_addr \div PAGE
<1>1. /\ kernel_end_addr \in Nat /\ kernel_end_addr >= PAGE
      /\ kernel_end_addr = PAGE * K /\ K \in Nat \ {0}
      /\ bitmap_len \in Nat
  BY SizesOf DEF Sized, bitmap_len
<1>2. low_byte \in 1 - PAGE .. PAGE - 1
  BY DEF Machine
<1> HIDE DEF K
<1>3. kernel_end_addr - low_byte \in Nat \ {0}
  BY <1>1, <1>2, Numbers
<1> DEFINE p == pages(kernel_end_addr - low_byte)
<1>4. p \in Nat /\ \A f \in Nat : f < p <=> PAGE * f < kernel_end_addr - low_byte
  BY <1>3, Pages
<1> HIDE DEF p
<1>5. ASSUME low_byte >= 0 PROVE KernelBits = 0 .. K - 1
  <2>1. low_byte \in Nat
    BY <1>2, <1>5, Numbers
  <2>2. low_byte \div PAGE = 0
    <3>1. low_byte \div PAGE \in Nat
      BY <2>1, Numbers, Division
    <3>2. 1 <= low_byte \div PAGE <=> PAGE * 1 <= low_byte
      BY <2>1, Numbers, Floor
    <3> QED BY <3>1, <3>2, <1>2, Numbers
  <2>3. KernelBits = 0 .. p - 1
    <3>1. kernel_range = <<0, p>>
      BY <1>5, <2>2 DEF kernel_range, p
    <3>2. kernel_range[1] = 0 /\ kernel_range[2] = p
      BY <3>1
    <3> QED BY <3>2, <1>4 DEF KernelBits
  <2>4. ASSUME NEW f \in Nat PROVE f < p <=> f < K
    <3>1. ASSUME f < K PROVE PAGE * f < kernel_end_addr - low_byte
      <4>1. PAGE * (f + 1) <= PAGE * K
        BY <3>1, <1>1, Numbers
      <4>2. PAGE * (f + 1) = PAGE * f + PAGE /\ PAGE * f \in Nat
        BY Numbers
      <4> QED BY <4>1, <4>2, <1>1, <1>2, Numbers
    <3>2. ASSUME f >= K PROVE ~(PAGE * f < kernel_end_addr - low_byte)
      <4>1. PAGE * f >= PAGE * K
        BY <3>2, <1>1, Numbers
      <4>2. PAGE * f \in Nat
        BY Numbers
      <4> QED BY <4>1, <4>2, <1>1, <2>1
    <3> QED BY <3>1, <3>2, <1>1, <1>4
  <2> QED BY <2>3, <2>4, <1>1, <1>4
<1>6. ASSUME low_byte < 0 PROVE -1 \in KernelBits
  <2>1. KernelBits = -1 .. -1 + p - 1
    BY <1>6, <1>2, Numbers DEF KernelBits, kernel_range, p
  <2>2. 0 < p
    <3>1. PAGE * 0 < kernel_end_addr - low_byte
      BY <1>3, Numbers
    <3> QED BY <3>1, <1>4
  <2> QED BY <2>1, <2>2, <1>4
<1>7. ASSUME ~wild PROVE ModuleBits \subseteq 0 .. K - 1
  <2> DEFINE s == mod_start \div PAGE
  <2>1. /\ total_module_pages = pages(mod_end) - s
        /\ align_down_4k(mod_start) \div PAGE = s
        /\ s \in Nat /\ pages(mod_end) \in Nat
    BY ModulePages
  <2>2. ModuleBits = s .. s + (pages(mod_end) - s) - 1
    BY <2>1 DEF ModuleBits, module_range
  <2>3. mod_end \in Nat /\ mod_end <= kernel_end_addr
    BY <1>7, <1>1 DEF Machine, Sized
  <2>4. ~(K < pages(mod_end))
    <3>1. K < pages(mod_end) <=> PAGE * K < mod_end
      BY <2>3, <1>1, Pages
    <3> QED BY <3>1, <2>3, <1>1
  <2> HIDE DEF s
  <2> QED BY <2>1, <2>2, <2>4, <1>1
<1> QED BY <1>5, <1>6, <1>7 DEF K

(* The ranges of one round are those of its entry and of the gap behind it. *)
LEMMA RoundBits ==
  ASSUME Machine, k \in 1 .. Len(mmap)
  PROVE  UNION {r[1] .. r[1] + r[2] - 1 : r \in entry_ranges \cup gap_ranges}
           = EntryBits(mmap, k) \cup GapBits(mmap, k)
<1> DEFINE U == UNION {r[1] .. r[1] + r[2] - 1 : r \in entry_ranges \cup gap_ranges}
<1>1. Len(mmap) \in Nat /\ DOMAIN mmap = 1 .. Len(mmap) /\ k \in DOMAIN mmap
  BY DEF Machine
<1>2. \A b : b \in U <=> \E r \in entry_ranges \cup gap_ranges : b \in r[1] .. r[1] + r[2] - 1
  OBVIOUS
<1> HIDE DEF U
<1> DEFINE e == <<mmap[k].addr \div PAGE, pages(mmap[k].len)>>
           g == <<End(mmap[k]) \div PAGE, pages(mmap[k + 1].addr - End(mmap[k]))>>
<1>3. /\ e[1] = mmap[k].addr \div PAGE /\ e[2] = pages(mmap[k].len)
      /\ g[1] = End(mmap[k]) \div PAGE /\ g[2] = pages(mmap[k + 1].addr - End(mmap[k]))
  OBVIOUS
<1>4. \A r : r \in entry_ranges <=> ~mmap[k].available /\ r = e
  BY DEF entry_ranges
<1>5. k + 1 \in DOMAIN mmap <=> k < Len(mmap)
  BY <1>1
<1>6. \A r : r \in gap_ranges <=> k < Len(mmap) /\ End(mmap[k]) < mmap[k + 1].addr /\ r = g
  BY <1>5 DEF gap_ranges
<1> HIDE DEF e, g
<1>7. \A b : b \in EntryBits(mmap, k) <=> ~mmap[k].available /\ b \in e[1] .. e[1] + e[2] - 1
  BY <1>3 DEF EntryBits, Bits
<1>8. \A b : b \in GapBits(mmap, k) <=> /\ k < Len(mmap) /\ End(mmap[k]) < mmap[k + 1].addr
                                        /\ b \in g[1] .. g[1] + g[2] - 1
  BY <1>3 DEF GapBits, Bits
<1>9. \A b : b \in U <=> b \in EntryBits(mmap, k) \cup GapBits(mmap, k)
  <2>1. ASSUME NEW b, b \in U PROVE b \in EntryBits(mmap, k) \cup GapBits(mmap, k)
    <3>1. PICK r \in entry_ranges \cup gap_ranges : b \in r[1] .. r[1] + r[2] - 1
      BY <2>1, <1>2, Zenon
    <3>2. CASE r \in entry_ranges
      BY <3>1, <3>2, <1>4, <1>7, Zenon
    <3>3. CASE r \in gap_ranges
      BY <3>1, <3>3, <1>6, <1>8, Zenon
    <3> QED BY <3>2, <3>3, Zenon
  <2>2. ASSUME NEW b, b \in EntryBits(mmap, k) PROVE b \in U
    <3>1. e \in entry_ranges /\ b \in e[1] .. e[1] + e[2] - 1
      BY <2>2, <1>4, <1>7, Zenon
    <3> QED BY <3>1, <1>2, Zenon
  <2>3. ASSUME NEW b, b \in GapBits(mmap, k) PROVE b \in U
    <3>1. g \in gap_ranges /\ b \in g[1] .. g[1] + g[2] - 1
      BY <2>3, <1>6, <1>8, Zenon
    <3> QED BY <3>1, <1>2, Zenon
  <2> QED BY <2>1, <2>2, <2>3, Zenon
<1>10. U = EntryBits(mmap, k) \cup GapBits(mmap, k)
  BY <1>9, Zenon
<1> QED BY <1>10 DEF U
-----------------------------------------------------------------------------
LEMMA BootInitial == Init => BootInv
<1> SUFFICES ASSUME Init PROVE BootInv
  OBVIOUS
<1>1. PICK n \in 0 .. MAP_LEN - 1, l \in KERNEL_END .. TOP :
        \E rest \in [1 .. n -> {e \in Entry : l <= e.addr /\ End(e) <= TOP}] :
          mmap = <<[addr |-> 0, len |-> l, available |-> TRUE]>> \o rest
  BY DEF Init
<1>2. PICK rest \in [1 .. n -> {e \in Entry : l <= e.addr /\ End(e) <= TOP}] :
        mmap = <<[addr |-> 0, len |-> l, available |-> TRUE]>> \o rest
  BY <1>1
<1> DEFINE first == [addr |-> 0, len |-> l, available |-> TRUE]
<1>3. n \in Nat /\ l \in Nat
  BY BootAssumption
<1>4. first.addr = 0 /\ first.len = l /\ first.available
  OBVIOUS
<1>5. /\ Len(mmap) = n + 1 /\ DOMAIN mmap = 1 .. n + 1
      /\ mmap[1] = first /\ \A i \in 1 .. n : mmap[i + 1] = rest[i]
  <2>1. rest \in Seq(Entry) /\ Len(rest) = n
    BY <1>3
  <2>2. <<first>> \in Seq({first}) /\ Len(<<first>>) = 1 /\ <<first>>[1] = first
    OBVIOUS
  <2> HIDE DEF first
  <2> QED BY <1>2, <2>1, <2>2, <1>3 DEF first
<1> HIDE DEF first
<1>6. mod_start \in Nat /\ KERNEL_END <= mod_start /\ mod_start % PAGE = 0
  BY Numbers DEF Init
<1>7. mod_end \in mod_start + 1 .. l
  BY <1>4, <1>5 DEF Init
<1>8. mod_end \in Nat /\ mod_start < mod_end /\ mod_end <= l /\ l \in Nat \ {0}
  BY <1>3, <1>6, <1>7
<1>9. ASSUME NEW i \in DOMAIN mmap
      PROVE  /\ mmap[i].addr \in Nat /\ mmap[i].len \in Nat \ {0}
             /\ mmap[i].available \in BOOLEAN /\ End(mmap[i]) <= TOP
  <2>1. CASE i = 1
    <3>1. End(mmap[1]) = l
      BY <1>3, <1>4, <1>5 DEF End
    <3>2. mmap[1].addr = 0 /\ mmap[1].len = l /\ mmap[1].available = TRUE
      BY <1>5 DEF first
    <3>3. l <= TOP /\ 0 \in Nat
      BY <1>3, Numbers
    <3> QED BY <2>1, <3>1, <3>2, <3>3, <1>8, Zenon
  <2>2. CASE i # 1
    <3>1. i - 1 \in 1 .. n /\ i = (i - 1) + 1
      BY <2>2, <1>3, <1>5
    <3>2. mmap[i] = rest[i - 1]
      BY <3>1, <1>5
    <3>3. rest[i - 1] \in Entry /\ End(rest[i - 1]) <= TOP
      BY <3>1
    <3>4. /\ rest[i - 1].addr \in Nat /\ rest[i - 1].len \in Nat \ {0}
          /\ rest[i - 1].available \in BOOLEAN
      BY <3>3, Numbers DEF Entry
    <3> QED BY <3>2, <3>3, <3>4, Zenon
  <2> QED BY <2>1, <2>2
<1>10. Machine
  <2>1. Apart(mmap) /\ low_byte \in 1 - PAGE .. PAGE - 1
    BY DEF Init
  <2> QED BY <2>1, <1>3, <1>4, <1>5, <1>6, <1>8, <1>9 DEF Machine
<1>11. k \in 1 .. Len(mmap)
  BY <1>3, <1>5 DEF Init
<1> QED BY <1>10, <1>11 DEF Init, BootInv, Sized, Progress, WildNeedsOddMachine

LEMMA InitMemoryInv == BootInv /\ init_memory => BootInv'
<1> SUFFICES ASSUME BootInv, init_memory PROVE BootInv'
  OBVIOUS
<1>1. Machine /\ k = 1 /\ k \in 1 .. Len(mmap)
  BY DEF BootInv, Progress, init_memory
<1>2. /\ UNCHANGED <<mmap, mod_start, mod_end, low_byte, k>>
      /\ pc' = "scan" /\ used' = {}
      /\ bitmap_size' = End(fetch_highest_block) \div PAGE
      /\ kernel_end_addr' = KERNEL_END + PAGE * (total_bitmap_pages(bitmap_size') + total_module_pages)
      /\ wild' = \/ kernel_end_addr' \div PAGE > PTES
                 \/ mod_end + bitmap_len' > kernel_end_addr'
  BY DEF init_memory, input
<1>3. bitmap_len' = (bitmap_size' + BITS - 1) \div BITS
  BY DEF bitmap_len
<1>4. /\ mod_start = KERNEL_END => mod_end + bitmap_len' <= kernel_end_addr'
      /\ bitmap_len' \in Nat /\ kernel_end_addr' \in Nat
  BY <1>1, <1>2, <1>3, SizesOf
<1>5. Machine'
  BY <1>1, <1>2 DEF Machine, Apart, End
<1>6. total_module_pages' = total_module_pages /\ fetch_highest_block' = fetch_highest_block
  BY <1>2 DEF total_module_pages, align_up_4k, align_down_4k, fetch_highest_block
<1>7. wild' \in BOOLEAN
  BY <1>2
<1>8. mod_end \in Nat
  BY <1>1 DEF Machine
<1>9. ~wild' => mod_end + bitmap_len' <= kernel_end_addr'
  BY <1>2, <1>4, <1>8
<1>10. Sized'
  BY <1>2, <1>6, <1>9 DEF Sized
<1>11. Marked(mmap, bitmap_len', 0) = {}
  BY DEF Marked
<1>12. Progress'
  <2>1. k' - 1 = 0
    BY <1>1, <1>2
  <2> QED BY <1>2, <1>11, <2>1 DEF Progress
<1>13. WildNeedsOddMachine'
  <2>1. ASSUME wild' PROVE mod_start # KERNEL_END \/ kernel_end_addr' \div PAGE > PTES
    <3>1. kernel_end_addr' \div PAGE > PTES \/ mod_end + bitmap_len' > kernel_end_addr'
      BY <2>1, <1>2, Zenon
    <3>2. \A x, y \in Nat : ~(x <= y /\ x > y)
      OBVIOUS
    <3>3. mod_end + bitmap_len' \in Nat
      <4>1. bitmap_len' \in Nat
        BY <1>4, Zenon
      <4>2. \A x, y \in Nat : x + y \in Nat
        OBVIOUS
      <4> QED BY <4>1, <4>2, <1>8, Zenon
    <3> QED BY <3>1, <3>2, <3>3, <1>4, Zenon
  <2> QED BY <2>1, <1>2 DEF WildNeedsOddMachine
<1> QED BY <1>1, <1>2, <1>5, <1>7, <1>10, <1>12, <1>13 DEF BootInv

(* The bits that lie in the pages below the end of the highest entry. *)
LEMMA Fits ==
  ASSUME Machine, Sized, pc # "map", End(fetch_highest_block) % PAGE = 0,
         NEW f \in Nat, PAGE * f < End(fetch_highest_block)
  PROVE  f < BITS * bitmap_len
<1>1. /\ bitmap_size \in Nat /\ bitmap_len \in Nat
      /\ End(fetch_highest_block) = PAGE * bitmap_size /\ bitmap_size <= BITS * bitmap_len
  BY SizesOf DEF Sized, bitmap_len
<1>2. f < bitmap_size
  <2>1. ASSUME bitmap_size <= f PROVE FALSE
    <3>1. PAGE * bitmap_size <= PAGE * f /\ PAGE * f \in Nat /\ PAGE * bitmap_size \in Nat
      BY <2>1, <1>1, Numbers
    <3> QED BY <3>1, <1>1
  <2> QED BY <2>1, <1>1
<1> QED BY <1>1, <1>2, Numbers
(* The bits of one round lie below the end of an entry. *)
LEMMA RoundBelow ==
  ASSUME Machine, NEW i \in DOMAIN mmap, NEW b \in EntryBits(mmap, i) \cup GapBits(mmap, i)
  PROVE  b \in Nat /\ \E j \in DOMAIN mmap : PAGE * b < End(mmap[j])
<1>1. \A j \in DOMAIN mmap : mmap[j].addr \in Nat /\ mmap[j].len \in Nat \ {0}
  BY DEF Machine
<1>2. \A j \in DOMAIN mmap : End(mmap[j]) \in Nat /\ mmap[j].addr < End(mmap[j])
                             /\ End(mmap[j]) = mmap[j].addr + mmap[j].len
  BY MapEnd
<1>3. CASE b \in EntryBits(mmap, i)
  <2>1. b \in Bits(mmap[i].addr, mmap[i].len)
    BY <1>3 DEF EntryBits
  <2>2. b \in Nat /\ PAGE * b < mmap[i].addr + mmap[i].len
    BY <2>1, <1>1, Touches
  <2> QED BY <2>2, <1>2
<1>4. CASE b \in GapBits(mmap, i)
  <2>1. /\ i < Len(mmap) /\ End(mmap[i]) < mmap[i + 1].addr
        /\ b \in Bits(End(mmap[i]), mmap[i + 1].addr - End(mmap[i]))
    BY <1>4 DEF GapBits
  <2>2. i + 1 \in DOMAIN mmap
    BY <2>1 DEF Machine
  <2>3. mmap[i + 1].addr - End(mmap[i]) \in Nat \ {0} /\ End(mmap[i]) \in Nat
    BY <2>1, <2>2, <1>1, <1>2
  <2>4. b \in Nat /\ PAGE * b < End(mmap[i]) + (mmap[i + 1].addr - End(mmap[i]))
    BY <2>1, <2>3, Touches
  <2>5. PAGE * b \in Nat
    BY <2>4, Numbers
  <2>6. PAGE * b < End(mmap[i + 1])
    BY <2>2, <2>3, <2>4, <2>5, <1>1, <1>2
  <2> QED BY <2>2, <2>4, <2>6
<1> QED BY <1>3, <1>4

(* The kernel's state, but for the marks. *)
LEMMA SameMachine ==
  ASSUME BootInv, pc # "map", pc' # "map", input' = input,
         bitmap_size' = bitmap_size, kernel_end_addr' = kernel_end_addr, wild => wild'
  PROVE  /\ Machine' /\ Sized' /\ bitmap_len' = bitmap_len
         /\ KernelBits' = KernelBits /\ ModuleBits' = ModuleBits
         /\ wild => WildNeedsOddMachine'
<1>1. UNCHANGED <<mmap, mod_start, mod_end, low_byte>>
  BY DEF input
<1>2. Machine'
  BY <1>1 DEF BootInv, Machine, Apart, End
<1>3. bitmap_len' = bitmap_len
  BY DEF bitmap_len
<1>4. total_module_pages' = total_module_pages /\ fetch_highest_block' = fetch_highest_block
  BY <1>1 DEF total_module_pages, align_up_4k, align_down_4k, fetch_highest_block
<1>5. Sized'
  BY <1>1, <1>3, <1>4 DEF BootInv, Sized
<1>6. KernelBits' = KernelBits
  BY <1>1 DEF KernelBits, kernel_range
<1>7. ModuleBits' = ModuleBits
  BY <1>1, <1>4 DEF ModuleBits, module_range, align_down_4k
<1>8. ASSUME wild PROVE WildNeedsOddMachine'
  BY <1>8, <1>1, <1>4 DEF BootInv, WildNeedsOddMachine
<1> QED BY <1>2, <1>3, <1>5, <1>6, <1>7, <1>8

(* One round of populate_bitmap. *)
LEMMA PopulateInv == BootInv /\ populate_bitmap => BootInv'
<1> SUFFICES ASSUME BootInv, populate_bitmap PROVE BootInv'
  OBVIOUS
<1> DEFINE B == EntryBits(mmap, k) \cup GapBits(mmap, k)
           L == BITS * bitmap_len
<1>1. /\ Machine /\ Sized /\ k \in 1 .. Len(mmap) /\ wild \in BOOLEAN
      /\ pc = "scan" /\ used = Marked(mmap, bitmap_len, k - 1)
  BY DEF BootInv, Progress, populate_bitmap
<1>2. UNION {r[1] .. r[1] + r[2] - 1 : r \in entry_ranges \cup gap_ranges} = B
  BY <1>1, RoundBits
<1>3. /\ used' = used \cup {b \in B : 0 <= b /\ b < L}
      /\ wild' = (wild \/ \E b \in B : b < 0 \/ b >= L)
      /\ k' = (IF last_entry THEN k ELSE k + 1)
      /\ pc' = (IF last_entry THEN "kernel" ELSE "scan")
      /\ UNCHANGED <<input, bitmap_size, kernel_end_addr>>
  BY <1>2 DEF populate_bitmap, set_used_bitmaps
<1>4. wild' \in BOOLEAN /\ (wild => wild')
  BY <1>3
<1>5. pc' # "map" /\ pc' \in {"scan", "kernel"}
  BY <1>3
<1>6. /\ Machine' /\ Sized' /\ bitmap_len' = bitmap_len
      /\ KernelBits' = KernelBits /\ ModuleBits' = ModuleBits
      /\ wild => WildNeedsOddMachine'
  BY <1>1, <1>3, <1>4, <1>5, SameMachine
<1>7. UNCHANGED <<mmap, mod_start, mod_end, low_byte>>
  BY <1>3 DEF input
<1>a. Len(mmap) \in Nat
  BY <1>1 DEF Machine
<1>8. last_entry <=> k = Len(mmap)
  BY <1>1, <1>a DEF last_entry
<1>9. k' \in 1 .. Len(mmap')
  <2>1. CASE last_entry
    BY <2>1, <1>1, <1>3, <1>7
  <2>2. CASE ~last_entry
    <3>1. k' = k + 1 /\ k # Len(mmap)
      BY <2>2, <1>3, <1>8
    <3>2. k + 1 \in 1 .. Len(mmap)
      BY <3>1, <1>1, <1>a
    <3> QED BY <3>1, <3>2, <1>7
  <2> QED BY <2>1, <2>2
<1>10. used' = Marked(mmap, bitmap_len, k)
  <2>1. 1 .. k = (1 .. k - 1) \cup {k}
    BY <1>1 DEF Machine
  <2>2. {b \in B : 0 <= b /\ b < L} = InBitmap(EntryBits(mmap, k) \cup GapBits(mmap, k), bitmap_len)
    BY DEF InBitmap
  <2> HIDE DEF B, L
  <2>3. Marked(mmap, bitmap_len, k)
          = Marked(mmap, bitmap_len, k - 1)
              \cup InBitmap(EntryBits(mmap, k) \cup GapBits(mmap, k), bitmap_len)
    BY <2>1, Zenon DEF Marked
  <2> QED BY <2>2, <2>3, <1>1, <1>3
<1>11. Progress'
  <2>1. CASE last_entry
    <3>1. pc' = "kernel" /\ used' = Marked(mmap', bitmap_len', Len(mmap'))
      BY <2>1, <1>3, <1>6, <1>7, <1>8, <1>10
    <3> QED BY <3>1 DEF Progress
  <2>2. CASE ~last_entry
    <3>1. pc' = "scan" /\ k' - 1 = k
      BY <2>2, <1>1, <1>3 DEF Machine
    <3>2. used' = Marked(mmap', bitmap_len', k' - 1)
      BY <3>1, <1>6, <1>7, <1>10
    <3> QED BY <3>1, <3>2 DEF Progress
  <2> QED BY <2>1, <2>2
<1>12. WildNeedsOddMachine'
  <2>1. SUFFICES ASSUME ~wild, wild',
                        \A i \in DOMAIN mmap : ~(End(mmap[i]) > End(fetch_highest_block)),
                        End(fetch_highest_block) % PAGE = 0
                 PROVE FALSE
    <3>1. fetch_highest_block' = fetch_highest_block
      BY <1>7 DEF fetch_highest_block
    <3> QED BY <3>1, <1>1, <1>6, <1>7 DEF WildNeedsOddMachine
  <2>2. PICK b \in B : b < 0 \/ b >= L
    BY <2>1, <1>3, Zenon
  <2>3. k \in DOMAIN mmap
    BY <1>1 DEF Machine
  <2>4. b \in Nat /\ \E j \in DOMAIN mmap : PAGE * b < End(mmap[j])
    BY <2>3, <1>1, RoundBelow
  <2>5. PICK j \in DOMAIN mmap : PAGE * b < End(mmap[j])
    BY <2>4
  <2>6. PAGE * b \in Nat /\ End(mmap[j]) \in Nat /\ End(fetch_highest_block) \in Nat
    BY <2>4, <1>1, Numbers, MapEnd
  <2>7. PAGE * b < End(fetch_highest_block)
    <3>1. ~(End(mmap[j]) > End(fetch_highest_block))
      BY <2>1
    <3> QED BY <3>1, <2>5, <2>6
  <2>8. b < BITS * bitmap_len
    BY <2>1, <2>4, <2>7, <1>1, Fits
  <2>9. bitmap_len \in Nat
    BY <1>1, SizesOf DEF Sized, bitmap_len
  <2>10. L \in Nat
    BY <2>9, Numbers
  <2> QED BY <2>2, <2>4, <2>8, <2>10
<1> QED BY <1>4, <1>5, <1>6, <1>9, <1>11, <1>12 DEF BootInv
(* The end of populate_bitmap. *)
LEMMA PopulateKernelInv == BootInv /\ populate_kernel => BootInv'
<1> SUFFICES ASSUME BootInv, populate_kernel PROVE BootInv'
  OBVIOUS
<1> DEFINE B == KernelBits \cup ModuleBits
           L == BITS * bitmap_len
           K == kernel_end_addr \div PAGE
<1>1. /\ Machine /\ Sized /\ k \in 1 .. Len(mmap) /\ wild \in BOOLEAN
      /\ pc = "kernel" /\ used = Marked(mmap, bitmap_len, Len(mmap))
  BY DEF BootInv, Progress, populate_kernel
<1>2. UNION {r[1] .. r[1] + r[2] - 1 : r \in {kernel_range, module_range}} = B
  BY DEF KernelBits, ModuleBits
<1>3. /\ used' = used \cup {b \in B : 0 <= b /\ b < L}
      /\ wild' = (wild \/ \E b \in B : b < 0 \/ b >= L)
      /\ pc' = "done"
      /\ UNCHANGED <<input, bitmap_size, kernel_end_addr, k>>
  BY <1>2 DEF populate_kernel, set_used_bitmaps
<1>4. wild' \in BOOLEAN /\ (wild => wild')
  BY <1>3
<1>5. /\ Machine' /\ Sized' /\ bitmap_len' = bitmap_len
      /\ KernelBits' = KernelBits /\ ModuleBits' = ModuleBits
      /\ wild => WildNeedsOddMachine'
  BY <1>1, <1>3, <1>4, SameMachine
<1>6. UNCHANGED <<mmap, mod_start, mod_end, low_byte>>
  BY <1>3 DEF input
<1>7. /\ low_byte >= 0 => KernelBits = 0 .. K - 1
      /\ low_byte < 0 => -1 \in KernelBits
      /\ ~wild => ModuleBits \subseteq 0 .. K - 1
  BY <1>1, KernelFrames
<1>8. low_byte \in Int
  BY <1>1, Numbers DEF Machine
<1>9. ASSUME ~wild' PROVE low_byte' >= 0
  <2>1. -1 \notin B
    <3>1. ~ \E b \in B : b < 0 \/ b >= L
      BY <1>9, <1>3, Zenon
    <3>2. -1 < 0
      OBVIOUS
    <3> QED BY <3>1, <3>2, Zenon
  <2>2. ~(low_byte < 0)
    BY <2>1, <1>7
  <2> QED BY <2>2, <1>6, <1>8
<1>10. Progress'
  <2>1. used' = Marked(mmap', bitmap_len', Len(mmap')) \cup InBitmap((KernelBits \cup ModuleBits)', bitmap_len')
    BY <1>1, <1>3, <1>5, <1>6 DEF InBitmap
  <2> QED BY <2>1, <1>3, <1>9 DEF Progress
<1>11. WildNeedsOddMachine'
  <2>1. SUFFICES ASSUME ~wild, wild', low_byte >= 0,
                        ~(kernel_end_addr > End(fetch_highest_block)),
                        End(fetch_highest_block) % PAGE = 0
                 PROVE FALSE
    <3>1. fetch_highest_block' = fetch_highest_block
      BY <1>6 DEF fetch_highest_block
    <3> QED BY <3>1, <1>1, <1>3, <1>5, <1>6, <1>8 DEF WildNeedsOddMachine
  <2>2. PICK b \in B : b < 0 \/ b >= L
    BY <2>1, <1>3, Zenon
  <2>3. kernel_end_addr \in Nat /\ kernel_end_addr = PAGE * K /\ K \in Nat \ {0} /\ bitmap_len \in Nat
    BY <1>1, SizesOf DEF Sized, bitmap_len
  <2> HIDE DEF K
  <2>4. b \in 0 .. K - 1
    BY <2>1, <2>2, <1>7
  <2>5. b \in Nat /\ PAGE * b < PAGE * K
    BY <2>3, <2>4, Numbers
  <2>6. PAGE * b \in Nat /\ End(fetch_highest_block) \in Nat
    BY <2>5, <1>1, Numbers, MapEnd
  <2>7. PAGE * b < End(fetch_highest_block)
    BY <2>1, <2>3, <2>5, <2>6
  <2>8. b < BITS * bitmap_len
    BY <2>1, <2>5, <2>7, <1>1, Fits
  <2>9. L \in Nat
    BY <2>3, Numbers
  <2> QED BY <2>2, <2>5, <2>8, <2>9
<1>12. k' \in 1 .. Len(mmap')
  BY <1>1, <1>3, <1>6
<1> QED BY <1>3, <1>4, <1>5, <1>10, <1>11, <1>12 DEF BootInv

LEMMA BootStep == BootInv /\ [Next]_vars => BootInv'
<1> SUFFICES ASSUME BootInv, [Next]_vars PROVE BootInv'
  OBVIOUS
<1>1. CASE init_memory
  BY <1>1, InitMemoryInv
<1>2. CASE populate_bitmap
  BY <1>2, PopulateInv
<1>3. CASE populate_kernel
  BY <1>3, PopulateKernelInv
<1>4. CASE UNCHANGED vars
  <2>1. UNCHANGED <<mmap, mod_start, mod_end, low_byte, bitmap_size, kernel_end_addr, used, k, pc, wild>>
    BY <1>4 DEF vars, input
  <2>2. /\ bitmap_len' = bitmap_len /\ KernelBits' = KernelBits /\ ModuleBits' = ModuleBits
        /\ total_module_pages' = total_module_pages /\ fetch_highest_block' = fetch_highest_block
    BY <2>1 DEF bitmap_len, KernelBits, ModuleBits, kernel_range, module_range, total_module_pages,
                align_up_4k, align_down_4k, fetch_highest_block
  <2>3. Machine' /\ Sized'
    BY <2>1, <2>2 DEF BootInv, Machine, Sized, Apart, End
  <2>4. Progress'
    BY <2>1, <2>2 DEF BootInv, Progress
  <2>5. WildNeedsOddMachine'
    BY <2>1, <2>2 DEF BootInv, WildNeedsOddMachine
  <2> QED BY <2>1, <2>3, <2>4, <2>5 DEF BootInv
<1> QED BY <1>1, <1>2, <1>3, <1>4 DEF Next

LEMMA BootAlways == Spec => []BootInv
BY BootInitial, BootStep, PTL DEF Spec
-----------------------------------------------------------------------------
(* The order of the natural numbers as a set of pairs. *)
LEMMA Descending == IsWellFoundedOn({ss \in Nat \X Nat : ss[1] < ss[2]}, Nat)
<1>1. OpToRel(<, Nat) = {ss \in Nat \X Nat : ss[1] < ss[2]}
  BY Zenon DEF OpToRel
<1> QED BY <1>1, NatLessThanWellFounded, Zenon

(* A nonempty set of natural numbers has a least member. *)
LEMMA LeastOf ==
  ASSUME NEW S \in SUBSET Nat, S # {}
  PROVE \E m \in S : \A x \in S : m <= x
<1> DEFINE R == {ss \in Nat \X Nat : ss[1] < ss[2]}
<1>1. \A x, y \in Nat : <<x, y>> \in R <=> x < y
  OBVIOUS
<1>2. IsWellFoundedOn(R, Nat)
  BY Descending
<1> HIDE DEF R
<1>3. PICK m \in S : \A y \in S : ~(<<y, m>> \in R)
  BY <1>2, WFMin
<1>4. ASSUME NEW y \in S PROVE m <= y
  <2>1. y \in Nat /\ m \in Nat
    OBVIOUS
  <2>2. ~(y < m)
    BY <2>1, <1>3, <1>1
  <2> QED BY <2>1, <2>2
<1> QED BY <1>4

(* A byte below the end of the last entry that is in no entry lies in a gap    *)
(* between two neighbours of the map, whatever its order. *)
LEMMA GapOf ==
  ASSUME Machine, NEW x \in Nat, x < End(mmap[Len(mmap)]),
         \A i \in DOMAIN mmap : x < mmap[i].addr \/ End(mmap[i]) <= x
  PROVE  \E i \in DOMAIN mmap : i < Len(mmap) /\ End(mmap[i]) <= x /\ x < mmap[i + 1].addr
<1> DEFINE S == {i \in DOMAIN mmap : x < mmap[i].addr}
<1>1. Len(mmap) \in Nat \ {0} /\ DOMAIN mmap = 1 .. Len(mmap) /\ mmap[1].addr = 0
  BY DEF Machine
<1>2. \A i \in DOMAIN mmap : mmap[i].addr \in Nat /\ End(mmap[i]) \in Nat
  BY MapEnd DEF Machine
<1>3. Len(mmap) \in S
  BY <1>1, <1>2
<1>4. S \in SUBSET Nat /\ S # {}
  BY <1>1, <1>3
<1>5. PICK m \in S : \A i \in S : m <= i
  BY <1>4, LeastOf
<1>6. m \in 1 .. Len(mmap) /\ x < mmap[m].addr
  BY <1>1, <1>5
<1>7. m # 1
  BY <1>1, <1>6
<1>8. m - 1 \in DOMAIN mmap /\ m - 1 < Len(mmap) /\ (m - 1) + 1 = m
  BY <1>1, <1>6, <1>7
<1>9. m - 1 \notin S
  <2>1. ~(m <= m - 1)
    BY <1>6
  <2> QED BY <2>1, <1>5
<1>10. End(mmap[m - 1]) <= x
  BY <1>8, <1>9
<1> QED BY <1>6, <1>8, <1>10

(* The frames of the bytes outside the memory are marked, but for the tails. *)
LEMMA Unavailable ==
  ASSUME Machine, Sized, pc # "map",
         NEW f \in 0 .. bitmap_size - 1, NEW x \in Byte(f), x \notin Ram
  PROVE  f \in Marked(mmap, bitmap_len, Len(mmap)) \/ f \in UnalignedTail
<1>1. /\ bitmap_size \in Nat /\ bitmap_len \in Nat /\ bitmap_size <= BITS * bitmap_len
      /\ PAGE * bitmap_size <= End(fetch_highest_block)
  BY SizesOf DEF Sized, bitmap_len
<1>2. Len(mmap) \in Nat \ {0} /\ DOMAIN mmap = 1 .. Len(mmap)
  BY DEF Machine
<1>3. \A i \in DOMAIN mmap : mmap[i].addr \in Nat /\ mmap[i].len \in Nat \ {0} /\ End(mmap[i]) \in Nat
                             /\ End(mmap[i]) = mmap[i].addr + mmap[i].len
  BY MapEnd DEF Machine
<1>4. f \in Nat /\ f < bitmap_size /\ f * PAGE = PAGE * f /\ PAGE * f \in Nat
  BY <1>1, Numbers
<1>5. x \in Nat /\ PAGE * f <= x /\ x < PAGE * f + PAGE
  <2>1. x \in f * PAGE .. f * PAGE + PAGE - 1
    BY DEF Byte
  <2> QED BY <2>1, <1>4, Numbers
<1>6. x < End(mmap[Len(mmap)])
  <2>1. PAGE * (f + 1) <= PAGE * bitmap_size
    BY <1>1, <1>4, Numbers
  <2>2. PAGE * (f + 1) = PAGE * f + PAGE
    BY <1>4, Numbers
  <2>3. PAGE * bitmap_size \in Nat /\ End(fetch_highest_block) \in Nat
    BY <1>1, Numbers, MapEnd
  <2>4. x < End(fetch_highest_block)
    BY <2>1, <2>2, <2>3, <1>1, <1>4, <1>5, Numbers
  <2> QED BY <2>4 DEF fetch_highest_block
<1>7. 0 <= f /\ f < BITS * bitmap_len
  BY <1>1, <1>4, Numbers
<1>8. ASSUME NEW i \in DOMAIN mmap, f \in EntryBits(mmap, i) \cup GapBits(mmap, i)
      PROVE  f \in Marked(mmap, bitmap_len, Len(mmap))
  <2>1. f \in InBitmap(EntryBits(mmap, i) \cup GapBits(mmap, i), bitmap_len)
    BY <1>7, <1>8 DEF InBitmap
  <2> QED BY <2>1, <1>2 DEF Marked
<1> DEFINE reserved == {<<mmap[i].addr, mmap[i].len>> : i \in {j \in DOMAIN mmap : ~mmap[j].available}}
           gaps == {<<End(mmap[i]), mmap[i + 1].addr - End(mmap[i])>> : i \in 1 .. Len(mmap) - 1}
<1>9. UnalignedTail = {(r[1] + r[2] - 1) \div PAGE : r \in {y \in reserved \cup gaps : y[1] % PAGE # 0}}
  BY DEF UnalignedTail
<1>10. CASE \E i \in DOMAIN mmap : mmap[i].addr <= x /\ x < End(mmap[i])
  <2>1. PICK i \in DOMAIN mmap : mmap[i].addr <= x /\ x < End(mmap[i])
    BY <1>10
  <2>2. ~mmap[i].available
    <3>1. ASSUME mmap[i].available PROVE x \in Ram
      <4>1. x \in mmap[i].addr .. End(mmap[i]) - 1
        BY <2>1, <1>3, <1>5
      <4> QED BY <3>1, <4>1 DEF Ram
    <3> QED BY <3>1
  <2> DEFINE a == mmap[i].addr
             l == mmap[i].len
  <2>3. a \in Nat /\ l \in Nat \ {0} /\ a <= x /\ x < a + l
    BY <2>1, <1>3
  <2>4. <<a, l>> \in reserved /\ <<a, l>>[1] = a /\ <<a, l>>[2] = l
    BY <2>2
  <2> HIDE DEF reserved, gaps
  <2>5. f \in Bits(a, l) \/ (a % PAGE # 0 /\ f = (a + l - 1) \div PAGE)
    <3> HIDE DEF a, l
    <3> QED BY <2>3, <1>4, <1>5, Covers
  <2>6. ASSUME f \in Bits(a, l) PROVE f \in Marked(mmap, bitmap_len, Len(mmap))
    <3>1. f \in EntryBits(mmap, i)
      BY <2>2, <2>6 DEF EntryBits
    <3> QED BY <3>1, <1>8
  <2>7. ASSUME a % PAGE # 0, f = (a + l - 1) \div PAGE PROVE f \in UnalignedTail
    <3> HIDE DEF a, l
    <3> QED BY <2>4, <2>7, <1>9
  <2> QED BY <2>5, <2>6, <2>7
<1>11. CASE ~ \E i \in DOMAIN mmap : mmap[i].addr <= x /\ x < End(mmap[i])
  <2>1. \A i \in DOMAIN mmap : x < mmap[i].addr \/ End(mmap[i]) <= x
    BY <1>3, <1>5, <1>11
  <2>2. PICK i \in DOMAIN mmap : i < Len(mmap) /\ End(mmap[i]) <= x /\ x < mmap[i + 1].addr
    BY <2>1, <1>5, <1>6, GapOf
  <2> DEFINE a == End(mmap[i])
             l == mmap[i + 1].addr - End(mmap[i])
  <2>3. i + 1 \in DOMAIN mmap /\ i \in 1 .. Len(mmap) - 1
    BY <2>2, <1>2
  <2>4. a \in Nat /\ l \in Nat \ {0} /\ a <= x /\ x < a + l /\ a < mmap[i + 1].addr
    BY <2>2, <2>3, <1>3, <1>5
  <2>5. <<a, l>> \in gaps /\ <<a, l>>[1] = a /\ <<a, l>>[2] = l
    BY <2>3
  <2> HIDE DEF reserved, gaps
  <2>6. f \in Bits(a, l) \/ (a % PAGE # 0 /\ f = (a + l - 1) \div PAGE)
    <3> HIDE DEF a, l
    <3> QED BY <2>4, <1>4, <1>5, Covers
  <2>7. ASSUME f \in Bits(a, l) PROVE f \in Marked(mmap, bitmap_len, Len(mmap))
    <3>1. f \in GapBits(mmap, i)
      BY <2>2, <2>4, <2>7 DEF GapBits
    <3> QED BY <3>1, <1>8
  <2>8. ASSUME a % PAGE # 0, f = (a + l - 1) \div PAGE PROVE f \in UnalignedTail
    <3> HIDE DEF a, l
    <3> QED BY <2>5, <2>8, <1>9
  <2> QED BY <2>6, <2>7, <2>8
<1> QED BY <1>10, <1>11
(* What a round marks holds a byte that is not memory, if the map is in order. *)
LEMMA MarkedHoldsOther ==
  ASSUME Machine, Sorted, NEW i \in DOMAIN mmap, NEW f \in EntryBits(mmap, i) \cup GapBits(mmap, i)
  PROVE  ~(Byte(f) \subseteq Ram)
<1>1. Len(mmap) \in Nat \ {0} /\ DOMAIN mmap = 1 .. Len(mmap)
  BY DEF Machine
<1>2. \A j \in DOMAIN mmap : /\ mmap[j].addr \in Nat /\ mmap[j].len \in Nat \ {0}
                             /\ End(mmap[j]) \in Nat /\ mmap[j].addr < End(mmap[j])
                             /\ End(mmap[j]) = mmap[j].addr + mmap[j].len
  BY MapEnd DEF Machine
<1>3. \A j, h \in DOMAIN mmap :
        j # h => End(mmap[j]) <= mmap[h].addr \/ End(mmap[h]) <= mmap[j].addr
  BY DEF Machine, Apart
<1>4. \A j, h \in DOMAIN mmap : j < h => mmap[j].addr < mmap[h].addr
  BY DEF Sorted
<1>5. \A x : x \in Ram <=> \E j \in DOMAIN mmap : mmap[j].available /\ x \in mmap[j].addr .. End(mmap[j]) - 1
  BY DEF Ram
<1>6. ASSUME NEW a \in Nat, NEW l \in Nat \ {0}, f \in Bits(a, l)
      PROVE  \E x \in Byte(f) : x \in Nat /\ a <= x /\ x < a + l
  <2>1. f \in Nat /\ PAGE * f < a + l /\ a < PAGE * f + PAGE
    BY <1>6, Touches
  <2>2. f * PAGE = PAGE * f /\ PAGE * f \in Nat
    BY <2>1, Numbers
  <2> DEFINE b == PAGE * f
  <2>3. Byte(f) = b .. b + PAGE - 1
    BY <2>2 DEF Byte
  <2> HIDE DEF b
  <2>4. b \in Nat /\ b < a + l /\ a < b + PAGE
    BY <2>1, <2>2 DEF b
  <2>5. CASE a >= b
    <3>1. a \in Byte(f) /\ a < a + l /\ a <= a
      BY <2>3, <2>4, <2>5, Numbers
    <3> QED BY <3>1
  <2>6. CASE a < b
    <3>1. b \in Byte(f) /\ a <= b
      BY <2>3, <2>4, <2>6, Numbers
    <3> QED BY <3>1, <2>4
  <2> QED BY <2>4, <2>5, <2>6
<1>7. CASE f \in EntryBits(mmap, i)
  <2>1. ~mmap[i].available /\ f \in Bits(mmap[i].addr, mmap[i].len)
    BY <1>7 DEF EntryBits
  <2>2. PICK x \in Byte(f) : x \in Nat /\ mmap[i].addr <= x /\ x < mmap[i].addr + mmap[i].len
    BY <2>1, <1>2, <1>6
  <2>3. ASSUME NEW j \in DOMAIN mmap, mmap[j].available, x \in mmap[j].addr .. End(mmap[j]) - 1
        PROVE  FALSE
    <3>1. j # i
      BY <2>1, <2>3
    <3> QED BY <3>1, <2>2, <2>3, <1>2, <1>3
  <2>4. x \notin Ram
    BY <2>3, <1>5
  <2> QED BY <2>2, <2>4
<1>8. CASE f \in GapBits(mmap, i)
  <2>1. /\ i < Len(mmap) /\ End(mmap[i]) < mmap[i + 1].addr
        /\ f \in Bits(End(mmap[i]), mmap[i + 1].addr - End(mmap[i]))
    BY <1>8 DEF GapBits
  <2>2. i + 1 \in DOMAIN mmap
    BY <2>1, <1>1
  <2>3. mmap[i + 1].addr - End(mmap[i]) \in Nat \ {0} /\ End(mmap[i]) \in Nat
    BY <2>1, <2>2, <1>2
  <2>4. PICK x \in Byte(f) : x \in Nat /\ End(mmap[i]) <= x
                             /\ x < End(mmap[i]) + (mmap[i + 1].addr - End(mmap[i]))
    BY <2>1, <2>3, <1>6
  <2>5. x < mmap[i + 1].addr
    BY <2>2, <2>3, <2>4, <1>2
  <2>6. ASSUME NEW j \in DOMAIN mmap, mmap[j].available, x \in mmap[j].addr .. End(mmap[j]) - 1
        PROVE  FALSE
    <3>1. mmap[j].addr <= x /\ x < End(mmap[j])
      BY <2>6, <1>2
    <3>2. CASE j = i
      <4>1. x < End(mmap[i])
        BY <3>1, <3>2
      <4> QED BY <4>1, <2>3, <2>4
    <3>3. CASE j < i
      <4>1. mmap[j].addr < mmap[i].addr /\ j # i
        BY <3>3, <1>1, <1>4
      <4>2. End(mmap[j]) <= mmap[i].addr \/ End(mmap[i]) <= mmap[j].addr
        BY <4>1, <1>3
      <4> QED BY <4>1, <4>2, <3>1, <2>4, <1>2
    <3>4. CASE j = i + 1
      <4>1. mmap[i + 1].addr <= x /\ mmap[i + 1].addr \in Nat
        BY <3>1, <3>4, <2>2, <1>2
      <4> QED BY <4>1, <2>4, <2>5
    <3>5. CASE i + 1 < j
      <4>1. mmap[i + 1].addr < mmap[j].addr
        BY <3>5, <2>2, <1>4
      <4> QED BY <4>1, <3>1, <2>2, <2>4, <2>5, <1>2
    <3>6. j \in Int /\ i \in Int
      BY <1>1
    <3> QED BY <3>2, <3>3, <3>4, <3>5, <3>6
  <2>7. x \notin Ram
    BY <2>6, <1>5
  <2> QED BY <2>4, <2>7
<1> QED BY <1>7, <1>8

(* The kernel, the module and the bitmap lie below kernel_end_addr. *)
LEMMA TakenBelow ==
  ASSUME Machine, Sized, pc # "map", ~wild, NEW x \in Taken
  PROVE  x \in Nat /\ x < kernel_end_addr
<1>1. kernel_end_addr \in Nat /\ KERNEL_END <= kernel_end_addr /\ bitmap_len \in Nat
  BY SizesOf DEF Sized, bitmap_len
<1>2. mod_end + bitmap_len <= kernel_end_addr
  BY DEF Sized
<1>3. mod_start \in Nat /\ mod_end \in Nat
  BY DEF Machine
<1>4. CASE x \in 0 .. KERNEL_END - 1
  BY <1>1, <1>4, Numbers
<1>5. CASE x \in mod_start .. mod_end + bitmap_len - 1
  BY <1>1, <1>2, <1>3, <1>5
<1> QED BY <1>4, <1>5 DEF Taken

-----------------------------------------------------------------------------
(* BootMemory is type correct: the bitmap holds no bit beyond its end. *)
THEOREM BootTypes == Spec => []TypeOK
<1>1. BootInv => TypeOK
  <2> SUFFICES ASSUME BootInv PROVE TypeOK
    OBVIOUS
  <2>1. Machine /\ Sized /\ Progress
    BY DEF BootInv
  <2>2. k \in DOMAIN mmap
    BY <2>1 DEF BootInv, Machine
  <2>3. bitmap_size \in 0 .. TOP /\ bitmap_len \in Nat /\ kernel_end_addr \in Nat
    <3>1. CASE pc = "map"
      <4>1. bitmap_size = 0 /\ kernel_end_addr = KERNEL_END
        BY <2>1, <3>1 DEF Sized
      <4>2. (0 + BITS - 1) \div BITS \in Nat
        BY BitmapLength
      <4> QED BY <4>1, <4>2, Numbers DEF bitmap_len
    <3>2. CASE pc # "map"
      BY <2>1, <3>2, SizesOf DEF Sized, bitmap_len
    <3> QED BY <3>1, <3>2
  <2>4. BITS * bitmap_len \in Nat
    BY <2>3, Numbers
  <2>5. \A B : B \subseteq Int => InBitmap(B, bitmap_len) \subseteq 0 .. BITS * bitmap_len - 1
    <3>1. SUFFICES ASSUME NEW B, B \subseteq Int, NEW b \in InBitmap(B, bitmap_len)
                   PROVE  b \in 0 .. BITS * bitmap_len - 1
      BY Zenon
    <3>2. b \in Int /\ 0 <= b /\ b < BITS * bitmap_len
      BY <3>1 DEF InBitmap
    <3> QED BY <3>2, <2>4
  <2>6. \A m, n : Marked(m, bitmap_len, n) \subseteq 0 .. BITS * bitmap_len - 1
    <3>1. \A m, i : EntryBits(m, i) \cup GapBits(m, i) \subseteq Int
      BY DEF EntryBits, GapBits, Bits
    <3>2. \A m, i : InBitmap(EntryBits(m, i) \cup GapBits(m, i), bitmap_len) \subseteq 0 .. BITS * bitmap_len - 1
      BY <3>1, <2>5
    <3> QED BY <3>2, Zenon DEF Marked
  <2>7. KernelBits \cup ModuleBits \subseteq Int
    BY DEF KernelBits, ModuleBits
  <2>8. used \subseteq 0 .. BITS * bitmap_len - 1
    <3>1. InBitmap(KernelBits \cup ModuleBits, bitmap_len) \subseteq 0 .. BITS * bitmap_len - 1
      BY <2>7, <2>5
    <3>2. used \in {{}, Marked(mmap, bitmap_len, k - 1), Marked(mmap, bitmap_len, Len(mmap)),
                   Marked(mmap, bitmap_len, Len(mmap)) \cup InBitmap(KernelBits \cup ModuleBits, bitmap_len)}
      BY <2>1 DEF BootInv, Progress
    <3> QED BY <3>1, <3>2, <2>6, Zenon
  <2> QED BY <2>2, <2>3, <2>8 DEF BootInv, TypeOK
<1> QED BY <1>1, BootAlways, PTL

(* The bitmap the boot leaves behind is right in both directions, for every    *)
(* memory map and every place of the module (memory.c:63-112): a frame that    *)
(* holds anything but free memory is marked or is the tail of a range that is  *)
(* not aligned, and with a map in order no free frame behind the kernel is     *)
(* marked. *)
THEOREM BitmapIsRight == Spec => []BitmapRight
<1>1. BootInv => NothingUnusableIsFree
  <2> SUFFICES ASSUME BootInv, pc = "done", ~wild, NEW f \in 0 .. bitmap_size - 1,
                      f \notin used, f \notin UnalignedTail
               PROVE  f \in Usable
    BY Zenon DEF NothingUnusableIsFree
  <2>1. /\ Machine /\ Sized /\ low_byte >= 0
        /\ used = Marked(mmap, bitmap_len, Len(mmap)) \cup InBitmap(KernelBits \cup ModuleBits, bitmap_len)
    BY DEF BootInv, Progress
  <2>2. /\ bitmap_size \in Nat /\ bitmap_len \in Nat /\ bitmap_size <= BITS * bitmap_len
        /\ kernel_end_addr \in Nat /\ kernel_end_addr = PAGE * (kernel_end_addr \div PAGE)
        /\ kernel_end_addr \div PAGE \in Nat
    BY <2>1, SizesOf DEF Sized, bitmap_len
  <2>3. f \in Nat /\ f < BITS * bitmap_len /\ f * PAGE = PAGE * f /\ PAGE * f \in Nat
    BY <2>2, Numbers
  <2>4. ASSUME NEW x \in Byte(f) PROVE x \in Ram
    BY <2>1, Unavailable
  <2>5. ASSUME NEW x \in Byte(f), x \in Taken PROVE FALSE
    <3>1. x \in Nat /\ x < kernel_end_addr
      BY <2>1, <2>5, TakenBelow
    <3>2. PAGE * f <= x
      BY <2>3, Numbers DEF Byte
    <3> DEFINE K == kernel_end_addr \div PAGE
    <3>3. KernelBits = 0 .. K - 1
      BY <2>1, KernelFrames
    <3>4. K \in Nat /\ kernel_end_addr = PAGE * K
      BY <2>2
    <3> HIDE DEF K
    <3>5. f < K
      <4>1. ASSUME K <= f PROVE FALSE
        <5>1. PAGE * K <= PAGE * f
          BY <4>1, <3>4, <2>3, Numbers
        <5> QED BY <5>1, <3>1, <3>2, <3>4, <2>2, <2>3
      <4> QED BY <4>1, <3>4, <2>3
    <3>6. f \in InBitmap(KernelBits \cup ModuleBits, bitmap_len)
      BY <3>3, <3>4, <3>5, <2>3 DEF InBitmap
    <3> QED BY <3>6, <2>1
  <2> QED BY <2>4, <2>5 DEF Usable
<1>2. BootInv => NothingUsableIsLost
  <2> SUFFICES ASSUME BootInv, pc = "done", ~wild, Sorted, NEW f \in used \cap Usable
               PROVE  f < kernel_end_addr \div PAGE
    BY DEF NothingUsableIsLost
  <2>1. /\ Machine /\ Sized /\ low_byte >= 0
        /\ used = Marked(mmap, bitmap_len, Len(mmap)) \cup InBitmap(KernelBits \cup ModuleBits, bitmap_len)
    BY DEF BootInv, Progress
  <2>2. kernel_end_addr \div PAGE \in Nat
    BY <2>1, SizesOf DEF Sized, bitmap_len
  <2>3. KernelBits \cup ModuleBits \subseteq 0 .. kernel_end_addr \div PAGE - 1
    BY <2>1, KernelFrames
  <2>4. ASSUME f \in Marked(mmap, bitmap_len, Len(mmap)) PROVE FALSE
    <3>1. PICK i \in 1 .. Len(mmap) : f \in InBitmap(EntryBits(mmap, i) \cup GapBits(mmap, i), bitmap_len)
      BY <2>4 DEF Marked
    <3>2. f \in EntryBits(mmap, i) \cup GapBits(mmap, i)
      BY <3>1 DEF InBitmap
    <3>3. i \in DOMAIN mmap
      BY <2>1 DEF Machine
    <3>4. ~(Byte(f) \subseteq Ram)
      BY <3>2, <3>3, <2>1, MarkedHoldsOther
    <3> QED BY <3>4 DEF Usable
  <2>5. f \in KernelBits \cup ModuleBits
    BY <2>1, <2>4 DEF InBitmap
  <2> QED BY <2>2, <2>3, <2>5
<1> QED BY <1>1, <1>2, BootAlways, PTL DEF BitmapRight

(* The boot writes outside its bitmap and page table only on a machine where   *)
(* one of the things init_memory takes for granted does not hold (memory.c:47, *)
(* :66, :101, :191). *)
THEOREM WildOnlyOnOddMachine == Spec => []WildNeedsOddMachine
<1>1. BootInv => WildNeedsOddMachine
  BY DEF BootInv
<1> QED BY <1>1, BootAlways, PTL
=============================================================================
