------------------------------ MODULE InodeStore ------------------------------
(***************************************************************************)
(* The on-disk file store (kernel/filesystem/fs.c): a bitmap of inodes, a  *)
(* bitmap of data sectors, a table of inodes and the data sectors, written *)
(* one sector or one bitmap at a time.  init_fs formats the disk at every  *)
(* boot.  A file is stored by the sequence init_fs keeps in a comment      *)
(* (fs.c:196-209), the only caller these functions have: take an inode     *)
(* number, write the data, write the inode.                                *)
(*                                                                         *)
(* It runs with interrupts off, so nothing interleaves; the power may go   *)
(* between any two disk writes.  disk_read and disk_write are the promise  *)
(* AtaDisk checks.  Slip_ operators are as in Scheduler.                   *)
(***************************************************************************)
EXTENDS Naturals, FiniteSets, FiniteSetsExt

CONSTANTS
  File,          \* the files stored, each once per boot
  Sectors,       \* the number of sectors of each file, (size + 511) / 512
  PER_SECTOR,    \* inodes per sector: 512 / sizeof(inode_t)
  IBLOCK,        \* sectors between IBLOCK_OFFSET and DATA_OFFSET
  MAX_SECTORS,   \* the length of inode_t.sector
  INODE_BITS,    \* bits in the inode bitmap
  DATA_BITS,     \* bits in the data bitmap
  Garbage,       \* what an uninitialised inode_t.sector entry may hold
  CUT_BOUND      \* how often the power goes

ASSUME StoreAssumption ==
  /\ Sectors \in [File -> Nat]
  /\ PER_SECTOR \in Nat \ {0} /\ IBLOCK \in Nat \ {0} /\ MAX_SECTORS \in Nat \ {0}
  /\ INODE_BITS \in Nat /\ INODE_BITS > IBLOCK * PER_SECTOR
  /\ DATA_BITS \in Nat \ {0}
  /\ Garbage \subseteq Nat
  /\ CUT_BOUND \in Nat

VARIABLES
  inode_bmap, data_bmap,   \* on disk: the numbers whose bit is set
  sector,                  \* on disk: the slots of each sector from IBLOCK_OFFSET on
  pc,                      \* the disk write that comes next
  job,                     \* on the stack: the file being stored
  wild,                    \* memory outside inode_t, or the disk, was overrun
  made,                    \* history: the jobs that ended since the last boot
  cuts                     \* history: how often the power went

disk == <<inode_bmap, data_bmap, sector>>
vars == <<disk, pc, job, wild, made, cuts>>

-----------------------------------------------------------------------------
(* A sector is PER_SECTOR slots.  A slot holds zeros, an inode, or the part of *)
(* a file's data that lies there. *)
Zero == [kind |-> "zero"]

Inode(n, at) == [kind |-> "inode", sectors |-> n, sector |-> at]

Data(f, k) == [kind |-> "data", file |-> f, k |-> k]

Filled(x) == [slot \in 0 .. PER_SECTOR - 1 |-> x]

(* The table of inodes and, behind it, the data sectors.  The data bitmap       *)
(* covers DATA_BITS of them, and the inode numbers the inode bitmap can give    *)
(* may lie beyond the table. *)
Sector == 0 .. IBLOCK + DATA_BITS - 1

NoJob == [file |-> "none"]

(* init_ibmap, init_dbmap and init_iblock, each with its own disk_write. *)
init_ibmap ==
  /\ pc = "ibmap"
  /\ inode_bmap' = {}
  /\ pc' = "dbmap"
  /\ UNCHANGED <<data_bmap, sector, job, wild, made, cuts>>

Slip_init_dbmap ==
  /\ pc = "dbmap"
  /\ pc' = "iblock"
  /\ UNCHANGED <<disk, job, wild, made, cuts>>

init_dbmap ==
  /\ pc = "dbmap"
  /\ data_bmap' = {}
  /\ pc' = "iblock"
  /\ UNCHANGED <<inode_bmap, sector, job, wild, made, cuts>>

init_iblock ==
  /\ pc = "iblock"
  /\ sector' = [s \in Sector |-> IF s < IBLOCK THEN Filled(Zero) ELSE sector[s]]
  /\ pc' = "idle"
  /\ UNCHANGED <<inode_bmap, data_bmap, job, wild, made, cuts>>

(* The numbers whose bit is clear in the inode bitmap. *)
free_inodes == 0 .. INODE_BITS - 1 \ inode_bmap

(* alloc_inode_num: the lowest clear bit is set on disk before the file has an *)
(* inode.  The caller goes on with -1 when there is none.  Its inode_t is not  *)
(* initialised, and write_inode_data starts by reading the data bitmap. *)
alloc_inode_num ==
  \E f \in File, at \in [0 .. MAX_SECTORS - 1 -> Garbage] :
    /\ pc = "idle"
    /\ \A j \in made : j.file # f
    /\ \/ /\ free_inodes = {}
          /\ wild' = TRUE
          /\ UNCHANGED <<inode_bmap, pc, job>>
       \/ /\ free_inodes # {}
          /\ inode_bmap' = inode_bmap \cup {Min(free_inodes)}
          /\ job' = [file |-> f, num |-> Min(free_inodes), at |-> at, count |-> 0,
                     bmap |-> data_bmap]
          /\ pc' = "data"
          /\ UNCHANGED wild
    /\ UNCHANGED <<data_bmap, sector, made, cuts>>

(* The clear bits of the bitmap write_inode_data holds in memory. *)
free_data == 0 .. DATA_BITS - 1 \ job.bmap

(* One round of the loop of write_inode_data that finds a clear bit: its      *)
(* number goes to inode->sector[sectors_count], past the end of the inode_t    *)
(* from MAX_SECTORS on, and the sector is written. *)
write_data_sector ==
  /\ pc = "data"
  /\ job.count < Sectors[job.file]
  /\ free_data # {}
  /\ \/ /\ job.count >= MAX_SECTORS
        /\ wild' = TRUE
        /\ UNCHANGED <<sector, job>>
     \/ /\ job.count < MAX_SECTORS
        /\ job' = [job EXCEPT !.at[job.count] = Min(free_data), !.count = @ + 1,
                              !.bmap = @ \cup {Min(free_data)}]
        /\ sector' = [sector EXCEPT ![IBLOCK + Min(free_data)] = Filled(Data(job.file, job.count))]
        /\ UNCHANGED wild
  /\ UNCHANGED <<inode_bmap, data_bmap, pc, made, cuts>>

(* The end of write_inode_data: every sector is written or no bit is clear,   *)
(* which it does not report. *)
write_data_bmap ==
  /\ pc = "data"
  /\ job.count >= Sectors[job.file] \/ free_data = {}
  /\ data_bmap' = job.bmap
  /\ pc' = "inode"
  /\ UNCHANGED <<inode_bmap, sector, job, wild, made, cuts>>

Slip_write_inode ==
  /\ pc = "inode"
  /\ sector' = [sector EXCEPT ![job.num \div PER_SECTOR] =
       [Filled(Zero) EXCEPT ![job.num % PER_SECTOR] = Inode(Sectors[job.file], job.at)]]
  /\ made' = made \cup {job}
  /\ job' = NoJob
  /\ pc' = "idle"
  /\ UNCHANGED <<inode_bmap, data_bmap, wild, cuts>>

(* write_inode: the sector with the inode's slot is read, changed and written *)
(* back.  A number beyond the table names a slot among the data sectors. *)
write_inode ==
  /\ pc = "inode"
  /\ sector' = [sector EXCEPT ![job.num \div PER_SECTOR][job.num % PER_SECTOR] =
                               Inode(Sectors[job.file], job.at)]
  /\ made' = made \cup {job}
  /\ job' = NoJob
  /\ pc' = "idle"
  /\ UNCHANGED <<inode_bmap, data_bmap, wild, cuts>>

(* The power goes; the next boot formats the disk. *)
power_cut ==
  /\ cuts < CUT_BOUND
  /\ cuts' = cuts + 1
  /\ pc' = "ibmap"
  /\ job' = NoJob
  /\ made' = {}
  /\ UNCHANGED <<disk, wild>>

(* The disk of the first boot holds anything; the model starts it with every   *)
(* bit set, the furthest from what init_fs leaves. *)
Init ==
  /\ inode_bmap = 0 .. INODE_BITS - 1
  /\ data_bmap = 0 .. DATA_BITS - 1
  /\ sector = [s \in Sector |-> Filled(Zero)]
  /\ pc = "ibmap"
  /\ job = NoJob
  /\ wild = FALSE
  /\ made = {}
  /\ cuts = 0

Next ==
  /\ ~wild
  /\ \/ init_ibmap \/ init_dbmap \/ init_iblock
     \/ alloc_inode_num \/ write_data_sector \/ write_data_bmap \/ write_inode
     \/ power_cut

Spec == Init /\ [][Next]_vars
-----------------------------------------------------------------------------
(* read_inode and read_inode_data: what a reader of the inode gets. *)
read_inode(num) == sector[num \div PER_SECTOR][num % PER_SECTOR]

read_inode_data(inode) ==
  [k \in 0 .. inode.sectors - 1 |-> sector[IBLOCK + inode.sector[k]]]

TypeOK ==
  /\ inode_bmap \subseteq 0 .. INODE_BITS - 1
  /\ data_bmap \subseteq 0 .. DATA_BITS - 1
  /\ \A s \in Sector, i \in 0 .. PER_SECTOR - 1 :
       sector[s][i].kind \in {"zero", "inode", "data"}
  /\ pc \in {"ibmap", "dbmap", "iblock", "idle", "data", "inode"}
  /\ job = NoJob \/ (job.file \in File /\ job.num \in 0 .. INODE_BITS - 1)
  /\ wild \in BOOLEAN
  /\ cuts \in 0 .. CUT_BOUND

(* The sectors a file was given. *)
Given(j) == {j.at[k] : k \in 0 .. j.count - 1}

(* A file is whole on disk: its inode is in its slot and leads to its data,    *)
(* every sector of it and in order. *)
ReadsBack(j) ==
  LET inode == Inode(Sectors[j.file], j.at)
  IN /\ read_inode(j.num) = inode
     /\ j.count = Sectors[j.file]
     /\ read_inode_data(inode) = [k \in 0 .. j.count - 1 |-> Filled(Data(j.file, k))]

(* The sectors the files stored so far ask for, as <<file, place in the file>>. *)
Asked == UNION {{j} \X (0 .. Sectors[j.file] - 1) : j \in made}

(* What was asked of the store is more than it holds: a file with more sectors  *)
(* than inode_t lists (fs.c:106), more files than the table has inodes although  *)
(* the bitmap counts further (fs.c:129), more data than there are sectors. *)
Excess ==
  \/ \E j \in made \cup {job} : j # NoJob /\ Sectors[j.file] > MAX_SECTORS
  \/ Cardinality(made) > IBLOCK * PER_SECTOR
  \/ Cardinality(Asked) > DATA_BITS

(* Every file reads back as it was stored, and nothing outside the store is    *)
(* overwritten, until the store is asked for more than it holds; the code      *)
(* checks none of its limits.  What lay on the disk before the boot, or was cut *)
(* off half-way by a power cut, never shows. *)
DamageNeedsExcess == (wild \/ \E j \in made : ~ReadsBack(j)) => Excess

(* Between two files the bitmaps say exactly what is in use (fs.c:76, :112):   *)
(* no number is given to two files, none is lost, and a power cut half-way     *)
(* through a file, after which its inode number or its sectors were taken but  *)
(* not used, leaves nothing taken once init_fs is through. *)
BitmapsExact ==
  pc = "idle" =>
    /\ inode_bmap = {j.num : j \in made}
    /\ data_bmap = UNION {Given(j) : j \in made}
    /\ \A i, j \in made : i # j => i.num # j.num /\ Given(i) \cap Given(j) = {}
=============================================================================
