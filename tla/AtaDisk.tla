------------------------------- MODULE AtaDisk -------------------------------
(***************************************************************************)
(* The ATA driver (kernel/filesystem/disk.c), which transfers one sector   *)
(* after the other through the data port and polls the status register in  *)
(* between, and the drive it talks to.  The drive is external: it is       *)
(* modelled as the driver uses it, with the rule of the ATA command set    *)
(* that a command written while the drive is busy is ignored.              *)
(*                                                                         *)
(* The drive works while the driver polls: each of its steps is an action, *)
(* and each may end in an error.  A polling loop is an action that waits   *)
(* for its condition.  The 256 words of a sector are one transfer; the     *)
(* address registers are the sector number.                                *)
(*                                                                         *)
(* init_fs calls init_disk first and ignores what it returns (fs.c:152).   *)
(* Slip_ operators are as in Scheduler.                                    *)
(***************************************************************************)
EXTENDS Naturals

CONSTANTS
  Value,     \* what a sector may hold
  Blank,     \* what every sector holds before it is written
  LAST,      \* the last sector of the drive
  MAX_COUNT  \* the largest sector count passed to disk_read or disk_write

ASSUME DiskAssumption ==
  /\ Blank \notin Value
  /\ LAST \in Nat
  /\ MAX_COUNT \in 1 .. LAST + 1

Sector == 0 .. LAST

VARIABLES
  present,   \* there is a drive
  drive,     \* BSY, DRQ and ERR, the command under way, the next sector, how
             \* many are left, and the sector received but not yet stored
  cache,     \* what the drive returns for each sector
  medium,    \* what it returns after the power was off
  pc,        \* where the driver is
  call,      \* the operation, its first sector, their number, the buffer
  i,         \* the loop counter of disk_read and disk_write
  wrote,     \* history: what the calls of disk_write passed for each sector
  lost,      \* history: disk_write returned although the drive reported an error
  raced      \* history: the last flush was written to a busy drive

vars == <<present, drive, cache, medium, pc, call, i, wrote, lost, raced>>
history == <<wrote, lost, raced>>

Resting == [bsy |-> FALSE, drq |-> FALSE, err |-> FALSE, cmd |-> "NONE",
            next |-> 0, left |-> 0, held |-> Blank]

NoCall == [op |-> "CMD_IDENTIFY", lba |-> 0, sectors |-> 1, buffer |-> [k \in {0} |-> Blank]]

-----------------------------------------------------------------------------
(* The drive.  A write to its command register takes effect at once: BSY is    *)
(* set before the next poll.  A drive may take 400 ns for that, and a poll that *)
(* comes earlier, and reads the status from before the command, is left out. *)
command(c) ==
  drive' = IF ~present \/ drive.bsy \/ drive.drq THEN drive
           ELSE [Resting EXCEPT !.bsy = TRUE, !.cmd = c, !.next = call.lba, !.left = call.sectors]

(* The drive has a sector ready, or room for one. *)
drive_ready ==
  /\ drive.bsy /\ drive.left > 0 /\ drive.held = Blank
  /\ drive.cmd \in {"CMD_IDENTIFY", "CMD_READ", "CMD_WRITE"}
  /\ drive' = [drive EXCEPT !.bsy = FALSE, !.drq = TRUE]
  /\ UNCHANGED <<present, cache, medium, pc, call, i, history>>

(* The drive stores the sector it received. *)
drive_store ==
  /\ drive.bsy /\ drive.held # Blank
  /\ cache' = [cache EXCEPT ![drive.next] = drive.held]
  /\ drive' = [drive EXCEPT !.bsy = FALSE, !.drq = drive.left > 0, !.held = Blank, !.next = @ + 1]
  /\ UNCHANGED <<present, medium, pc, call, i, history>>

(* The drive writes its cache to the medium. *)
drive_flush ==
  /\ drive.bsy /\ drive.cmd = "CMD_CACHE_FLUSH"
  /\ medium' = cache
  /\ drive' = [drive EXCEPT !.bsy = FALSE]
  /\ UNCHANGED <<present, cache, pc, call, i, history>>

(* The drive gives up the command.  The driver returns from disk_write all the  *)
(* same if it has no more sectors to send. *)
drive_error ==
  /\ drive.bsy
  /\ drive' = [Resting EXCEPT !.err = TRUE]
  /\ lost' = (lost \/ pc \in {"flush", "bsy3"})
  /\ UNCHANGED <<present, cache, medium, pc, call, i, wrote, raced>>

-----------------------------------------------------------------------------
(* init_disk: IDENTIFY, then a status of 0 means that there is no drive. *)
init_disk ==
  \/ /\ pc = "boot"
     /\ command("CMD_IDENTIFY")
     /\ pc' = "status"
     /\ UNCHANGED <<present, cache, medium, call, i, history>>
  \/ /\ pc = "status"
     /\ pc' = IF present THEN "bsy_id" ELSE "idle"
     /\ UNCHANGED <<present, drive, cache, medium, call, i, history>>

(* The loop of init_disk that ends with an error or with the data, which is    *)
(* read and not used. *)
identify ==
  /\ pc = "identify"
  /\ drive.err \/ drive.drq
  /\ drive' = IF drive.err THEN drive ELSE Resting
  /\ pc' = "idle"
  /\ UNCHANGED <<present, cache, medium, call, i, history>>

(* disk_read or disk_write is called. *)
disk_call(c) ==
  /\ pc = "idle"
  /\ call' = c
  /\ i' = 0
  /\ wrote' = IF c.op = "CMD_WRITE"
              THEN [s \in Sector |-> IF s \in c.lba .. c.lba + c.sectors - 1
                                     THEN c.buffer[s - c.lba] ELSE wrote[s]]
              ELSE wrote
  /\ pc' = "bsy0"
  /\ UNCHANGED <<present, drive, cache, medium, lost, raced>>

(* The calls.  What a read's buffer held before does not matter. *)
Call ==
  {[op |-> "CMD_READ", lba |-> s, sectors |-> n, buffer |-> [k \in 0 .. n - 1 |-> Blank]] :
     s \in 0 .. LAST + 1 - MAX_COUNT, n \in 1 .. MAX_COUNT}
  \cup UNION {{[op |-> "CMD_WRITE", lba |-> s, sectors |-> n, buffer |-> b] :
     s \in 0 .. LAST + 1 - MAX_COUNT, b \in [0 .. n - 1 -> Value]} : n \in 1 .. MAX_COUNT}

(* wait_bsy, then the registers and the command are written. *)
issue ==
  /\ pc = "bsy0"
  /\ ~drive.bsy
  /\ command(call.op)
  /\ pc' = "bsy1"
  /\ UNCHANGED <<present, cache, medium, call, i, history>>

(* The other calls of wait_bsy, and where each leads. *)
wait_bsy ==
  /\ pc \in {"bsy_id", "bsy1", "bsy2", "bsy3"}
  /\ ~drive.bsy
  /\ pc' = CASE pc = "bsy_id" -> "identify" [] pc = "bsy1" -> "drq1"
             [] pc = "bsy2" -> "drq2" [] pc = "bsy3" -> "idle"
  /\ UNCHANGED <<present, drive, cache, medium, call, i, history>>

(* The wait_drq before the loop: it looks at DRQ only, not at ERR. *)
wait_drq ==
  /\ pc = "drq1"
  /\ drive.drq
  /\ pc' = "bsy2"
  /\ UNCHANGED <<present, drive, cache, medium, call, i, history>>

Slip_word(k) == 0

(* Where in the buffer sector k of the loop lies. *)
word(k) == k

Slip_more == i + 1 <= call.sectors

(* The loop of disk_read or disk_write goes on. *)
more == i + 1 < call.sectors

(* wait_drq in the loop and the transfer of one sector. *)
transfer ==
  /\ pc = "drq2"
  /\ drive.drq
  /\ \/ /\ call.op = "CMD_READ"
        /\ call' = [call EXCEPT !.buffer[word(i)] = cache[drive.next]]
        /\ drive' = [drive EXCEPT !.bsy = drive.left > 1, !.drq = FALSE,
                                  !.next = @ + 1, !.left = @ - 1]
        /\ pc' = IF more THEN "bsy2" ELSE "idle"
     \/ /\ call.op = "CMD_WRITE"
        /\ drive' = [drive EXCEPT !.bsy = TRUE, !.drq = FALSE, !.left = @ - 1,
                                  !.held = call.buffer[word(i)]]
        /\ pc' = IF more THEN "bsy2" ELSE "flush"
        /\ UNCHANGED call
  /\ i' = i + 1
  /\ UNCHANGED <<present, cache, medium, history>>

Slip_flush ==
  /\ pc = "flush"
  /\ command("CMD_CACHE_FLUSH")
  /\ raced' = drive.bsy
  /\ pc' = "idle"
  /\ UNCHANGED <<present, cache, medium, call, i, wrote, lost>>

(* The end of disk_write: CMD_CACHE_FLUSH follows the last word at once, while *)
(* the drive may still be busy with the sector. *)
flush ==
  /\ pc = "flush"
  /\ command("CMD_CACHE_FLUSH")
  /\ raced' = drive.bsy
  /\ pc' = "bsy3"
  /\ UNCHANGED <<present, cache, medium, call, i, wrote, lost>>

-----------------------------------------------------------------------------
Init ==
  /\ present \in BOOLEAN
  /\ drive = Resting
  /\ cache = [s \in Sector |-> Blank]
  /\ medium = cache
  /\ pc = "boot"
  /\ call = NoCall
  /\ i = 0
  /\ wrote = cache
  /\ lost = FALSE
  /\ raced = FALSE

Drive == drive_ready \/ drive_store \/ drive_flush \/ drive_error

Driver ==
  \/ init_disk \/ identify \/ issue \/ wait_bsy \/ wait_drq \/ transfer \/ flush

Next == Drive \/ Driver \/ \E c \in Call : disk_call(c)

Spec == Init /\ [][Next]_vars

(***************************************************************************)
(* Fairness.  The kernel does nothing but run the driver until the call    *)
(* returns, with interrupts off, and a drive that is busy ends its command *)
(* or reports an error.  Nothing obliges the kernel to make another call.  *)
(***************************************************************************)
FairSpec == Spec /\ WF_vars(Driver) /\ WF_vars(Drive)
-----------------------------------------------------------------------------
TypeOK ==
  /\ present \in BOOLEAN
  /\ drive \in [bsy : BOOLEAN, drq : BOOLEAN, err : BOOLEAN,
                cmd : {"NONE", "CMD_IDENTIFY", "CMD_READ", "CMD_WRITE", "CMD_CACHE_FLUSH"},
                next : 0 .. LAST + 1, left : 0 .. MAX_COUNT, held : Value \cup {Blank}]
  /\ {cache, medium, wrote} \subseteq [Sector -> Value \cup {Blank}]
  /\ pc \in {"boot", "status", "bsy_id", "identify", "idle", "bsy0", "bsy1", "drq1",
             "bsy2", "drq2", "flush", "bsy3"}
  /\ i \in 0 .. call.sectors

(* A disk_read that returns has the right data in its buffer, whatever the     *)
(* drive reported: an error stops it for ever rather than end it (disk.c:73-79). *)
(* Only what disk_write lost without noticing is not there (disk.c:113-116). *)
ReadsWhatWasWritten ==
  (pc = "idle" /\ call.op = "CMD_READ" /\ ~lost) =>
    \A k \in 0 .. call.sectors - 1 : call.buffer[k] = wrote[call.lba + k]

(* When disk_write returns, its data survives the loss of power, unless the    *)
(* flush was written to a busy drive, which ignores it (disk.c:113), or an     *)
(* error was not looked at. *)
DurableUnlessRaced == (pc = "idle" /\ ~raced /\ ~lost) => medium = wrote

(* Every call returns unless there is no drive or it reported an error: then   *)
(* the driver may poll for ever (disk.c:12).                                   *)
CallEnds == pc # "idle" ~> (pc = "idle" \/ ~present \/ drive.err)
=============================================================================
