---------------------------- MODULE AtaDiskProofs ----------------------------
(***************************************************************************)
(* Proofs about AtaDisk, for a drive of any size, any contents and any     *)
(* sector count.                                                           *)
(*                                                                         *)
(* The inductive invariant says, for each place the driver can be at, what *)
(* the drive is doing (Protocol) and which sectors of the call under way   *)
(* have reached its cache (Data).  A drive that gave its command up is     *)
(* calm, and leaves a driver that waits for DRQ where it is.               *)
(***************************************************************************)
EXTENDS AtaDisk, TLAPS

Content == Value \cup {Blank}

(* The drive waits for a command. *)
Calm == ~drive.bsy /\ ~drive.drq /\ drive.held = Blank

(* The drive prepares sector n of the call, or has it ready. *)
At(n) ==
  /\ drive.bsy \/ drive.drq
  /\ drive.cmd = call.op /\ drive.held = Blank
  /\ drive.next = call.lba + n /\ drive.left = call.sectors - n

(* The drive has received sector n of a disk_write and has not stored it yet. *)
Holding(n) ==
  /\ drive.bsy /\ ~drive.drq
  /\ drive.cmd = "CMD_WRITE" /\ drive.held = call.buffer[n]
  /\ drive.next = call.lba + n /\ drive.left = call.sectors - n - 1

Starting == {"boot", "status", "bsy_id", "identify"}

DriveType ==
  [bsy : BOOLEAN, drq : BOOLEAN, err : BOOLEAN,
   cmd : {"NONE", "CMD_IDENTIFY", "CMD_READ", "CMD_WRITE", "CMD_CACHE_FLUSH"},
   next : 0 .. LAST + 1, left : 0 .. MAX_COUNT, held : Value \cup {Blank}]

CallType ==
  /\ call = [op |-> call.op, lba |-> call.lba, sectors |-> call.sectors, buffer |-> call.buffer]
  /\ call.op \in {"CMD_IDENTIFY", "CMD_READ", "CMD_WRITE"}
  /\ call.lba \in Nat
  /\ call.sectors \in 1 .. MAX_COUNT
  /\ call.lba + call.sectors <= LAST + 1
  /\ call.buffer \in [0 .. call.sectors - 1 -> Content]

Protocol ==
  /\ ~(drive.bsy /\ drive.drq)
  /\ ~present \/ drive.err => Calm
  /\ pc \in {"boot", "idle", "bsy0"} => Calm
  /\ pc \in Starting => /\ call.op = "CMD_IDENTIFY" /\ i = 0
                        /\ Calm \/ At(0)
  /\ pc \notin Starting \cup {"idle"} => call.op # "CMD_IDENTIFY"
  /\ pc \in {"bsy0", "bsy1", "drq1"} => i = 0
  /\ pc \in {"bsy1", "drq1"} => Calm \/ At(0)
  /\ pc \in {"bsy2", "drq2"} =>
       /\ i < call.sectors
       /\ Calm \/ At(i) \/ (call.op = "CMD_WRITE" /\ i > 0 /\ Holding(i - 1))
  /\ pc \in {"bsy2", "drq2", "flush", "bsy3"} => present
  /\ pc \in {"flush", "bsy3"} => call.op = "CMD_WRITE" /\ i = call.sectors
  /\ pc = "flush" => Calm \/ Holding(i - 1)
  /\ pc = "bsy3" =>
       \/ Calm
       \/ raced /\ Holding(i - 1)
       \/ ~raced /\ drive.bsy /\ drive.cmd = "CMD_CACHE_FLUSH" /\ drive.held = Blank

(* The cache holds what was written, but for the sectors from n on of the   *)
(* disk_write under way. *)
Agree(n) ==
  \A s \in Sector :
    (call.op = "CMD_WRITE" /\ s \in call.lba + n .. call.lba + call.sectors - 1)
    \/ cache[s] = wrote[s]

Intended ==
  call.op = "CMD_WRITE" =>
    /\ call.buffer \in [0 .. call.sectors - 1 -> Value]
    /\ \A k \in 0 .. call.sectors - 1 : wrote[call.lba + k] = call.buffer[k]

Data ==
  /\ pc \in Starting \cup {"idle"} => cache = wrote
  /\ pc \in {"bsy0", "bsy1", "drq1"} => Agree(0)
  /\ pc \in {"bsy2", "drq2"} /\ At(i) => Agree(i)
  /\ pc \in {"bsy2", "drq2", "flush", "bsy3"} /\ drive.held # Blank => Agree(i - 1)
  /\ pc \in {"flush", "bsy3"} /\ drive.held = Blank => cache = wrote
  /\ pc = "bsy3" /\ ~raced /\ ~drive.bsy => medium = wrote
  /\ (pc \in Starting \cup {"idle"} \/ call.op = "CMD_READ") /\ ~raced => medium = wrote
  /\ call.op = "CMD_READ" => \A k \in 0 .. i - 1 : call.buffer[k] = wrote[call.lba + k]
  /\ call.op = "CMD_READ" /\ pc = "idle" => i = call.sectors

DiskInv ==
  /\ TypeOK /\ CallType /\ Protocol /\ Intended
  /\ ~lost => Data

(* The invariant in force, for the steps below. *)
Parts == TypeOK /\ CallType /\ Protocol /\ Intended

-----------------------------------------------------------------------------
(* The invariant holds before init_disk runs. *)
LEMMA DiskInitInv == Init => DiskInv
<1> SUFFICES ASSUME Init PROVE DiskInv
  OBVIOUS
<1> USE DiskAssumption DEF Init, Resting, NoCall, Sector, Content
<1>1. TypeOK
  BY DEF TypeOK
<1>2. CallType
  BY DEF CallType
<1>3. Protocol
  BY DEF Protocol, Calm, Starting
<1>4. Intended
  BY DEF Intended
<1>5. Data
  BY DEF Data, Starting
<1> QED BY <1>1, <1>2, <1>3, <1>4, <1>5 DEF DiskInv

(* The drive gets a sector ready. *)
LEMMA ReadyInv == ASSUME DiskInv, drive_ready PROVE DiskInv'
<1> USE DiskAssumption
<1>1. /\ drive' = [drive EXCEPT !.bsy = FALSE, !.drq = TRUE]
      /\ drive.bsy /\ drive.left > 0 /\ drive.held = Blank
      /\ drive.cmd # "CMD_CACHE_FLUSH"
      /\ UNCHANGED <<present, cache, medium, pc, call, i, wrote, lost, raced>>
  BY DEF drive_ready, history
<1>2. Parts
  BY DEF DiskInv, Parts
<1>3. TypeOK'
  BY <1>1, <1>2 DEF TypeOK, Parts
<1>4. CallType' /\ Intended'
  BY <1>1, <1>2 DEF CallType, Intended, Parts
<1>5. Protocol'
  <2>1. /\ ~drive'.bsy /\ drive'.drq /\ drive'.held = Blank
        /\ drive'.next = drive.next /\ drive'.left = drive.left /\ drive'.cmd = drive.cmd
    BY <1>1, <1>2 DEF Parts, TypeOK
  <2>2. \A n : At(n) => At(n)'
    BY <1>1, <2>1 DEF At
  <2>3. ~Calm /\ \A n \in 0 .. call.sectors - 1 : call.op = "CMD_WRITE" => ~Holding(n)
    BY <1>1, <1>2 DEF Calm, Holding, Parts, Intended
  <2>4. call.op = "CMD_WRITE" /\ i > 0 => ~Holding(i - 1)
    BY <1>2, <2>3 DEF Parts, CallType, TypeOK
  <2> QED BY <1>1, <1>2, <2>1, <2>2, <2>3, <2>4 DEF Protocol, Parts, Starting, CallType
<1>6. ~lost' => Data'
  <2>1. drive'.held = Blank /\ ~drive'.bsy /\ \A n : At(n)' => At(n)
    BY <1>1, <1>2 DEF At, Parts, TypeOK
  <2>2. \A n : Agree(n)' <=> Agree(n)
    BY <1>1 DEF Agree
  <2>3. pc = "bsy3" => raced
    BY <1>1, <1>2 DEF Parts, Protocol, Calm, Holding
  <2> QED BY <1>1, <2>1, <2>2, <2>3 DEF DiskInv, Data
<1> QED BY <1>3, <1>4, <1>5, <1>6 DEF DiskInv

(* The drive stores a sector: the cache agrees with one sector more. *)
LEMMA StoreInv == ASSUME DiskInv, drive_store PROVE DiskInv'
<1> USE DiskAssumption
<1>1. /\ drive' = [drive EXCEPT !.bsy = FALSE, !.drq = drive.left > 0, !.held = Blank,
                                !.next = @ + 1]
      /\ cache' = [cache EXCEPT ![drive.next] = drive.held]
      /\ drive.bsy /\ drive.held # Blank
      /\ UNCHANGED <<present, medium, pc, call, i, wrote, lost, raced>>
  BY DEF drive_store, history
<1>2. Parts
  BY DEF DiskInv, Parts
<1>3. /\ pc \in {"bsy2", "drq2", "flush", "bsy3"} /\ call.op = "CMD_WRITE"
      /\ Holding(i - 1) /\ i \in 1 .. call.sectors
      /\ pc = "bsy3" => raced
      /\ pc \in {"bsy2", "drq2"} => i < call.sectors
  BY <1>1, <1>2 DEF Parts, Protocol, Calm, At, TypeOK, CallType, Starting
<1>10. drive.next \in Sector /\ drive.next = call.lba + (i - 1)
      /\ drive.left = call.sectors - i /\ i \in Nat
  BY <1>2, <1>3, SMTT(30) DEF Parts, Holding, CallType, Sector, TypeOK
<1>11. /\ ~drive'.bsy /\ drive'.held = Blank
       /\ drive'.drq <=> i < call.sectors
       /\ drive'.next = call.lba + i /\ drive'.left = call.sectors - i
       /\ drive'.cmd = "CMD_WRITE"
  <2>1. /\ ~drive'.bsy /\ drive'.held = Blank
        /\ drive'.drq <=> drive.left > 0
        /\ drive'.next = drive.next + 1 /\ drive'.left = drive.left /\ drive'.cmd = drive.cmd
    BY <1>1, <1>2 DEF Parts, TypeOK
  <2>2. drive.cmd = "CMD_WRITE"
    BY <1>3 DEF Holding
  <2>3. call.sectors \in Nat /\ call.lba \in Nat
    BY <1>2, DiskAssumption DEF Parts, CallType
  <2>4. drive.left > 0 <=> i < call.sectors
    BY <1>10, <2>3
  <2>5. drive.next + 1 = call.lba + i
    BY <1>10, <2>3
  <2> QED BY <1>10, <2>1, <2>2, <2>4, <2>5
<1>12. drive' \in DriveType
  <2>1. drive.next + 1 \in 0 .. LAST + 1 /\ (drive.left > 0) \in BOOLEAN
    BY <1>10 DEF Sector
  <2>2. drive \in DriveType
    BY <1>2 DEF Parts, TypeOK, DriveType
  <2> QED BY <1>1, <2>1, <2>2, Zenon DEF DriveType
<1>4. TypeOK'
  <2>1. cache' \in [Sector -> Value \cup {Blank}]
    BY <1>1, <1>2, <1>10 DEF TypeOK, Parts
  <2> QED BY <1>1, <1>2, <1>12, <2>1 DEF TypeOK, Parts, DriveType
<1>5. CallType' /\ Intended'
  BY <1>1, <1>2 DEF CallType, Intended, Parts
<1>6. Protocol'
  BY <1>1, <1>2, <1>3, <1>10, <1>11 DEF Protocol, Parts, Calm, At, CallType, Starting
<1>7. ~lost => Agree(i)'
  <2> SUFFICES ASSUME ~lost, NEW s \in Sector
               PROVE  s \in call.lba + i .. call.lba + call.sectors - 1 \/ cache'[s] = wrote[s]
    BY <1>1, <1>3 DEF Agree
  <2>1. s \in call.lba + (i - 1) .. call.lba + call.sectors - 1 \/ cache[s] = wrote[s]
    BY <1>1, <1>3 DEF DiskInv, Data, Agree
  <2>2. wrote[drive.next] = drive.held
    <3>1. i - 1 \in 0 .. call.sectors - 1
      BY <1>2, <1>3 DEF Parts, CallType
    <3> QED BY <1>2, <1>3, <1>10, <3>1 DEF Parts, Intended, Holding
  <2>3. cache'[s] = IF s = drive.next THEN drive.held ELSE cache[s]
    BY <1>1, <1>2, <1>10 DEF Parts, TypeOK
  <2> QED BY <1>2, <1>3, <1>10, <2>1, <2>2, <2>3 DEF Parts, CallType, Sector
<1>8. Agree(i)' /\ pc \in {"flush", "bsy3"} => cache' = wrote'
  BY <1>1, <1>2, <1>3, <1>4 DEF Agree, Parts, Protocol, CallType, TypeOK, Sector
<1>9. ~lost' => Data'
  BY <1>1, <1>2, <1>3, <1>7, <1>8, <1>11 DEF DiskInv, Parts, Data, TypeOK, CallType, Starting
<1> QED BY <1>4, <1>5, <1>6, <1>9 DEF DiskInv

(* The drive flushes its cache. *)
LEMMA FlushedInv == ASSUME DiskInv, drive_flush PROVE DiskInv'
<1> USE DiskAssumption
<1>1. /\ drive' = [drive EXCEPT !.bsy = FALSE]
      /\ medium' = cache
      /\ drive.bsy /\ drive.cmd = "CMD_CACHE_FLUSH"
      /\ UNCHANGED <<present, cache, pc, call, i, wrote, lost, raced>>
  BY DEF drive_flush, history
<1>2. Parts
  BY DEF DiskInv, Parts
<1>3. pc = "bsy3" /\ ~raced /\ drive.held = Blank /\ ~drive.drq
  BY <1>1, <1>2 DEF Parts, Protocol, Calm, At, Holding, TypeOK, CallType, Starting
<1>4. TypeOK'
  BY <1>1, <1>2 DEF TypeOK, Parts
<1>5. CallType' /\ Intended'
  BY <1>1, <1>2 DEF CallType, Intended, Parts
<1>6. Protocol'
  BY <1>1, <1>2, <1>3 DEF Protocol, Parts, Calm, TypeOK, Starting
<1>7. ~lost' => Data'
  BY <1>1, <1>2, <1>3 DEF DiskInv, Parts, Data, TypeOK, Protocol, Starting
<1> QED BY <1>4, <1>5, <1>6, <1>7 DEF DiskInv

(* The drive gives a command up: the driver waits for ever, or the loss is recorded. *)
LEMMA ErrorInv == ASSUME DiskInv, drive_error PROVE DiskInv'
<1> USE DiskAssumption
<1>1. /\ drive' = [Resting EXCEPT !.err = TRUE]
      /\ drive.bsy
      /\ lost' = (lost \/ pc \in {"flush", "bsy3"})
      /\ UNCHANGED <<present, cache, medium, pc, call, i, wrote, raced>>
  BY DEF drive_error
<1>2. Parts
  BY DEF DiskInv, Parts
<1>3. drive'.held = Blank /\ ~drive'.bsy /\ ~drive'.drq /\ Calm'
  BY <1>1 DEF Resting, Calm
<1>4. TypeOK'
  <2>1. drive' \in DriveType
    <3>1. 0 \in 0 .. LAST + 1 /\ 0 \in 0 .. MAX_COUNT
      OBVIOUS
    <3> QED BY <1>1, <3>1, Zenon DEF Resting, DriveType
  <2> QED BY <1>1, <1>2, <2>1 DEF TypeOK, Parts, DriveType
<1>5. CallType' /\ Intended'
  BY <1>1, <1>2 DEF CallType, Intended, Parts
<1>6. Protocol'
  BY <1>1, <1>2, <1>3 DEF Protocol, Parts, Starting
<1>7. ~lost' => Data'
  BY <1>1, <1>2, <1>3 DEF DiskInv, Parts, Data, At, Agree
<1> QED BY <1>4, <1>5, <1>6, <1>7 DEF DiskInv

-----------------------------------------------------------------------------
(* A command written to a calm drive that is there starts it on the first sector. *)
LEMMA CommandStarts ==
  ASSUME Parts, NEW c \in {"CMD_IDENTIFY", "CMD_READ", "CMD_WRITE", "CMD_CACHE_FLUSH"},
         Calm, command(c)
  PROVE  /\ drive' \in DriveType
         /\ drive'.held = Blank /\ ~drive'.drq
         /\ ~present \/ drive'.err => ~drive'.bsy
         /\ drive'.bsy => drive'.cmd = c /\ drive'.next = call.lba /\ drive'.left = call.sectors
<1> USE DiskAssumption
<1>1. CASE drive' = drive
  BY <1>1 DEF Parts, TypeOK, DriveType, Calm
<1>2. CASE /\ drive' = [Resting EXCEPT !.bsy = TRUE, !.cmd = c, !.next = call.lba,
                                       !.left = call.sectors]
           /\ present
  <2>1. /\ 0 \in 0 .. LAST + 1 /\ 0 \in 0 .. MAX_COUNT
        /\ call.lba \in 0 .. LAST + 1 /\ call.sectors \in 0 .. MAX_COUNT
    BY DEF Parts, CallType
  <2>2. drive' \in DriveType
    BY <1>2, <2>1, Zenon DEF Resting, DriveType
  <2> QED BY <1>2, <2>2 DEF Resting
<1> QED BY <1>1, <1>2 DEF command

(* init_disk. *)
LEMMA InitDiskInv == ASSUME DiskInv, init_disk PROVE DiskInv'
<1> USE DiskAssumption
<1>2. Parts
  BY DEF DiskInv, Parts
<1>3. CASE /\ pc = "boot" /\ command("CMD_IDENTIFY") /\ pc' = "status"
           /\ UNCHANGED <<present, cache, medium, call, i, history>>
  <2>0. UNCHANGED <<present, cache, medium, call, i, wrote, lost, raced>>
    BY <1>3 DEF history
  <2>1. /\ drive' \in DriveType /\ drive'.held = Blank /\ ~drive'.drq
        /\ ~present \/ drive'.err => ~drive'.bsy
        /\ drive'.bsy => drive'.cmd = "CMD_IDENTIFY" /\ drive'.next = call.lba
                         /\ drive'.left = call.sectors
    BY <1>2, <1>3, CommandStarts DEF Parts, Protocol
  <2>2. TypeOK'
    BY <1>2, <1>3, <2>0, <2>1 DEF Parts, TypeOK, DriveType
  <2>3. CallType' /\ Intended'
    BY <1>2, <2>0 DEF CallType, Intended, Parts
  <2>4. Protocol'
    BY <1>2, <1>3, <2>0, <2>1 DEF Protocol, Parts, Calm, At, CallType, Starting
  <2>5. ~lost' => Data'
    BY <1>2, <1>3, <2>0 DEF DiskInv, Data, Parts, Protocol, Starting
  <2> QED BY <2>2, <2>3, <2>4, <2>5 DEF DiskInv
<1>4. CASE /\ pc = "status" /\ pc' = IF present THEN "bsy_id" ELSE "idle"
           /\ UNCHANGED <<present, drive, cache, medium, call, i, history>>
  <2>0. UNCHANGED <<present, drive, cache, medium, call, i, wrote, lost, raced>>
    BY <1>4 DEF history
  <2>2. TypeOK'
    BY <1>2, <1>4, <2>0 DEF Parts, TypeOK
  <2>3. CallType' /\ Intended'
    BY <1>2, <2>0 DEF CallType, Intended, Parts
  <2>4. Protocol'
    BY <1>2, <1>4, <2>0 DEF Protocol, Parts, Calm, At, CallType, Starting
  <2>5. ~lost' => Data'
    BY <1>2, <1>4, <2>0 DEF DiskInv, Data, Parts, Protocol, Starting
  <2> QED BY <2>2, <2>3, <2>4, <2>5 DEF DiskInv
<1> QED BY <1>3, <1>4 DEF init_disk

(* The end of init_disk. *)
LEMMA IdentifyInv == ASSUME DiskInv, identify PROVE DiskInv'
<1> USE DiskAssumption
<1>1. /\ pc = "identify" /\ pc' = "idle" /\ (drive.err \/ drive.drq)
      /\ drive' = IF drive.err THEN drive ELSE Resting
      /\ UNCHANGED <<present, cache, medium, call, i, wrote, lost, raced>>
  BY DEF identify, history
<1>2. Parts
  BY DEF DiskInv, Parts
<1>3. drive' \in DriveType
  <2>1. 0 \in 0 .. LAST + 1 /\ 0 \in 0 .. MAX_COUNT
    OBVIOUS
  <2>2. Resting \in DriveType
    BY <2>1, Zenon DEF Resting, DriveType
  <2> QED BY <1>1, <1>2, <2>2 DEF Parts, TypeOK, DriveType
<1>4. TypeOK'
  BY <1>1, <1>2, <1>3 DEF Parts, TypeOK, DriveType
<1>5. CallType' /\ Intended'
  BY <1>1, <1>2 DEF CallType, Intended, Parts
<1>6. Protocol'
  BY <1>1, <1>2 DEF Protocol, Parts, Calm, At, CallType, Starting, Resting
<1>7. ~lost' => Data'
  BY <1>1, <1>2 DEF DiskInv, Data, Parts, Protocol, Starting
<1> QED BY <1>4, <1>5, <1>6, <1>7 DEF DiskInv

(* A call of disk_read or disk_write. *)
LEMMA CallInv == ASSUME DiskInv, NEW c \in Call, disk_call(c) PROVE DiskInv'
<1> USE DiskAssumption
<1>1. /\ pc = "idle" /\ pc' = "bsy0" /\ call' = c /\ i' = 0
      /\ wrote' = IF c.op = "CMD_WRITE"
                  THEN [s \in Sector |-> IF s \in c.lba .. c.lba + c.sectors - 1
                                         THEN c.buffer[s - c.lba] ELSE wrote[s]]
                  ELSE wrote
      /\ UNCHANGED <<present, drive, cache, medium, lost, raced>>
  BY DEF disk_call
<1>2. Parts
  BY DEF DiskInv, Parts
<1>3. CallType' /\ (c.op = "CMD_WRITE" => c.buffer \in [0 .. c.sectors - 1 -> Value])
      /\ c.op # "CMD_IDENTIFY"
  <2>1. CASE \E s \in 0 .. LAST + 1 - MAX_COUNT, n \in 1 .. MAX_COUNT :
               c = [op |-> "CMD_READ", lba |-> s, sectors |-> n,
                    buffer |-> [k \in 0 .. n - 1 |-> Blank]]
    BY <1>1, <2>1 DEF CallType, Content
  <2>2. CASE \E n \in 1 .. MAX_COUNT : \E s \in 0 .. LAST + 1 - MAX_COUNT, b \in [0 .. n - 1 -> Value] :
               c = [op |-> "CMD_WRITE", lba |-> s, sectors |-> n, buffer |-> b]
    BY <1>1, <2>2 DEF CallType, Content
  <2>3. \/ \E s \in 0 .. LAST + 1 - MAX_COUNT, n \in 1 .. MAX_COUNT :
             c = [op |-> "CMD_READ", lba |-> s, sectors |-> n,
                  buffer |-> [k \in 0 .. n - 1 |-> Blank]]
        \/ \E n \in 1 .. MAX_COUNT : \E s \in 0 .. LAST + 1 - MAX_COUNT, b \in [0 .. n - 1 -> Value] :
             c = [op |-> "CMD_WRITE", lba |-> s, sectors |-> n, buffer |-> b]
    <3> DEFINE rd(s, n) == [op |-> "CMD_READ", lba |-> s, sectors |-> n,
                            buffer |-> [k \in 0 .. n - 1 |-> Blank]]
               wr(s, n, b) == [op |-> "CMD_WRITE", lba |-> s, sectors |-> n, buffer |-> b]
               R == {rd(s, n) : s \in 0 .. LAST + 1 - MAX_COUNT, n \in 1 .. MAX_COUNT}
               W(n) == {wr(s, n, b) :
                          s \in 0 .. LAST + 1 - MAX_COUNT, b \in [0 .. n - 1 -> Value]}
    <3>1. Call = R \cup UNION {W(n) : n \in 1 .. MAX_COUNT}
      BY DEF Call
    <3> HIDE DEF rd, wr
    <3>2. c \in R => \E s \in 0 .. LAST + 1 - MAX_COUNT, n \in 1 .. MAX_COUNT : c = rd(s, n)
      OBVIOUS
    <3>3. \A n : c \in W(n) =>
            \E s \in 0 .. LAST + 1 - MAX_COUNT, b \in [0 .. n - 1 -> Value] : c = wr(s, n, b)
      OBVIOUS
    <3> HIDE DEF R, W
    <3>4. c \in R \/ \E n \in 1 .. MAX_COUNT : c \in W(n)
      BY <3>1
    <3> QED BY <3>2, <3>3, <3>4 DEF rd, wr
  <2> QED BY <2>1, <2>2, <2>3
<1>4. wrote' \in [Sector -> Value \cup {Blank}]
  <2>1. CASE c.op = "CMD_WRITE"
    <3>1. ASSUME NEW s \in Sector, s \in c.lba .. c.lba + c.sectors - 1
          PROVE  c.buffer[s - c.lba] \in Value
      <4>1. s - c.lba \in 0 .. c.sectors - 1
        BY <1>1, <1>3, <3>1 DEF CallType, Sector
      <4> QED BY <1>3, <2>1, <4>1
    <3> QED BY <1>1, <1>2, <2>1, <3>1 DEF Parts, TypeOK
  <2>2. CASE c.op # "CMD_WRITE"
    BY <1>1, <1>2, <2>2 DEF Parts, TypeOK
  <2> QED BY <2>1, <2>2
<1>5. TypeOK'
  BY <1>1, <1>2, <1>3, <1>4, SMTT(30) DEF Parts, TypeOK, CallType
<1>6. Intended'
  <2> SUFFICES ASSUME c.op = "CMD_WRITE", NEW k \in 0 .. c.sectors - 1
               PROVE  wrote'[c.lba + k] = c.buffer[k]
    BY <1>1, <1>3 DEF Intended
  <2>1. c.lba + k \in Sector /\ c.lba + k \in c.lba .. c.lba + c.sectors - 1
        /\ (c.lba + k) - c.lba = k
    BY <1>1, <1>3 DEF CallType, Sector
  <2> QED BY <1>1, <2>1
<1>7. Protocol'
  BY <1>1, <1>2, <1>3 DEF Protocol, Parts, Calm, Starting
<1>8. ~lost' => Data'
  <2> SUFFICES ASSUME ~lost PROVE Data'
    BY <1>1
  <2>1. cache = wrote /\ (~raced => medium = wrote)
    BY <1>1 DEF DiskInv, Data
  <2>2. Agree(0)'
    <3>1. ASSUME NEW s \in Sector
          PROVE  (c.op = "CMD_WRITE" /\ s \in c.lba + 0 .. c.lba + c.sectors - 1)
                 \/ cache[s] = wrote'[s]
      BY <1>1, <1>3, <2>1 DEF CallType
    <3> QED BY <1>1, <3>1 DEF Agree
  <2> QED BY <1>1, <2>1, <2>2 DEF Data, Starting
<1> QED BY <1>3, <1>5, <1>6, <1>7, <1>8 DEF DiskInv

(* The command of a call is written. *)
LEMMA IssueInv == ASSUME DiskInv, issue PROVE DiskInv'
<1> USE DiskAssumption
<1>1. /\ pc = "bsy0" /\ pc' = "bsy1" /\ command(call.op)
      /\ UNCHANGED <<present, cache, medium, call, i, wrote, lost, raced>>
  BY DEF issue, history
<1>2. Parts
  BY DEF DiskInv, Parts
<1>3. /\ drive' \in DriveType /\ drive'.held = Blank /\ ~drive'.drq
      /\ ~present \/ drive'.err => ~drive'.bsy
      /\ drive'.bsy => drive'.cmd = call.op /\ drive'.next = call.lba
                       /\ drive'.left = call.sectors
  BY <1>1, <1>2, CommandStarts DEF Parts, Protocol, CallType
<1>4. TypeOK'
  BY <1>1, <1>2, <1>3 DEF Parts, TypeOK, DriveType
<1>5. CallType' /\ Intended'
  BY <1>1, <1>2 DEF CallType, Intended, Parts
<1>6. Protocol'
  BY <1>1, <1>2, <1>3 DEF Protocol, Parts, Calm, At, CallType, Starting
<1>7. ~lost' => Data'
  <2>1. Agree(0)' <=> Agree(0)
    BY <1>1 DEF Agree
  <2> QED BY <1>1, <1>2, <2>1 DEF DiskInv, Data, Parts, Protocol, Starting
<1> QED BY <1>4, <1>5, <1>6, <1>7 DEF DiskInv

(* A polling loop on BSY ends. *)
LEMMA WaitBsyInv == ASSUME DiskInv, wait_bsy PROVE DiskInv'
<1> USE DiskAssumption
<1>1. /\ ~drive.bsy
      /\ \/ pc = "bsy_id" /\ pc' = "identify"
         \/ pc = "bsy1" /\ pc' = "drq1"
         \/ pc = "bsy2" /\ pc' = "drq2"
         \/ pc = "bsy3" /\ pc' = "idle"
      /\ UNCHANGED <<present, drive, cache, medium, call, i, wrote, lost, raced>>
  BY DEF wait_bsy, history
<1>2. Parts
  BY DEF DiskInv, Parts
<1>4. TypeOK'
  BY <1>1, <1>2 DEF Parts, TypeOK
<1>5. CallType' /\ Intended'
  BY <1>1, <1>2 DEF CallType, Intended, Parts
<1>6. Protocol'
  BY <1>1, <1>2 DEF Protocol, Parts, Calm, At, Holding, CallType, Starting
<1>7. ~lost' => Data'
  <2>1. \A n : (Agree(n)' <=> Agree(n)) /\ (At(n)' <=> At(n))
    BY <1>1 DEF Agree, At
  <2>2. pc = "bsy3" => Calm /\ call.op = "CMD_WRITE"
    BY <1>1, <1>2 DEF Parts, Protocol, Calm, Holding
  <2> QED BY <1>1, <2>1, <2>2 DEF DiskInv, Data, Starting, Calm
<1> QED BY <1>4, <1>5, <1>6, <1>7 DEF DiskInv

(* The polling loop on DRQ ends. *)
LEMMA WaitDrqInv == ASSUME DiskInv, wait_drq PROVE DiskInv'
<1> USE DiskAssumption
<1>1. /\ pc = "drq1" /\ pc' = "bsy2" /\ drive.drq
      /\ UNCHANGED <<present, drive, cache, medium, call, i, wrote, lost, raced>>
  BY DEF wait_drq, history
<1>2. Parts
  BY DEF DiskInv, Parts
<1>4. TypeOK'
  BY <1>1, <1>2 DEF Parts, TypeOK
<1>5. CallType' /\ Intended'
  BY <1>1, <1>2 DEF CallType, Intended, Parts
<1>6. Protocol'
  BY <1>1, <1>2 DEF Protocol, Parts, Calm, At, CallType, Starting
<1>7. ~lost' => Data'
  <2>1. \A n : (Agree(n)' <=> Agree(n)) /\ (At(n)' <=> At(n))
    BY <1>1 DEF Agree, At
  <2>2. i = 0 /\ drive.held = Blank
    BY <1>1, <1>2 DEF Parts, Protocol, Calm, At
  <2> QED BY <1>1, <2>1, <2>2 DEF DiskInv, Data, Starting
<1> QED BY <1>4, <1>5, <1>6, <1>7 DEF DiskInv

(* One sector of a disk_read. *)
LEMMA TransferReadInv ==
  ASSUME DiskInv, transfer, call.op = "CMD_READ"
  PROVE  DiskInv'
<1> USE DiskAssumption
<1>1. /\ pc = "drq2" /\ drive.drq /\ i' = i + 1
      /\ call' = [call EXCEPT !.buffer[i] = cache[drive.next]]
      /\ drive' = [drive EXCEPT !.bsy = drive.left > 1, !.drq = FALSE,
                                !.next = @ + 1, !.left = @ - 1]
      /\ pc' = IF i + 1 < call.sectors THEN "bsy2" ELSE "idle"
      /\ UNCHANGED <<present, cache, medium, wrote, lost, raced>>
  BY DEF transfer, word, more, history
<1>2. Parts
  BY DEF DiskInv, Parts
<1>3. At(i) /\ i < call.sectors /\ i \in Nat /\ present /\ ~drive.err
  BY <1>1, <1>2 DEF Parts, Protocol, Calm, Holding, TypeOK, CallType
<1>4. /\ drive.next = call.lba + i /\ drive.next \in Sector /\ drive.held = Blank
      /\ drive.left = call.sectors - i /\ drive.cmd = "CMD_READ"
      /\ cache[drive.next] \in Content
  BY <1>2, <1>3 DEF Parts, At, CallType, TypeOK, Sector, Content
<1>5. /\ ~drive'.drq /\ drive'.held = Blank /\ drive'.cmd = "CMD_READ" /\ ~drive'.err
      /\ drive'.bsy <=> i + 1 < call.sectors
      /\ drive'.next = call.lba + (i + 1) /\ drive'.left = call.sectors - (i + 1)
  <2>1. /\ ~drive'.drq /\ drive'.held = drive.held /\ drive'.cmd = drive.cmd
        /\ drive'.err = drive.err /\ (drive'.bsy <=> drive.left > 1)
        /\ drive'.next = drive.next + 1 /\ drive'.left = drive.left - 1
    BY <1>1, <1>2 DEF Parts, TypeOK
  <2> QED BY <1>2, <1>3, <1>4, <2>1 DEF Parts, CallType
<1>6. drive' \in DriveType
  <2>1. /\ drive.next + 1 \in 0 .. LAST + 1 /\ drive.left - 1 \in 0 .. MAX_COUNT
        /\ (drive.left > 1) \in BOOLEAN
    BY <1>2, <1>3, <1>4 DEF Parts, CallType, Sector
  <2>2. drive \in DriveType
    BY <1>2 DEF Parts, TypeOK, DriveType
  <2> QED BY <1>1, <2>1, <2>2, Zenon DEF DriveType
<1>7. /\ call'.op = call.op /\ call'.lba = call.lba /\ call'.sectors = call.sectors
      /\ call'.buffer = [call.buffer EXCEPT ![i] = cache[drive.next]]
      /\ call' = [op |-> call'.op, lba |-> call'.lba, sectors |-> call'.sectors,
                  buffer |-> call'.buffer]
  BY <1>1, <1>2 DEF Parts, CallType
<1>8. CallType'
  <2>1. call'.buffer \in [0 .. call.sectors - 1 -> Content]
    BY <1>2, <1>4, <1>7 DEF Parts, CallType
  <2> QED BY <1>2, <1>7, <2>1 DEF Parts, CallType
<1>9. TypeOK'
  <2>1. i' \in 0 .. call'.sectors
    BY <1>1, <1>2, <1>3, <1>7 DEF Parts, CallType
  <2> QED BY <1>1, <1>2, <1>6, <2>1 DEF Parts, TypeOK, DriveType
<1>10. Intended'
  BY <1>7 DEF Intended
<1>11. Protocol'
  BY <1>1, <1>2, <1>3, <1>5, <1>7 DEF Protocol, Parts, Calm, At, CallType, Starting
<1>12. ~lost' => Data'
  <2> SUFFICES ASSUME ~lost PROVE Data'
    BY <1>1
  <2>1. /\ cache = wrote /\ (~raced => medium = wrote)
        /\ \A k \in 0 .. i - 1 : call.buffer[k] = wrote[call.lba + k]
    <3>1. Agree(i) /\ (~raced => medium = wrote)
          /\ \A k \in 0 .. i - 1 : call.buffer[k] = wrote[call.lba + k]
      BY <1>1, <1>3 DEF DiskInv, Data
    <3>2. cache = wrote
      BY <1>2, <3>1 DEF Agree, Parts, TypeOK
    <3> QED BY <3>1, <3>2
  <2>2. \A k \in 0 .. i' - 1 : call'.buffer[k] = wrote'[call'.lba + k]
    <3> SUFFICES ASSUME NEW k \in 0 .. i' - 1
                 PROVE  call'.buffer[k] = wrote[call.lba + k]
      BY <1>1, <1>7
    <3>1. k \in 0 .. i - 1 \/ k = i
      BY <1>1, <1>3
    <3>2. k \in 0 .. call.sectors - 1
      BY <1>1, <1>2, <1>3 DEF Parts, CallType
    <3> QED BY <1>2, <1>4, <1>7, <2>1, <3>1, <3>2 DEF Parts, CallType
  <2>3. pc' = "idle" => i' = call'.sectors
    BY <1>1, <1>2, <1>3, <1>7 DEF Parts, CallType
  <2>4. \A n : Agree(n)'
    BY <1>1, <2>1 DEF Agree
  <2> QED BY <1>1, <1>5, <1>7, <2>1, <2>2, <2>3, <2>4 DEF Data, Starting
<1> QED BY <1>8, <1>9, <1>10, <1>11, <1>12 DEF DiskInv

(* One sector of a disk_write. *)
LEMMA TransferWriteInv ==
  ASSUME DiskInv, transfer, call.op = "CMD_WRITE"
  PROVE  DiskInv'
<1> USE DiskAssumption
<1>1. /\ pc = "drq2" /\ drive.drq /\ i' = i + 1
      /\ drive' = [drive EXCEPT !.bsy = TRUE, !.drq = FALSE, !.left = @ - 1,
                                !.held = call.buffer[i]]
      /\ pc' = IF i + 1 < call.sectors THEN "bsy2" ELSE "flush"
      /\ UNCHANGED <<present, cache, medium, call, wrote, lost, raced>>
  BY DEF transfer, word, more, history
<1>2. Parts
  BY DEF DiskInv, Parts
<1>3. At(i) /\ i < call.sectors /\ i \in Nat /\ present /\ ~drive.err
  BY <1>1, <1>2 DEF Parts, Protocol, Calm, Holding, TypeOK, CallType
<1>4. /\ drive.next = call.lba + i /\ drive.left = call.sectors - i /\ drive.cmd = "CMD_WRITE"
      /\ call.buffer[i] \in Value
  <2>1. i \in 0 .. call.sectors - 1
    BY <1>2, <1>3 DEF Parts, CallType
  <2> QED BY <1>2, <1>3, <2>1 DEF Parts, At, Intended
<1>5. /\ drive'.bsy /\ ~drive'.drq /\ drive'.held = call.buffer[i] /\ drive'.cmd = "CMD_WRITE"
      /\ ~drive'.err
      /\ drive'.next = call.lba + i /\ drive'.left = call.sectors - i - 1
  BY <1>1, <1>2, <1>3, <1>4 DEF Parts, TypeOK
<1>6. drive' \in DriveType
  <2>1. drive.left - 1 \in 0 .. MAX_COUNT /\ call.buffer[i] \in Value \cup {Blank}
    BY <1>2, <1>3, <1>4 DEF Parts, CallType
  <2>2. drive \in DriveType
    BY <1>2 DEF Parts, TypeOK, DriveType
  <2> QED BY <1>1, <2>1, <2>2, Zenon DEF DriveType
<1>7. CallType' /\ Intended'
  BY <1>1, <1>2 DEF CallType, Intended, Parts
<1>8. TypeOK'
  <2>1. i' \in 0 .. call.sectors
    BY <1>1, <1>2, <1>3 DEF Parts, CallType
  <2> QED BY <1>1, <1>2, <1>6, <2>1 DEF Parts, TypeOK, DriveType
<1>9. Protocol'
  <2>1. Holding(i - 1)' /\ i' > 0 /\ i' - 1 = i
    BY <1>1, <1>3, <1>5 DEF Holding
  <2> QED BY <1>1, <1>2, <1>3, <1>5, <2>1 DEF Protocol, Parts, CallType, Starting
<1>10. ~lost' => Data'
  <2> SUFFICES ASSUME ~lost PROVE Data'
    BY <1>1
  <2>1. Agree(i)
    BY <1>1, <1>3 DEF DiskInv, Data
  <2>2. Agree(i - 1)' /\ drive'.held # Blank
    <3>1. i' - 1 = i
      BY <1>1, <1>3
    <3> QED BY <1>1, <1>4, <1>5, <2>1, <3>1 DEF Agree
  <2>3. ~At(i)'
    BY <1>5, <2>2 DEF At
  <2> QED BY <1>1, <1>5, <2>2, <2>3 DEF Data, Starting
<1> QED BY <1>7, <1>8, <1>9, <1>10 DEF DiskInv

(* The flush at the end of disk_write. *)
LEMMA FlushInv == ASSUME DiskInv, flush PROVE DiskInv'
<1> USE DiskAssumption
<1>1. /\ pc = "flush" /\ pc' = "bsy3" /\ command("CMD_CACHE_FLUSH")
      /\ raced' = drive.bsy
      /\ UNCHANGED <<present, cache, medium, call, i, wrote, lost>>
  BY DEF flush
<1>2. Parts
  BY DEF DiskInv, Parts
<1>3. CallType' /\ Intended'
  BY <1>1, <1>2 DEF CallType, Intended, Parts
<1>4. CASE drive.bsy
  <2>1. drive' = drive /\ raced' /\ Holding(i - 1)
    BY <1>1, <1>2, <1>4 DEF command, Parts, Protocol, Calm
  <2>2. TypeOK'
    BY <1>1, <1>2, <2>1 DEF Parts, TypeOK
  <2>3. Protocol'
    BY <1>1, <1>2, <2>1 DEF Parts, Protocol, Calm, Holding, Starting
  <2>4. ~lost' => Data'
    <3>1. \A n : Agree(n)' <=> Agree(n)
      BY <1>1 DEF Agree
    <3> QED BY <1>1, <1>2, <2>1, <3>1 DEF DiskInv, Data, Parts, Protocol, Starting
  <2> QED BY <1>3, <2>2, <2>3, <2>4 DEF DiskInv
<1>5. CASE ~drive.bsy
  <2>1. Calm /\ ~raced' /\ present
    BY <1>1, <1>2, <1>5 DEF Parts, Protocol, Holding
  <2>2. drive' = [Resting EXCEPT !.bsy = TRUE, !.cmd = "CMD_CACHE_FLUSH",
                                 !.next = call.lba, !.left = call.sectors]
    BY <1>1, <1>5, <2>1 DEF command, Calm
  <2>3. /\ drive' \in DriveType /\ drive'.bsy /\ ~drive'.drq /\ ~drive'.err
        /\ drive'.held = Blank /\ drive'.cmd = "CMD_CACHE_FLUSH"
    BY <1>1, <1>2, <2>1, <2>2, CommandStarts DEF Resting
  <2>4. TypeOK'
    BY <1>1, <1>2, <2>3 DEF Parts, TypeOK, DriveType
  <2>5. Protocol'
    BY <1>1, <1>2, <2>1, <2>3 DEF Parts, Protocol, Starting
  <2>6. ~lost' => Data'
    BY <1>1, <1>2, <2>1, <2>3 DEF DiskInv, Data, Parts, Protocol, Starting, Calm
  <2> QED BY <1>3, <2>4, <2>5, <2>6 DEF DiskInv
<1> QED BY <1>4, <1>5

-----------------------------------------------------------------------------
(* Every step of the driver, of the drive and of the callers keeps the invariant. *)
LEMMA DiskNextInv == DiskInv /\ [Next]_vars => DiskInv'
<1> SUFFICES ASSUME DiskInv, [Next]_vars PROVE DiskInv'
  OBVIOUS
<1>1. CASE Drive
  BY <1>1, ReadyInv, StoreInv, FlushedInv, ErrorInv DEF Drive
<1>2. CASE transfer
  BY <1>2, TransferReadInv, TransferWriteInv DEF transfer
<1>3. CASE Driver
  BY <1>2, <1>3, InitDiskInv, IdentifyInv, IssueInv, WaitBsyInv, WaitDrqInv, FlushInv DEF Driver
<1>4. CASE \E c \in Call : disk_call(c)
  BY <1>4, CallInv
<1>5. CASE UNCHANGED vars
  BY <1>5 DEF vars, DiskInv, TypeOK, CallType, Protocol, Intended, Data, Calm, At, Holding, Agree
<1> QED BY <1>1, <1>3, <1>4, <1>5 DEF Next

(* The inductive invariant holds in every reachable state. *)
LEMMA DiskInvAlways == Spec => []DiskInv
  BY DiskInitInv, DiskNextInv, PTL DEF Spec

(* The driver and the drive keep their types: the driver never asks for a sector *)
(* beyond the end of the drive, and never counts past its call (disk.c:45-116). *)
THEOREM DiskTypes == Spec => []TypeOK
<1>1. DiskInv => TypeOK
  BY DEF DiskInv
<1> QED BY <1>1, DiskInvAlways, PTL

(* A disk_read that returns has what was written in its buffer, for calls of any *)
(* number of sectors and errors at any time (disk.c:60-80), unless an earlier    *)
(* disk_write lost data without noticing (disk.c:113-116). *)
THEOREM ReadsRight == Spec => []ReadsWhatWasWritten
<1>1. DiskInv => ReadsWhatWasWritten
  <2> SUFFICES ASSUME DiskInv, pc = "idle", call.op = "CMD_READ", ~lost,
                      NEW k \in 0 .. call.sectors - 1
               PROVE  call.buffer[k] = wrote[call.lba + k]
    BY DEF ReadsWhatWasWritten
  <2> QED BY DEF DiskInv, Data
<1> QED BY <1>1, DiskInvAlways, PTL

(* What disk_write wrote survives the loss of power once it returned, unless its *)
(* flush met a busy drive or an error was not looked at (disk.c:105-116). *)
THEOREM WritesDurable == Spec => []DurableUnlessRaced
<1>1. DiskInv => DurableUnlessRaced
  BY DEF DiskInv, Data, DurableUnlessRaced
<1> QED BY <1>1, DiskInvAlways, PTL
=============================================================================
