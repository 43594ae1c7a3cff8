------------------------------- MODULE Floppy -------------------------------
(***************************************************************************)
(* The Beta Disk: a WD1793 in the fabric whose sectors the ARM moves       *)
(* between the controller's one-block buffer and image files on the SD     *)
(* card.  Three parties interleave: the machine, which gives commands and  *)
(* may break them off at any byte (Force Interrupt); the controller, which *)
(* raises a request and waits for the ARM's window; and disk_service, one  *)
(* turn of which takes milliseconds between looking at a request and       *)
(* answering it.                                                           *)
(*                                                                         *)
(* A block is two sectors of Bytes bytes (256 in the code).  What a byte   *)
(* holds is a number: the one image i has in sector s to begin with, 0 for *)
(* zeros, and a negative number of its own for every byte the machine      *)
(* writes.  The user puts images in and takes them out at any moment.      *)
(***************************************************************************)
EXTENDS Integers, Sequences, FiniteSets

CONSTANTS Drive,          \* the drives A..D
          Image,          \* image files on the card: numbers from 1
          Sectors,        \* sectors of a track the machine may name
          Bytes,          \* bytes of a sector
          Size,           \* sectors in an image
          Scl,            \* the packed (SCL) images: catalogue rebuilt at mount
          ReadOnly,       \* images whose file opens for reading only
          SclFiles,       \* of each SCL image: the lengths of its files, in sectors
          Mounts,         \* bound: <<drive, image>> pairs the user puts together
          MaxWrites       \* bound: bytes the machine writes

ASSUME FloppyAssumption ==
    /\ Drive \subseteq Nat /\ 0 \in Drive
    /\ Image \subseteq Nat \ {0}
    /\ Sectors \in Nat \ {0} /\ Sectors < 10
    /\ Bytes \in Nat \ {0}
    /\ Size \in [Image -> Nat]
    /\ Scl \subseteq Image /\ ReadOnly \subseteq Image
    /\ \A i \in Scl : SclFiles[i] \in Seq(Nat)
    /\ Mounts \subseteq Drive \X Image
    /\ MaxWrites \in Nat

NoImage == 0
NoDrive == -1
Sector  == 0 .. Sectors - 1
Byte    == 0 .. Bytes - 1
Half    == 0 .. 1
Place   == Half \X Byte     \* a byte of the block
Block   == 0 .. (Sectors - 1) \div 2
Orig(i, s) == 10 * i + s
Val == {0} \cup {Orig(i, s) : i \in Image, s \in Sector} \cup (-MaxWrites .. -1)

VARIABLES
    fdc,    \* the controller: state, command, its sector and byte, its requests
    sel,    \* the drive port FF selects
    ack,    \* sd_ack: the ARM's window is open
    buf,    \* its buffer of one block
    range,  \* places of it the machine wrote; the ARM sees the first and the last
    level,  \* FDC_CTL: ready and write protection shown to the controller
    live,   \* g_drv_live: the drive those levels belong to
    last,   \* g_drv_last
    drive,  \* image open in each drive (g_dopen)
    opt,    \* opt_diskwr
    file,   \* contents of the image files
    unsynced, \* drives whose file was written since its last f_sync
    due,    \* g_dsync_due
    arm,    \* where disk_service is, and its locals
    nw,     \* bytes written so far
    meant,  \* ghost: <<image, sector, byte, value>> the machine wrote there
    doubt,  \* ghost: <<image, sector, byte>> a disturbed command had in its range
    calm    \* ghost: nothing has disturbed the command in progress

levels == <<level, live>>
ghosts == <<nw, meant, doubt>>
disk   == <<drive, opt, file, unsynced, due, last>>
vars == <<fdc, sel, ack, buf, range, level, live, last, drive, opt, file, unsynced, due,
          arm, nw, meant, doubt, calm>>

Zeros   == [k \in Byte |-> 0]
Original(i, s) == [k \in Byte |-> IF s < Size[i] THEN Orig(i, s) ELSE 0]
Empty   == [ready |-> FALSE, wp |-> TRUE]
IdleFdc == [st |-> "idle", op |-> "read", sec |-> 0, at |-> 0, multi |-> FALSE,
            rd |-> FALSE, wr |-> FALSE, wait |-> FALSE]
AtTop   == [pc |-> "top", d |-> 0, b |-> 0, allow |-> FALSE, ok |-> FALSE,
            blk |-> [h \in Half |-> Zeros], rg |-> {}]

Init ==
    /\ fdc = IdleFdc /\ sel = 0 /\ ack = FALSE
    /\ buf = [h \in Half |-> Zeros] /\ range = {}
    /\ level = Empty /\ live = NoDrive /\ last = 0
    /\ drive = [d \in Drive |-> NoImage] /\ opt = FALSE
    /\ file = [i \in Image |-> [s \in Sector |-> Original(i, s)]]
    /\ unsynced = {} /\ due = FALSE /\ arm = AtTop
    /\ nw = 0 /\ meant = {} /\ doubt = {} /\ calm = TRUE

(***************************************************************************)
(* Images.  disk_lba_in: a block belongs to an image only when all of it   *)
(* does.  disk_read_lba: a TRD shows zeros outside, an SCL whatever its    *)
(* file still holds.  drv_levels: what the controller is told of a drive.  *)
(***************************************************************************)
BlockOfUnshifted(s) == s
BlockOfFromOne(s) == (s + 1) \div 2
BlockOf(s) == s \div 2
Whole(i, b) == 2 * b + 2 <= Size[i]
Shown(i, b) == [h \in Half |-> LET s == 2 * b + h IN
                 IF s \in Sector /\ s < Size[i] /\ (i \in Scl \/ Whole(i, b))
                 THEN file[i][s] ELSE Zeros]
Writable(i, rw) == i # NoImage /\ i \notin Scl \cup ReadOnly /\ rw
Levels(dr, d, rw) == IF dr[d] = NoImage THEN Empty
                     ELSE [ready |-> TRUE, wp |-> ~Writable(dr[d], rw)]
Open == {d \in Drive : drive[d] # NoImage}
Busy == fdc.st # "idle"
Idle == ~Busy /\ ~fdc.rd /\ ~fdc.wr

(***************************************************************************)
(* scl_build: the catalogue of a packed image.  Its files follow each      *)
(* other from track 1 sector 0; the entries hold 8-bit numbers.  SclPlace  *)
(* is where entry k + 1 starts, that is also the first free sector after   *)
(* the last.  SclFetch: which sector of the packed data disk_read_lba      *)
(* takes for a place.                                                      *)
(***************************************************************************)
PerTrack == 16
SumSeq(lens) ==
    LET sum[k \in 0 .. Len(lens)] == IF k = 0 THEN 0 ELSE sum[k - 1] + lens[k]
    IN sum[Len(lens)]
FreeSectors == 2544
SclAccepted(lens) == Len(lens) \in 1 .. 128 /\ SumSeq(lens) <= FreeSectors

SclNextNoCarry(p, len) ==
    [sec |-> (p.sec + len) % PerTrack,
     trk |-> p.trk + ((p.sec + len) % PerTrack) \div PerTrack]
SclNext(p, len) ==
    [sec |-> (p.sec + len) % PerTrack, trk |-> p.trk + (p.sec + len) \div PerTrack]
SclPlaces(lens) ==
    LET place[k \in 0 .. Len(lens)] ==
          IF k = 0 THEN [sec |-> 0, trk |-> 1] ELSE SclNext(place[k - 1], lens[k])
    IN [k \in 0 .. Len(lens) |-> [sec |-> place[k].sec, trk |-> place[k].trk % 256]]
SclFetch(p) == LET s == PerTrack * p.trk + p.sec IN 2 * (s \div 2 - 8) + (s % 2)

(***************************************************************************)
(* The machine and its controller.  The selected drive changes only        *)
(* between commands, as TR-DOS does it.                                    *)
(***************************************************************************)
SelectDrive(d) ==
    /\ ~Busy /\ d # sel
    /\ sel' = d
    /\ UNCHANGED <<fdc, ack, buf, range, levels, disk, arm, ghosts, calm>>

\* A block is asked for before any command may touch it; the rising request
\* and a new command both forget what the machine wrote.
Fetching(op, s, multi) ==
    [st |-> "fetch", op |-> op, sec |-> s, at |-> 0, multi |-> multi,
     rd |-> TRUE, wr |-> FALSE, wait |-> TRUE]

Command(op, s, multi) ==
    /\ ~Busy /\ s \in Sector
    /\ level.ready /\ (op = "write" => ~level.wp)   \* otherwise it ends at once
    /\ fdc' = Fetching(op, s, multi) /\ range' = {}
    /\ calm' = (live = sel /\ arm.pc \in {"top", "merge"})
    /\ UNCHANGED <<sel, ack, buf, levels, disk, arm, ghosts>>

\* ENDCOMMAND drops the requests and the wait; the ARM is not told.
Ended == fdc' = IdleFdc /\ calm' = TRUE

\* The sector is done: the next one of the track, or the end of the command.
NextSector ==
    IF fdc.multi /\ fdc.sec + 1 \in Sector /\ level.ready
    THEN /\ fdc' = Fetching(fdc.op, fdc.sec + 1, TRUE)
         /\ range' = IF fdc.rd THEN range ELSE {}
         /\ UNCHANGED calm
    ELSE Ended /\ UNCHANGED range

Fetched ==
    /\ fdc.st = "fetch" /\ ~fdc.wait
    /\ fdc' = [fdc EXCEPT !.st = fdc.op]
    /\ UNCHANGED <<sel, ack, buf, range, levels, disk, arm, ghosts, calm>>

ReadSector ==
    /\ fdc.st = "read" /\ NextSector
    /\ UNCHANGED <<sel, ack, buf, levels, disk, arm, ghosts>>

\* The watchdog gives the machine 8 ms for each byte: one that comes too late
\* is passed over, and what the buffer held at its place stays.  After the last
\* byte the block goes out, unless the drive has meanwhile stopped being ready.
WriteByte(inTime) ==
    LET h == fdc.sec % 2  k == fdc.at IN
    /\ fdc.st = "write"
    /\ IF inTime
       THEN /\ nw < MaxWrites
            /\ nw' = nw + 1
            /\ buf' = [buf EXCEPT ![h][k] = -(nw + 1)]
            /\ range' = range \cup {<<h, k>>}
            /\ meant' = meant \cup {<<drive[sel], fdc.sec, k, -(nw + 1)>>}
       ELSE UNCHANGED <<nw, meant, buf, range>>
    /\ IF k + 1 \in Byte
       THEN fdc' = [fdc EXCEPT !.at = k + 1] /\ UNCHANGED calm
       ELSE IF level.ready
       THEN fdc' = [fdc EXCEPT !.st = "flush", !.wr = TRUE, !.wait = TRUE] /\ UNCHANGED calm
       ELSE Ended
    /\ UNCHANGED <<sel, ack, levels, disk, arm, doubt>>

Flushed ==
    /\ fdc.st = "flush" /\ ~fdc.wait /\ NextSector
    /\ UNCHANGED <<sel, ack, buf, levels, disk, arm, ghosts>>

\* Force Interrupt, a command like any other to the range.
Abort ==
    /\ Busy /\ Ended /\ range' = {}
    /\ UNCHANGED <<sel, ack, buf, levels, disk, arm, ghosts>>

Machine ==
    \/ \E d \in Drive : SelectDrive(d)
    \/ \E op \in {"read", "write"}, s \in Sector, multi \in BOOLEAN : Command(op, s, multi)
    \/ Fetched \/ ReadSector \/ Flushed \/ Abort
    \/ \E inTime \in BOOLEAN : WriteByte(inTime)

(***************************************************************************)
(* disk_service.  One look at the status word decides the drive, the block *)
(* and what to do; a drive change puts its levels out first; when both     *)
(* requests are up the read is served.                                     *)
(***************************************************************************)
\* What of the block goes to the file: everything from the first byte the
\* machine wrote to the last, bytes that came too late included.
NotAfter(p, q) == p[1] < q[1] \/ (p[1] = q[1] /\ p[2] <= q[2])
Between(rg) == {p \in Place : \E q, r \in rg : NotAfter(q, p) /\ NotAfter(p, r)}
LaidWhole == IF range = {} THEN {} ELSE Place
Laid == Between(range)

Serve ==
    LET d == sel  b == BlockOf(fdc.sec)
        allow == Writable(drive[d], opt) /\ Whole(drive[d], b) IN
    /\ arm.pc = "top" /\ Open # {}
    /\ live # d \/ fdc.rd \/ fdc.wr
    /\ live' = d /\ level' = IF live = d THEN level ELSE Levels(drive, d, opt)
    /\ arm' = IF fdc.rd THEN [AtTop EXCEPT !.pc = "read", !.d = d, !.b = b]
              ELSE IF fdc.wr
              THEN [AtTop EXCEPT !.pc = "take", !.d = d, !.b = b, !.allow = allow]
              ELSE arm
    /\ doubt' = IF ~fdc.rd /\ fdc.wr /\ allow /\ ~calm
                THEN doubt \cup {<<drive[d], fdc.sec, p[2]>> : p \in Between(range)}
                ELSE doubt
    /\ UNCHANGED <<fdc, sel, ack, buf, range, disk, nw, meant, calm>>

\* The rising edge of the window drops both requests, whichever is up by now.
OpenWindow(from, to) ==
    /\ arm.pc = from /\ ack' = TRUE
    /\ fdc' = [fdc EXCEPT !.rd = FALSE, !.wr = FALSE]
    /\ arm' = [arm EXCEPT !.pc = to]
    /\ UNCHANGED <<sel, buf, range, levels, disk, ghosts, calm>>

\* Its falling edge ends the controller's wait.
WindowClosedTooShort == ack' = FALSE /\ UNCHANGED fdc
WindowClosed == ack' = FALSE /\ fdc' = [fdc EXCEPT !.wait = FALSE]

NonemptyNotOne(rg) == Cardinality(rg) > 1
Nonempty(rg) == rg # {}

TakeBlock ==
    /\ arm.pc = "copy"
    /\ arm' = [arm EXCEPT !.pc = "close", !.blk = buf, !.rg = Laid]
    /\ UNCHANGED <<fdc, sel, ack, buf, range, levels, disk, ghosts, calm>>

CloseTaken ==
    /\ arm.pc = "close" /\ WindowClosed
    /\ arm' = IF arm.allow /\ Nonempty(arm.rg) THEN [arm EXCEPT !.pc = "merge"] ELSE AtTop
    /\ UNCHANGED <<sel, buf, range, levels, disk, ghosts, calm>>

\* Only after the window has closed: read the block afresh, lay the range over
\* it, write it.  A failed read writes nothing.
Overlaid(i, s) == [k \in Byte |-> IF s \div 2 = arm.b /\ <<s % 2, k>> \in arm.rg
                                  THEN arm.blk[s % 2][k] ELSE file[i][s][k]]
Merge(readOk, writeOk) ==
    LET i == drive[arm.d] IN
    /\ arm.pc = "merge"
    /\ IF readOk /\ writeOk
       THEN /\ file' = [file EXCEPT ![i] = [s \in Sector |-> Overlaid(i, s)]]
            /\ unsynced' = unsynced \cup {arm.d} /\ due' = TRUE
            /\ UNCHANGED calm
       ELSE UNCHANGED <<file, unsynced, due>> /\ calm' = ~Busy
    /\ last' = arm.d /\ arm' = AtTop
    /\ UNCHANGED <<fdc, sel, ack, buf, range, levels, drive, opt, ghosts>>

ReadBlock(readOk) ==
    LET i == drive[arm.d]  ok == readOk /\ i # NoImage IN
    /\ arm.pc = "read"
    /\ last' = IF i = NoImage THEN last ELSE arm.d
    /\ arm' = [arm EXCEPT !.pc = "answer", !.ok = ok,
                  !.blk = IF ok THEN Shown(i, arm.b) ELSE @]
    /\ calm' = (calm /\ (ok \/ ~Busy))
    /\ UNCHANGED <<fdc, sel, ack, buf, range, levels, drive, opt, file, unsynced, due, ghosts>>

\* The block goes into the buffer; after a failed read the window is empty.
GiveBlock ==
    /\ arm.pc = "give" /\ WindowClosed
    /\ buf' = IF arm.ok THEN arm.blk ELSE buf
    /\ arm' = AtTop
    /\ UNCHANGED <<sel, range, levels, disk, ghosts, calm>>

(***************************************************************************)
(* The main loop's other doings, never inside disk_service: the deferred   *)
(* f_sync, the write option, taking an image out and putting one in.       *)
(***************************************************************************)
SyncIdle ==
    /\ arm.pc = "top" /\ due /\ Idle
    /\ unsynced' = IF drive[last] # NoImage THEN unsynced \ {last} ELSE unsynced
    /\ due' = FALSE
    /\ UNCHANGED <<fdc, sel, ack, buf, range, levels, drive, opt, file, last, arm, ghosts, calm>>

\* disk_wp_refresh, called by the option itself.
ToggleWrites ==
    /\ arm.pc = "top" /\ opt' = ~opt
    /\ level' = IF live # NoDrive /\ drive[live] # NoImage
                THEN Levels(drive, live, ~opt) ELSE level
    /\ calm' = (calm /\ ~Busy)
    /\ UNCHANGED <<fdc, sel, ack, buf, range, live, drive, file, unsynced, due, last, arm, ghosts>>

\* disk_eject: the file is synced and closed whatever was pending.
Ejected(d) == unsynced' = unsynced \ {d}

\* disk_eject_safe gives up, and changes nothing, while the controller is busy.
EjectCheck(d) ==
    /\ arm.pc = "top" /\ drive[d] # NoImage /\ Idle
    /\ arm' = [AtTop EXCEPT !.pc = "eject", !.d = d]
    /\ UNCHANGED <<fdc, sel, ack, buf, range, levels, disk, ghosts, calm>>

EjectClose ==
    LET d == arm.d IN
    /\ arm.pc = "eject" /\ Ejected(d)
    /\ drive' = [drive EXCEPT ![d] = NoImage]
    /\ level' = IF live = d THEN Empty ELSE level
    /\ arm' = AtTop /\ calm' = (calm /\ ~Busy)
    /\ UNCHANGED <<fdc, sel, ack, buf, range, live, opt, file, due, last, ghosts>>

\* disk_mount_drv ejects first, whatever the controller is doing; an image that
\* is not accepted leaves the drive empty.
Mount(d, i, accepted) ==
    /\ arm.pc = "top" /\ Ejected(d)
    /\ accepted => (i \in Scl => SclAccepted(SclFiles[i]))
    /\ drive' = [drive EXCEPT ![d] = IF accepted THEN i ELSE NoImage]
    /\ IF accepted
       THEN last' = d /\ live' = d /\ level' = Levels(drive', d, opt)
       ELSE /\ level' = IF live = d THEN Empty ELSE level
            /\ UNCHANGED <<last, live>>
    /\ calm' = (calm /\ ~Busy)
    /\ UNCHANGED <<fdc, sel, ack, buf, range, opt, file, due, arm, ghosts>>

Service ==
    \/ Serve
    \/ OpenWindow("take", "copy") \/ TakeBlock \/ CloseTaken
    \/ \E readOk, writeOk \in BOOLEAN : Merge(readOk, writeOk)
    \/ \E readOk \in BOOLEAN : ReadBlock(readOk)
    \/ OpenWindow("answer", "give") \/ GiveBlock
    \/ EjectClose
User ==
    \/ ToggleWrites
    \/ \E d \in Drive : EjectCheck(d)
    \/ \E m \in Mounts, accepted \in BOOLEAN : Mount(m[1], m[2], accepted)

Next == Machine \/ Service \/ SyncIdle \/ User
Spec == Init /\ [][Next]_vars

-----------------------------------------------------------------------------
TypeOK ==
    /\ fdc \in [st : {"idle", "fetch", "read", "write", "flush"}, op : {"read", "write"},
                sec : Sector, at : Byte, multi : BOOLEAN, rd : BOOLEAN, wr : BOOLEAN, wait : BOOLEAN]
    /\ sel \in Drive /\ ack \in BOOLEAN
    /\ buf \in [Half -> [Byte -> Val]] /\ range \subseteq Place
    /\ level \in [ready : BOOLEAN, wp : BOOLEAN] /\ live \in Drive \cup {NoDrive}
    /\ last \in Drive /\ drive \in [Drive -> Image \cup {NoImage}] /\ opt \in BOOLEAN
    /\ file \in [Image -> [Sector -> [Byte -> Val]]]
    /\ unsynced \subseteq Drive /\ due \in BOOLEAN
    /\ arm \in [pc : {"top", "take", "copy", "close", "merge", "read", "answer", "give", "eject"},
                d : Drive, b : Block, allow : BOOLEAN, ok : BOOLEAN,
                blk : [Half -> [Byte -> Val]], rg : SUBSET Place]
    /\ nw \in 0 .. MaxWrites /\ calm \in BOOLEAN
    /\ meant \subseteq (Image \cup {NoImage}) \X Sector \X Byte \X Val
    /\ doubt \subseteq (Image \cup {NoImage}) \X Sector \X Byte

\* A byte of an image file holds what it always held, or what the machine wrote
\* to that byte of that image, or lies between the first and the last byte of a
\* sector written by a command that was disturbed.  So no half of another sector
\* and no write broken off and repeated elsewhere ever reaches a file, and an
\* undisturbed command spoils nothing even where the machine was too late (the
\* range merge of 3962-3999, the refusals of 3936 and 3976).  Disturbed: given
\* inside an exchange broken off, its block not read, or its drive's image or
\* write option changed under it.
ImageHonest ==
    \A i \in Image, s \in Sector, k \in Byte :
        \/ file[i][s][k] = Original(i, s)[k]
        \/ <<i, s, k, file[i][s][k]>> \in meant
        \/ <<i, s, k>> \in doubt


\* What the machine wrote to one image reaches no other: taking an image out
\* first waits until the controller is idle, so that no sector the machine
\* takes for written is lost (loader_main.c 3769-3773).
OwnImage ==
    \A i \in Image, s \in Sector, k \in Byte :
        file[i][s][k] < 0 =>
            \E r \in Sector, m \in Byte : <<i, r, m, file[i][s][k]>> \in meant

\* Nothing written stays unsynced once the firmware has found an idle moment:
\* a written sector is "flushed to the card when idle" (loader_main.c 3988,
\* 15144), and then forgotten.
SyncedWhenIdle == arm.pc = "top" /\ ~due => unsynced = {}

\* The acknowledgement of a write never takes a fresh request to read with it:
\* "serving the write we would kill a fresh read" (loader_main.c 3926-3928).
NoReadKilled ==
    [][OpenWindow("take", "copy") => ~fdc.rd]_vars

\* While a command to read or to write is at its sector, the buffer holds that
\* sector of the image in the drive as its file has it now, a write still being
\* merged when the command was given included: all of it for a read, and for a
\* write every byte the machine has not written itself.  The command must have
\* been given outside any exchange broken off, and since then no read of the
\* image failed and its drive's image and write option stayed.
ReadRight ==
    (fdc.st \in {"read", "write"} /\ calm /\ drive[sel] # NoImage) =>
        \A k \in Byte : <<fdc.sec % 2, k>> \in range \/
            buf[fdc.sec % 2][k] = Shown(drive[sel], fdc.sec \div 2)[fdc.sec % 2][k]

\* When the controller tells the machine its sector is written, the image file
\* has the sector as the buffer has it, or will have it after the merge the ARM
\* has in hand, unless that merge fails.  For commands as in ReadRight.
WriteKept ==
    LET s == fdc.sec  i == drive[sel] IN
    (fdc.st = "flush" /\ ~fdc.wait /\ calm /\ i # NoImage /\ Whole(i, s \div 2)) =>
        \/ file[i][s] = buf[s % 2]
        \/ arm.pc = "merge" /\ arm.d = sel /\ Overlaid(i, s) = buf[s % 2]

\* No request to store a block outlives its command, so none is served at
\* another command's address (STATE_ENDCOMMAND, wd1793.sv 855-858).
NoPhantomWrite == fdc.wr => fdc.st = "flush"

\* A controller that waits has a request up that the ARM will see, or the ARM
\* has its window open and will close it: a request cannot vanish unanswered.
NeverStuck == fdc.wait => fdc.rd \/ fdc.wr \/ arm.pc \in {"copy", "close", "give"}

\* Following an entry of the rebuilt catalogue leads to that file's data in the
\* packed image, and the first free sector lies right behind the last file.
SclDirectoryTrue ==
    \A d \in Drive : drive[d] \in Scl =>
        LET lens == SclFiles[drive[d]] IN
        \A k \in 0 .. Len(lens) :
            SclFetch(SclPlaces(lens)[k]) = SumSeq(SubSeq(lens, 1, k))
=============================================================================
