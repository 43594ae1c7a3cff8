---------------------------- MODULE FloppyProofs ----------------------------
(***************************************************************************)
(* Floppy for any number of drives, images, sectors, bytes of a sector and *)
(* bytes written, with images put in and taken out at any moment: a        *)
(* waiting controller is always answered for; a request to store never     *)
(* outlives its command; the bytes the machine reads are those of the      *)
(* sector it asked for, and a sector it was told is written is in the file *)
(* or about to be merged into it, for every command that nothing has       *)
(* disturbed; and an image file holds only what it held, what the machine  *)
(* wrote there, and what disturbed commands laid over it.                  *)
(***************************************************************************)
EXTENDS Floppy, WellFoundedInduction, TLAPS

Window == arm.pc \in {"copy", "close", "give"}

\* A request to read may outlive its command when the command was given into
\* an open window, and then its successor is served twice; but never once the
\* next window has opened, and never a request to write.
Requests ==
    /\ NoPhantomWrite
    /\ Window /\ fdc.rd => fdc.st = "fetch" /\ fdc.wait
    /\ fdc.st = "flush" /\ ~fdc.wait => ~fdc.rd
    /\ NeverStuck

\* A command the ARM serves is the one in progress, or one that waits for the
\* window to close.
Serving ==
    /\ arm.pc \in {"read", "answer", "give"} /\ fdc.st \in {"read", "write", "flush", "fetch"}
           /\ ~(fdc.st = "fetch" /\ fdc.wait)
       => arm.d = sel /\ arm.b = BlockOf(fdc.sec)
    /\ arm.pc \in {"take", "copy", "close"} =>
           fdc.st \in {"idle", "flush"} \/ (fdc.st = "fetch" /\ fdc.wait)
    /\ arm.pc = "merge" => arm.allow
    /\ arm.pc \in {"take", "copy", "close", "merge"} /\ arm.allow =>
           drive[arm.d] \in Image /\ Whole(drive[arm.d], arm.b)

\* What the machine wrote of the sector in hand lies in that sector's half.
OwnHalf ==
    /\ fdc.st \in {"fetch", "read"} => range = {}
    /\ fdc.st \in {"write", "flush"} => \A p \in range : p[1] = fdc.sec % 2

Control == Requests /\ Serving /\ OwnHalf

-----------------------------------------------------------------------------
(* Types. *)
LEMMA BlockOfSector == \A s \in Sector : BlockOf(s) \in Block
BY FloppyAssumption DEF BlockOf, Sector, Block

LEMMA Values ==
    /\ 0 \in Val
    /\ Zeros \in [Byte -> Val]
    /\ \A i \in Image, s \in Sector : Original(i, s) \in [Byte -> Val]
BY DEF Val, Original, Zeros

FdcTypes == [st : {"idle", "fetch", "read", "write", "flush"}, op : {"read", "write"},
             sec : Sector, at : Byte, multi : BOOLEAN, rd : BOOLEAN, wr : BOOLEAN, wait : BOOLEAN]
ArmTypes == [pc : {"top", "take", "copy", "close", "merge", "read", "answer", "give", "eject"},
             d : Drive, b : Block, allow : BOOLEAN, ok : BOOLEAN,
             blk : [Half -> [Byte -> Val]], rg : SUBSET Place]
LevelTypes == [ready : BOOLEAN, wp : BOOLEAN]
BufferType == sel \in Drive /\ ack \in BOOLEAN /\ buf \in [Half -> [Byte -> Val]] /\ range \subseteq Place
DiskType ==
    /\ level \in LevelTypes /\ live \in Drive \cup {NoDrive}
    /\ last \in Drive /\ drive \in [Drive -> Image \cup {NoImage}] /\ opt \in BOOLEAN
    /\ unsynced \subseteq Drive /\ due \in BOOLEAN
FileType == file \in [Image -> [Sector -> [Byte -> Val]]]
GhostType ==
    /\ nw \in 0 .. MaxWrites /\ calm \in BOOLEAN
    /\ meant \subseteq (Image \cup {NoImage}) \X Sector \X Byte \X Val
    /\ doubt \subseteq (Image \cup {NoImage}) \X Sector \X Byte

Types == fdc \in FdcTypes /\ arm \in ArmTypes /\ BufferType /\ DiskType /\ FileType /\ GhostType

LEMMA Parts == TypeOK <=> Types
BY DEF TypeOK, Types, FdcTypes, ArmTypes, LevelTypes, BufferType, DiskType, FileType, GhostType

LEMMA IdleType == IdleFdc \in FdcTypes
BY FloppyAssumption DEF IdleFdc, FdcTypes, Sector, Byte

LEMMA FetchingType ==
    \A op \in {"read", "write"}, s \in Sector, multi \in BOOLEAN : Fetching(op, s, multi) \in FdcTypes
BY FloppyAssumption DEF Fetching, FdcTypes, Byte

LEMMA TopType == AtTop \in ArmTypes
BY FloppyAssumption, Values DEF AtTop, ArmTypes, Block, Half

LEMMA LevelsType ==
    ASSUME NEW dr, NEW d, NEW rw
    PROVE  Levels(dr, d, rw) \in LevelTypes
BY DEF Levels, Empty, Writable, LevelTypes

LEMMA EmptyType == Empty \in LevelTypes
BY DEF Empty, LevelTypes

LEMMA InitType == Init => Types
<1> SUFFICES ASSUME Init PROVE Types
  OBVIOUS
<1>1. file \in [Image -> [Sector -> [Byte -> Val]]]
  BY Values DEF Init
<1>2. buf \in [Half -> [Byte -> Val]] /\ range \subseteq Place
  BY Values DEF Init
<1>3. DiskType
  BY FloppyAssumption, EmptyType DEF Init, DiskType
<1>4. GhostType
  BY FloppyAssumption DEF Init, GhostType
<1>5. fdc \in FdcTypes /\ arm \in ArmTypes /\ sel \in Drive /\ ack \in BOOLEAN
  BY IdleType, TopType, FloppyAssumption DEF Init
<1> QED BY <1>1, <1>2, <1>3, <1>4, <1>5 DEF Types, BufferType, FileType

LEMMA NextSectorType ==
    ASSUME fdc \in FdcTypes, range \subseteq Place, calm \in BOOLEAN, NextSector
    PROVE  fdc' \in FdcTypes /\ range' \subseteq Place /\ calm' \in BOOLEAN
<1>1. CASE fdc.multi /\ fdc.sec + 1 \in Sector /\ level.ready
  <2>1. Fetching(fdc.op, fdc.sec + 1, TRUE) \in FdcTypes
    BY <1>1, FetchingType DEF FdcTypes
  <2> QED BY <1>1, <2>1 DEF NextSector
<1>2. CASE ~(fdc.multi /\ fdc.sec + 1 \in Sector /\ level.ready)
  BY <1>2, IdleType DEF NextSector, Ended
<1> QED BY <1>1, <1>2

LEMMA ShownType ==
    ASSUME FileType, NEW i \in Image, NEW b \in Block
    PROVE  Shown(i, b) \in [Half -> [Byte -> Val]]
BY Values DEF FileType, Shown

LEMMA TypeStep == Types /\ [Next]_vars => Types'
<1> SUFFICES ASSUME Types, [Next]_vars PROVE Types'
  OBVIOUS
<1> USE DEF levels, ghosts, disk
<1>a. /\ fdc \in FdcTypes /\ arm \in ArmTypes
      /\ BufferType /\ DiskType /\ FileType /\ GhostType
  BY DEF Types
<1>b. /\ arm.d \in Drive /\ arm.b \in Block /\ arm.blk \in [Half -> [Byte -> Val]]
      /\ fdc.sec \in Sector
  BY <1>a DEF ArmTypes, FdcTypes
<1>1. CASE UNCHANGED vars
  BY <1>a, <1>1 DEF Types, BufferType, DiskType, FileType, GhostType, vars
<1>2. ASSUME NEW d \in Drive, SelectDrive(d) PROVE Types'
  BY <1>a, <1>2 DEF SelectDrive, Types, BufferType, DiskType, FileType, GhostType
<1>3. ASSUME NEW o \in {"read", "write"}, NEW s \in Sector, NEW multi \in BOOLEAN,
             Command(o, s, multi)
      PROVE  Types'
  <2>1. fdc' \in FdcTypes
    BY <1>3, FetchingType DEF Command
  <2> QED BY <1>a, <1>3, <2>1 DEF Command, Types, BufferType, DiskType, FileType, GhostType
<1>4. CASE Fetched
  <2>1. fdc' \in FdcTypes
    BY <1>a, <1>4 DEF Fetched, FdcTypes
  <2> QED BY <1>a, <1>4, <2>1 DEF Fetched, Types, BufferType, DiskType, FileType, GhostType
<1>5. CASE ReadSector \/ Flushed
  <2>1. NextSector
    BY <1>5 DEF ReadSector, Flushed
  <2>2. fdc' \in FdcTypes /\ range' \subseteq Place /\ calm' \in BOOLEAN
    BY <1>a, <2>1, NextSectorType DEF BufferType, GhostType
  <2> QED BY <1>a, <1>5, <2>2
      DEF ReadSector, Flushed, Types, BufferType, DiskType, FileType, GhostType
<1>6. CASE Abort
  BY <1>a, <1>6, IdleType DEF Abort, Ended, Types, BufferType, DiskType, FileType, GhostType
<1>7. ASSUME NEW inTime \in BOOLEAN, WriteByte(inTime) PROVE Types'
  <2>1. /\ nw' \in 0 .. MaxWrites /\ buf' \in [Half -> [Byte -> Val]] /\ range' \subseteq Place
        /\ meant' \subseteq (Image \cup {NoImage}) \X Sector \X Byte \X Val
    <3>1. CASE inTime
      <4>1. -(nw + 1) \in Val /\ nw + 1 \in 0 .. MaxWrites
        BY <1>a, <1>7, <3>1, FloppyAssumption DEF WriteByte, GhostType, Val
      <4>2. fdc.sec % 2 \in Half /\ fdc.at \in Byte /\ drive[sel] \in Image \cup {NoImage}
        BY <1>a, <1>b, FloppyAssumption DEF BufferType, DiskType, Half, Sector, FdcTypes
      <4>3. /\ nw' = nw + 1 /\ buf' = [buf EXCEPT ![fdc.sec % 2][fdc.at] = -(nw + 1)]
            /\ range' = range \cup {<<fdc.sec % 2, fdc.at>>}
            /\ meant' = meant \cup {<<drive[sel], fdc.sec, fdc.at, -(nw + 1)>>}
        BY <1>7, <3>1 DEF WriteByte
      <4>4. buf' \in [Half -> [Byte -> Val]]
        BY <1>a, <4>1, <4>2, <4>3 DEF BufferType
      <4> QED BY <1>a, <1>b, <4>1, <4>2, <4>3, <4>4 DEF BufferType, GhostType, Place
    <3>2. CASE ~inTime
      BY <1>a, <1>7, <3>2 DEF WriteByte, BufferType, GhostType
    <3> QED BY <3>1, <3>2
  <2>2. fdc' \in FdcTypes /\ calm' \in BOOLEAN
    <3>1. CASE fdc.at + 1 \in Byte
      <4>1. [fdc EXCEPT !.at = fdc.at + 1] \in FdcTypes
        BY <1>a, <3>1 DEF FdcTypes
      <4> QED BY <1>a, <1>7, <3>1, <4>1 DEF WriteByte, GhostType
    <3>2. CASE fdc.at + 1 \notin Byte /\ level.ready
      <4>1. [fdc EXCEPT !.st = "flush", !.wr = TRUE, !.wait = TRUE] \in FdcTypes
        BY <1>a DEF FdcTypes
      <4> QED BY <1>a, <1>7, <3>2, <4>1 DEF WriteByte, GhostType
    <3>3. CASE fdc.at + 1 \notin Byte /\ ~level.ready
      BY <1>7, <3>3, IdleType DEF WriteByte, Ended
    <3> QED BY <3>1, <3>2, <3>3
  <2>3. UNCHANGED <<sel, ack, level, live, disk, arm, doubt>>
    BY <1>7 DEF WriteByte
  <2> QED BY <1>a, <2>1, <2>2, <2>3
      DEF Types, BufferType, DiskType, FileType, GhostType
<1>8. CASE Serve
  <2>1. arm' \in ArmTypes
    <3>1. sel \in Drive /\ BlockOf(fdc.sec) \in Block
      BY <1>a, <1>b, BlockOfSector DEF BufferType
    <3>2. (Writable(drive[sel], opt) /\ Whole(drive[sel], BlockOf(fdc.sec))) \in BOOLEAN
      BY DEF Writable, Whole
    <3> QED BY <1>a, <1>8, <3>1, <3>2, TopType DEF Serve, ArmTypes
  <2>2. level' \in LevelTypes /\ live' \in Drive \cup {NoDrive}
    BY <1>a, <1>8, LevelsType DEF Serve, BufferType, DiskType
  <2>3. doubt' \subseteq (Image \cup {NoImage}) \X Sector \X Byte
    <3>1. drive[sel] \in Image \cup {NoImage}
      BY <1>a DEF BufferType, DiskType
    <3>2. \A p \in Between(range) : <<drive[sel], fdc.sec, p[2]>> \in (Image \cup {NoImage}) \X Sector \X Byte
      BY <1>b, <3>1 DEF Between, Place
    <3> QED BY <1>a, <1>8, <3>2 DEF Serve, GhostType
  <2>4. UNCHANGED <<fdc, sel, ack, buf, range, disk, nw, meant, calm>>
    BY <1>8 DEF Serve
  <2> QED BY <1>a, <2>1, <2>2, <2>3, <2>4 DEF Types, BufferType, DiskType, FileType, GhostType
<1>9. ASSUME NEW from, NEW to \in {"copy", "give"}, OpenWindow(from, to) PROVE Types'
  <2>1. fdc' \in FdcTypes /\ arm' \in ArmTypes
    BY <1>a, <1>9 DEF OpenWindow, FdcTypes, ArmTypes
  <2> QED BY <1>a, <1>9, <2>1 DEF OpenWindow, Types, BufferType, DiskType, FileType, GhostType
<1>10. CASE TakeBlock
  <2>1. arm' \in ArmTypes
    BY <1>a, <1>10 DEF TakeBlock, Laid, Between, ArmTypes, BufferType
  <2> QED BY <1>a, <1>10, <2>1 DEF TakeBlock, Types, BufferType, DiskType, FileType, GhostType
<1>11. CASE CloseTaken
  <2>1. fdc' \in FdcTypes /\ ack' \in BOOLEAN
    BY <1>a, <1>11 DEF CloseTaken, WindowClosed, FdcTypes
  <2>2. [arm EXCEPT !.pc = "merge"] \in ArmTypes
    BY <1>a DEF ArmTypes
  <2>3. arm' \in ArmTypes
    BY <1>11, <2>2, TopType DEF CloseTaken
  <2> QED BY <1>a, <1>11, <2>1, <2>3 DEF CloseTaken, Types, BufferType, DiskType, FileType, GhostType
<1>12. ASSUME NEW readOk \in BOOLEAN, NEW writeOk \in BOOLEAN, Merge(readOk, writeOk) PROVE Types'
  <2>1. FileType'
    <3> DEFINE i == drive[arm.d]
               new == [s \in Sector |-> Overlaid(i, s)]
    <3>1. CASE file' = file
      BY <1>a, <3>1 DEF FileType
    <3>2. CASE i \in Image /\ file' = [file EXCEPT ![i] = new]
      <4>1. \A s \in Sector : s % 2 \in Half
        BY FloppyAssumption DEF Sector, Half
      <4>2. \A s \in Sector : Overlaid(i, s) \in [Byte -> Val]
        BY <1>a, <1>b, <3>2, <4>1 DEF FileType, Overlaid
      <4>3. new \in [Sector -> [Byte -> Val]]
        BY <4>2
      <4> HIDE DEF new, i
      <4> QED BY <1>a, <3>2, <4>3 DEF FileType
    <3>3. CASE i \notin Image /\ file' = [file EXCEPT ![i] = new]
      <4> HIDE DEF new
      <4> QED BY <1>a, <3>3 DEF FileType
    <3> QED BY <1>12, <3>1, <3>2, <3>3 DEF Merge
  <2>2. calm' \in BOOLEAN
    BY <1>a, <1>12 DEF Merge, Busy, GhostType
  <2>3. unsynced' \subseteq Drive /\ due' \in BOOLEAN /\ last' \in Drive
    BY <1>a, <1>b, <1>12 DEF Merge, DiskType
  <2>4. /\ arm' = AtTop
        /\ UNCHANGED <<fdc, sel, ack, buf, range, level, live, drive, opt, nw, meant, doubt>>
    BY <1>12 DEF Merge
  <2> QED BY <1>a, <2>1, <2>2, <2>3, <2>4, TopType
      DEF Types, BufferType, DiskType, GhostType
<1>13. ASSUME NEW readOk \in BOOLEAN, ReadBlock(readOk) PROVE Types'
  <2>1. drive[arm.d] # NoImage => Shown(drive[arm.d], arm.b) \in [Half -> [Byte -> Val]]
    BY <1>a, <1>b, ShownType DEF DiskType
  <2>2. arm' \in ArmTypes
    BY <1>a, <1>b, <1>13, <2>1 DEF ReadBlock, ArmTypes
  <2>3. last' \in Drive /\ calm' \in BOOLEAN
    BY <1>a, <1>b, <1>13 DEF ReadBlock, Busy, DiskType, GhostType
  <2>4. UNCHANGED <<fdc, sel, ack, buf, range, level, live, drive, opt, file, unsynced, due, nw, meant, doubt>>
    BY <1>13 DEF ReadBlock
  <2> QED BY <1>a, <2>2, <2>3, <2>4 DEF Types, BufferType, DiskType, FileType, GhostType
<1>14. CASE GiveBlock
  <2>1. fdc' \in FdcTypes /\ ack' \in BOOLEAN
    BY <1>a, <1>14 DEF GiveBlock, WindowClosed, FdcTypes
  <2>2. buf' \in [Half -> [Byte -> Val]]
    BY <1>a, <1>b, <1>14 DEF GiveBlock, BufferType
  <2> QED BY <1>a, <1>14, <2>1, <2>2, TopType
      DEF GiveBlock, Types, BufferType, DiskType, FileType, GhostType
<1>15. CASE EjectClose
  <2>1. level' \in LevelTypes /\ calm' \in BOOLEAN /\ drive' \in [Drive -> Image \cup {NoImage}]
    BY <1>a, <1>15, EmptyType DEF EjectClose, Busy, DiskType, GhostType
  <2> QED BY <1>a, <1>15, <2>1, TopType
      DEF EjectClose, Ejected, Types, BufferType, DiskType, FileType, GhostType
<1>16. CASE SyncIdle
  <2>1. unsynced' \subseteq Drive /\ due' \in BOOLEAN
    BY <1>a, <1>16 DEF SyncIdle, DiskType
  <2>2. UNCHANGED <<fdc, sel, ack, buf, range, level, live, drive, opt, file, last, arm, nw, meant, doubt, calm>>
    BY <1>16 DEF SyncIdle
  <2> QED BY <1>a, <2>1, <2>2 DEF Types, BufferType, DiskType, FileType, GhostType
<1>17. CASE ToggleWrites
  <2>1. level' \in LevelTypes /\ calm' \in BOOLEAN /\ opt' \in BOOLEAN
    BY <1>a, <1>17, LevelsType DEF ToggleWrites, Busy, DiskType, GhostType
  <2> QED BY <1>a, <1>17, <2>1 DEF ToggleWrites, Types, BufferType, DiskType, FileType, GhostType
<1>18. ASSUME NEW d \in Drive, EjectCheck(d) PROVE Types'
  <2>1. arm' \in ArmTypes
    BY <1>18, TopType DEF EjectCheck, ArmTypes
  <2> QED BY <1>a, <1>18, <2>1 DEF EjectCheck, Types, BufferType, DiskType, FileType, GhostType
<1>19. ASSUME NEW d \in Drive, NEW i \in Image, NEW accepted \in BOOLEAN, Mount(d, i, accepted)
       PROVE Types'
  <2>1. level' \in LevelTypes /\ calm' \in BOOLEAN
    BY <1>a, <1>19, LevelsType, EmptyType DEF Mount, Busy, DiskType, GhostType
  <2>2. drive' \in [Drive -> Image \cup {NoImage}] /\ unsynced' \subseteq Drive
    BY <1>a, <1>19 DEF Mount, Ejected, DiskType
  <2>3. last' \in Drive /\ live' \in Drive \cup {NoDrive}
    BY <1>a, <1>19 DEF Mount, DiskType
  <2>4. UNCHANGED <<fdc, sel, ack, buf, range, opt, file, due, arm, nw, meant, doubt>>
    BY <1>19 DEF Mount
  <2> QED BY <1>a, <2>1, <2>2, <2>3, <2>4 DEF Types, BufferType, DiskType, FileType, GhostType
<1>20. \A m \in Mounts : m[1] \in Drive /\ m[2] \in Image
  BY FloppyAssumption
<1> QED
  BY <1>1, <1>2, <1>3, <1>4, <1>5, <1>6, <1>7, <1>8, <1>9, <1>10, <1>11, <1>12, <1>13,
     <1>14, <1>15, <1>16, <1>17, <1>18, <1>19, <1>20
  DEF Next, Machine, Service, User

\* TypeOK (disk_service's locals, the controller's registers) for every instance.
THEOREM TypeCorrect == Spec => []TypeOK
BY InitType, TypeStep, Parts, PTL DEF Spec
-----------------------------------------------------------------------------
(* Requests, windows and the command they serve. *)
LEMMA InitControl == Init => Control
BY DEF Init, Control, OwnHalf, Requests, NoPhantomWrite, NeverStuck, Window, Serving, IdleFdc, AtTop

\* What is left of a command when its sector is done.
LEMMA NextSectorFdc ==
    ASSUME fdc \in FdcTypes, NextSector
    PROVE  \/ fdc' = IdleFdc
           \/ /\ \E s \in Sector : fdc' = Fetching(fdc.op, s, TRUE)
              /\ range' = IF fdc.rd THEN range ELSE {}
BY DEF NextSector, Ended

LEMMA ControlStep == Types /\ Control /\ [Next]_vars => Control'
<1> SUFFICES ASSUME Types, Control, [Next]_vars PROVE Control'
  OBVIOUS
<1> USE DEF levels, ghosts, disk, Control, Requests, NoPhantomWrite, NeverStuck, Window, Serving, OwnHalf
<1>a. /\ fdc \in FdcTypes /\ arm \in ArmTypes
      /\ sel \in Drive /\ drive \in [Drive -> Image \cup {NoImage}]
  BY DEF Types, BufferType, DiskType
<1>1. CASE UNCHANGED vars
  BY <1>1 DEF vars
<1>2. ASSUME NEW d \in Drive, SelectDrive(d) PROVE Control'
  BY <1>a, <1>2 DEF SelectDrive, Busy
<1>3. ASSUME NEW o \in {"read", "write"}, NEW s \in Sector, NEW multi \in BOOLEAN,
             Command(o, s, multi)
      PROVE  Control'
  BY <1>a, <1>3 DEF Command, Fetching, Busy
<1>4. CASE Fetched
  BY <1>a, <1>4 DEF Fetched, FdcTypes
<1>5. CASE ReadSector \/ Flushed
  <2>1. \/ fdc' = IdleFdc
        \/ (\E s \in Sector : fdc' = Fetching(fdc.op, s, TRUE)) /\ range' = {}
    <3>1. range = {} \/ ~fdc.rd
      BY <1>a, <1>5 DEF ReadSector, Flushed
    <3> QED BY <1>a, <1>5, <3>1, NextSectorFdc DEF ReadSector, Flushed
  <2>2. UNCHANGED <<sel, arm, drive>>
    BY <1>5 DEF ReadSector, Flushed
  <2> QED BY <1>a, <1>5, <2>1, <2>2 DEF Fetching, IdleFdc, ReadSector, Flushed
<1>6. CASE Abort
  BY <1>a, <1>6 DEF Abort, Ended, IdleFdc
<1>7. ASSUME NEW inTime \in BOOLEAN, WriteByte(inTime) PROVE Control'
  <2>1. /\ fdc.st = "write" /\ UNCHANGED <<sel, arm, drive>>
        /\ range' = range \/ range' = range \cup {<<fdc.sec % 2, fdc.at>>}
    BY <1>7 DEF WriteByte
  <2>2. CASE fdc.at + 1 \in Byte
    <3>1. /\ fdc'.st = "write" /\ fdc'.wr = fdc.wr /\ fdc'.wait = fdc.wait
          /\ fdc'.rd = fdc.rd /\ fdc'.sec = fdc.sec
      BY <1>a, <1>7, <2>2, <2>1 DEF WriteByte, FdcTypes
    <3> QED BY <1>a, <2>1, <3>1
  <2>3. CASE fdc.at + 1 \notin Byte /\ level.ready
    <3>1. /\ fdc'.st = "flush" /\ fdc'.wr /\ fdc'.wait
          /\ fdc'.rd = fdc.rd /\ fdc'.sec = fdc.sec
      BY <1>a, <1>7, <2>3 DEF WriteByte, FdcTypes
    <3> QED BY <1>a, <2>1, <3>1
  <2>4. CASE fdc.at + 1 \notin Byte /\ ~level.ready
    <3>1. fdc' = IdleFdc
      BY <1>7, <2>4 DEF WriteByte, Ended
    <3> QED BY <1>a, <2>1, <3>1 DEF IdleFdc
  <2> QED BY <2>2, <2>3, <2>4
<1>8. CASE Serve
  <2>1. CASE fdc.rd
    BY <1>a, <1>8, <2>1 DEF Serve, AtTop
  <2>2. CASE ~fdc.rd /\ fdc.wr
    <3>1. /\ arm' = [AtTop EXCEPT !.pc = "take", !.d = sel, !.b = BlockOf(fdc.sec),
                       !.allow = Writable(drive[sel], opt) /\ Whole(drive[sel], BlockOf(fdc.sec))]
          /\ UNCHANGED <<fdc, sel, range, drive>>
      BY <1>8, <2>2 DEF Serve
    <3>2. /\ arm'.pc = "take" /\ arm'.d = sel /\ arm'.b = BlockOf(fdc.sec)
          /\ arm'.allow = (Writable(drive[sel], opt) /\ Whole(drive[sel], BlockOf(fdc.sec)))
      BY <3>1 DEF AtTop
    <3>3. arm'.allow => drive[sel] \in Image /\ Whole(drive[sel], BlockOf(fdc.sec))
      BY <1>a, <3>2 DEF Writable
    <3> QED BY <1>a, <2>2, <3>1, <3>2, <3>3
  <2>3. CASE ~fdc.rd /\ ~fdc.wr
    BY <1>a, <1>8, <2>3 DEF Serve
  <2> QED BY <2>1, <2>2, <2>3
<1>9. CASE OpenWindow("take", "copy")
  BY <1>a, <1>9 DEF OpenWindow, FdcTypes, ArmTypes
<1>10. CASE OpenWindow("answer", "give")
  BY <1>a, <1>10 DEF OpenWindow, FdcTypes, ArmTypes
<1>11. CASE TakeBlock
  BY <1>a, <1>11 DEF TakeBlock, ArmTypes
<1>12. CASE CloseTaken
  BY <1>a, <1>12 DEF CloseTaken, WindowClosed, FdcTypes, ArmTypes, AtTop
<1>13. ASSUME NEW readOk \in BOOLEAN, NEW writeOk \in BOOLEAN, Merge(readOk, writeOk) PROVE Control'
  <2>1. arm.pc = "merge" /\ arm' = AtTop /\ UNCHANGED <<fdc, sel, range, drive>>
    BY <1>13 DEF Merge
  <2> QED BY <1>a, <2>1 DEF AtTop
<1>14. ASSUME NEW readOk \in BOOLEAN, ReadBlock(readOk) PROVE Control'
  <2>1. UNCHANGED <<fdc, sel, range, drive>>
    BY <1>14 DEF ReadBlock
  <2>2. arm.pc = "read" /\ arm'.pc = "answer" /\ arm'.d = arm.d /\ arm'.b = arm.b
    BY <1>a, <1>14 DEF ReadBlock, ArmTypes
  <2> QED BY <1>a, <2>1, <2>2
<1>15. CASE GiveBlock
  BY <1>a, <1>15 DEF GiveBlock, WindowClosed, FdcTypes, AtTop
<1>16. CASE EjectClose
  BY <1>a, <1>16 DEF EjectClose, AtTop
<1>17. CASE SyncIdle
  BY <1>17 DEF SyncIdle
<1>18. CASE ToggleWrites
  BY <1>18 DEF ToggleWrites
<1>19. ASSUME NEW d \in Drive, EjectCheck(d) PROVE Control'
  BY <1>a, <1>19 DEF EjectCheck, AtTop
<1>20. ASSUME NEW d \in Drive, NEW i \in Image, NEW accepted \in BOOLEAN, Mount(d, i, accepted)
       PROVE Control'
  BY <1>a, <1>20 DEF Mount
<1>21. \A m \in Mounts : m[1] \in Drive /\ m[2] \in Image
  BY FloppyAssumption
<1> QED
  BY <1>1, <1>2, <1>3, <1>4, <1>5, <1>6, <1>7, <1>8, <1>9, <1>10, <1>11, <1>12, <1>13,
     <1>14, <1>15, <1>16, <1>17, <1>18, <1>19, <1>20, <1>21
  DEF Next, Machine, Service, User

LEMMA ControlAlways == Spec => [](Types /\ Control)
<1>1. Init => Types /\ Control
  BY InitType, InitControl
<1>2. (Types /\ Control) /\ [Next]_vars => (Types /\ Control)'
  BY TypeStep, ControlStep
<1> QED BY <1>1, <1>2, PTL DEF Spec

\* A controller that waits has its request up, or a window open that will be
\* closed: a request cannot vanish unanswered, whatever the machine breaks off.
THEOREM NeverStuckAlways == Spec => []NeverStuck
<1>1. Types /\ Control => NeverStuck
  BY DEF Control, Requests
<1> QED BY <1>1, ControlAlways, PTL

\* No request to store a block outlives its command (STATE_ENDCOMMAND drops it),
\* so that none is served at another command's address.
THEOREM NoPhantomWriteAlways == Spec => []NoPhantomWrite
<1>1. Types /\ Control => NoPhantomWrite
  BY DEF Control, Requests
<1> QED BY <1>1, ControlAlways, PTL
-----------------------------------------------------------------------------
(***************************************************************************)
(* One undisturbed exchange from the command to the answer.                *)
(***************************************************************************)

\* The levels the controller sees are those of the drive they belong to, as
\* its image and the write option are now (drv_levels, disk_wp_refresh).
LevelsKnown == live # NoDrive => level = Levels(drive, live, opt)

Ops ==
    /\ fdc.st \in {"write", "flush"} => fdc.op = "write"
    /\ fdc.st = "read" => fdc.op = "read"

\* The stages of a command, and the ARM's part that goes with each.
Asking  == fdc.st = "fetch" /\ fdc.wait
Holding == fdc.st \in {"read", "write"} \/ (fdc.st = "fetch" /\ ~fdc.wait)
Storing == fdc.st = "flush" /\ fdc.wait
Stored  == fdc.st = "flush" /\ ~fdc.wait

Mine == arm.d = sel /\ arm.b = BlockOf(fdc.sec)
BlockShown == Shown(drive[sel], BlockOf(fdc.sec))

\* The buffer is the block on the card, with what the machine has written of it.
Mixed == \A p \in Place :
    IF p \in range THEN <<drive[sel], fdc.sec, p[2], buf[p[1]][p[2]]>> \in meant
    ELSE buf[p[1]][p[2]] = BlockShown[p[1]][p[2]]

AskedRight == Asking =>
    \/ arm.pc \in {"top", "merge"}
    \/ arm.pc = "read" /\ Mine
    \/ /\ arm.pc \in {"answer", "give"} /\ Mine /\ arm.ok /\ arm.blk = BlockShown
       /\ arm.pc = "give" => ~fdc.rd
HeldRight == Holding => arm.pc = "top" /\ ~fdc.rd /\ Mixed
StoringRight == Storing =>
    /\ ~fdc.rd /\ Mixed
    /\ \/ arm.pc = "top"
       \/ /\ arm.pc \in {"take", "copy", "close"} /\ Mine
          /\ Whole(drive[sel], arm.b) => arm.allow
    /\ arm.pc \in {"copy", "close"} => ~fdc.wr
    /\ arm.pc = "close" => arm.rg = Laid /\ arm.blk = buf
StoredRight == Stored =>
    /\ ~fdc.wr
    /\ \/ arm.pc = "merge" /\ Mine /\ arm.rg = Laid /\ arm.blk = buf /\ Mixed
       \/ /\ arm.pc = "top"
          /\ Whole(drive[sel], BlockOf(fdc.sec)) =>
                 file[drive[sel]][fdc.sec] = buf[fdc.sec % 2]

Stages == AskedRight /\ HeldRight /\ StoringRight /\ StoredRight

Exchange == Busy /\ calm =>
    /\ live = sel /\ drive[sel] # NoImage
    /\ fdc.op = "write" => Writable(drive[sel], opt)
    /\ Stages

EInv == LevelsKnown /\ Ops /\ Exchange

-----------------------------------------------------------------------------
LEMMA InitExchange == Init => EInv
BY DEF Init, EInv, LevelsKnown, Ops, Exchange, Busy, IdleFdc

LEMMA LevelsStep == Types /\ LevelsKnown /\ [Next]_vars => LevelsKnown'
<1> SUFFICES ASSUME Types, LevelsKnown, [Next]_vars PROVE LevelsKnown'
  OBVIOUS
<1> USE DEF levels, ghosts, disk
<1>a. /\ arm.d \in Drive /\ drive \in [Drive -> Image \cup {NoImage}]
      /\ live \in Drive \cup {NoDrive} /\ sel \in Drive
  BY DEF Types, ArmTypes, DiskType, BufferType
<1>1. CASE UNCHANGED <<level, live, drive, opt>>
  BY <1>1 DEF LevelsKnown, Levels, Writable
<1>2. CASE Serve
  <2>1. UNCHANGED <<drive, opt>> /\ live' = sel
        /\ level' = IF live = sel THEN level ELSE Levels(drive, sel, opt)
    BY <1>2 DEF Serve
  <2>2. level' = Levels(drive, live', opt)
    BY <1>a, <2>1, FloppyAssumption DEF LevelsKnown, NoDrive
  <2> QED BY <2>1, <2>2 DEF LevelsKnown, Levels, Writable
<1>3. CASE EjectClose
  <2>1. /\ drive' = [drive EXCEPT ![arm.d] = NoImage] /\ live' = live /\ opt' = opt
        /\ level' = IF live = arm.d THEN Empty ELSE level
    BY <1>3 DEF EjectClose
  <2>2. live # NoDrive => drive'[live] = IF live = arm.d THEN NoImage ELSE drive[live]
    BY <1>a, <2>1
  <2> QED BY <2>1, <2>2 DEF LevelsKnown, Levels, Writable
<1>4. CASE ToggleWrites
  <2>1. /\ live' = live /\ drive' = drive /\ opt' = ~opt
        /\ level' = IF live # NoDrive /\ drive[live] # NoImage
                    THEN Levels(drive, live, ~opt) ELSE level
    BY <1>4 DEF ToggleWrites
  <2> QED BY <2>1 DEF LevelsKnown, Levels, Writable
<1>5. ASSUME NEW d \in Drive, NEW i \in Image, NEW accepted \in BOOLEAN, Mount(d, i, accepted)
      PROVE  LevelsKnown'
  <2>1. /\ drive' = [drive EXCEPT ![d] = IF accepted THEN i ELSE NoImage] /\ opt' = opt
        /\ accepted => live' = d /\ level' = Levels(drive', d, opt)
        /\ ~accepted => live' = live /\ level' = IF live = d THEN Empty ELSE level
    BY <1>5 DEF Mount
  <2>2. CASE accepted
    BY <2>1, <2>2 DEF LevelsKnown, Levels, Writable
  <2>3. CASE ~accepted
    <3>1. live # NoDrive => drive'[live] = IF live = d THEN NoImage ELSE drive[live]
      BY <1>a, <2>1, <2>3
    <3> QED BY <2>1, <2>3, <3>1 DEF LevelsKnown, Levels, Writable
  <2> QED BY <2>2, <2>3
<1>6. \/ UNCHANGED <<level, live, drive, opt>>
      \/ Serve \/ EjectClose \/ ToggleWrites
      \/ \E m \in Mounts, accepted \in BOOLEAN : Mount(m[1], m[2], accepted)
  <2>1. Machine => UNCHANGED <<level, live, drive, opt>>
    BY DEF Machine, SelectDrive, Command, Fetched, ReadSector, Flushed, Abort, WriteByte
  <2>2. Service => UNCHANGED <<level, live, drive, opt>> \/ Serve \/ EjectClose
    BY DEF Service, OpenWindow, TakeBlock, CloseTaken, Merge, ReadBlock, GiveBlock
  <2>3. SyncIdle => UNCHANGED <<level, live, drive, opt>>
    BY DEF SyncIdle
  <2>4. User => \/ UNCHANGED <<level, live, drive, opt>> \/ ToggleWrites
                \/ \E m \in Mounts, accepted \in BOOLEAN : Mount(m[1], m[2], accepted)
    BY DEF User, EjectCheck
  <2> QED BY <2>1, <2>2, <2>3, <2>4 DEF Next, vars
<1>7. \A m \in Mounts : m[1] \in Drive /\ m[2] \in Image
  BY FloppyAssumption
<1> QED BY <1>1, <1>2, <1>3, <1>4, <1>5, <1>6, <1>7

\* What any step does to the controller's stage and command.
LEMMA OpsStep == Types /\ Ops /\ [Next]_vars => Ops'
<1> SUFFICES ASSUME Types, Ops, [Next]_vars PROVE Ops'
  OBVIOUS
<1>a. fdc \in FdcTypes
  BY DEF Types
<1>1. CASE fdc'.st = fdc.st /\ fdc'.op = fdc.op
  BY <1>1 DEF Ops
<1>2. CASE Machine
  <2>1. ASSUME NEW d \in Drive, SelectDrive(d) PROVE Ops'
    BY <1>1, <2>1 DEF SelectDrive
  <2>2. ASSUME NEW o \in {"read", "write"}, NEW s \in Sector, NEW multi \in BOOLEAN,
               Command(o, s, multi)
        PROVE  Ops'
    BY <2>2 DEF Command, Fetching, Ops
  <2>3. CASE Fetched
    BY <1>a, <2>3 DEF Fetched, FdcTypes, Ops
  <2>4. CASE ReadSector \/ Flushed
    <3>1. fdc' = IdleFdc \/ \E s \in Sector : fdc' = Fetching(fdc.op, s, TRUE)
      BY <1>a, <2>4, NextSectorFdc DEF ReadSector, Flushed
    <3> QED BY <3>1 DEF Fetching, IdleFdc, Ops
  <2>5. CASE Abort
    BY <2>5 DEF Abort, Ended, IdleFdc, Ops
  <2>6. ASSUME NEW inTime \in BOOLEAN, WriteByte(inTime) PROVE Ops'
    <3>1. fdc.st = "write" /\ (fdc' = IdleFdc \/ (fdc'.st \in {"write", "flush"} /\ fdc'.op = fdc.op))
      <4>1. CASE fdc.at + 1 \in Byte
        BY <1>a, <2>6, <4>1 DEF WriteByte, FdcTypes
      <4>2. CASE fdc.at + 1 \notin Byte /\ level.ready
        BY <1>a, <2>6, <4>2 DEF WriteByte, FdcTypes
      <4>3. CASE fdc.at + 1 \notin Byte /\ ~level.ready
        <5>1. fdc.st = "write"
          BY <2>6 DEF WriteByte
        <5>2. fdc' = IdleFdc
          BY <2>6, <4>3 DEF WriteByte, Ended
        <5> QED BY <5>1, <5>2
      <4> QED BY <4>1, <4>2, <4>3
    <3> QED BY <3>1 DEF IdleFdc, Ops
  <2> QED BY <1>2, <2>1, <2>2, <2>3, <2>4, <2>5, <2>6 DEF Machine
<1>3. CASE Service \/ SyncIdle \/ User \/ UNCHANGED vars
  <2>1. \/ fdc' = fdc
        \/ fdc' = [fdc EXCEPT !.rd = FALSE, !.wr = FALSE]
        \/ fdc' = [fdc EXCEPT !.wait = FALSE]
    BY <1>3 DEF Service, Serve, OpenWindow, TakeBlock, CloseTaken, Merge, ReadBlock,
       GiveBlock, WindowClosed, EjectClose, SyncIdle, User, ToggleWrites, EjectCheck, Mount, vars
  <2> QED BY <1>a, <1>1, <2>1 DEF FdcTypes
<1> QED BY <1>2, <1>3 DEF Next

-----------------------------------------------------------------------------
(* The exchange, step by step. *)

LEMMA Halves ==
    /\ \A s \in Sector : s % 2 \in Half /\ s \div 2 \in Block /\ 2 * (s \div 2) + (s % 2) = s
    /\ \A b \in Block, h \in Half : (2 * b + h) \div 2 = b /\ (2 * b + h) % 2 = h
BY FloppyAssumption DEF Sector, Half, Block

\* What the machine wrote goes to the file, and nothing does if it wrote nothing.
LEMMA LaidCovers == range \subseteq Place => range \subseteq Laid /\ Laid \subseteq Place
<1> SUFFICES ASSUME range \subseteq Place, NEW p \in range PROVE p \in Laid
  BY DEF Laid, Between
<1>1. NotAfter(p, p)
  BY DEF NotAfter, Place, Byte, Half
<1> QED BY <1>1 DEF Laid, Between

LEMMA LaidNothing == range = {} => Laid = {}
BY DEF Laid, Between

\* A block of an image, as its file has it.
LEMMA ShownInside ==
    ASSUME NEW i, NEW s \in Sector, Whole(i, BlockOf(s)), Size[i] \in Nat
    PROVE  Shown(i, BlockOf(s))[s % 2] = file[i][s]
<1>1. s % 2 \in Half /\ 2 * BlockOf(s) + (s % 2) = s /\ BlockOf(s) \in Nat /\ s \in Nat
  BY Halves, FloppyAssumption DEF BlockOf, Sector, Block
<1>2. s < Size[i]
  BY <1>1 DEF Whole, Half
<1> QED BY <1>1, <1>2 DEF Shown

\* What the block on disk looks like changes only with the file and the drive.
LEMMA ShownKept ==
    ASSUME UNCHANGED <<sel, drive, file>>, fdc'.sec = fdc.sec
    PROVE  BlockShown' = BlockShown
BY DEF BlockShown, Shown, BlockOf, Whole

LEMMA MixedKept ==
    ASSUME UNCHANGED <<sel, drive, file, buf, range, meant>>, fdc'.sec = fdc.sec
    PROVE  Mixed' = Mixed /\ Laid' = Laid
BY ShownKept DEF Mixed, Laid, Between

\* Laid over the file, the block taken is the sector as the buffer has it: what
\* the machine did not write is the file's already.
LEMMA OverlaidRight ==
    ASSUME Types, Mine, arm.rg = Laid, arm.blk = buf, Mixed, drive[sel] \in Image,
           Whole(drive[sel], BlockOf(fdc.sec))
    PROVE  Overlaid(drive[sel], fdc.sec) = buf[fdc.sec % 2]
<1> DEFINE i == drive[sel]
           s == fdc.sec
<1>1. /\ s \in Sector /\ s % 2 \in Half /\ range \subseteq Place
      /\ buf[s % 2] \in [Byte -> Val] /\ s \div 2 = arm.b
  BY Halves DEF Types, FdcTypes, BufferType, Mine, BlockOf
<1>2. BlockShown[s % 2] = file[i][s]
  BY <1>1, ShownInside, FloppyAssumption DEF BlockShown
<1>3. ASSUME NEW k \in Byte  PROVE Overlaid(i, s)[k] = buf[s % 2][k]
  <2>1. CASE <<s % 2, k>> \in Laid
    BY <1>1, <2>1 DEF Overlaid
  <2>2. CASE <<s % 2, k>> \notin Laid
    <3>1. <<s % 2, k>> \in Place /\ <<s % 2, k>> \notin range
      BY <1>1, <2>2, LaidCovers DEF Place
    <3>2. buf[s % 2][k] = BlockShown[s % 2][k]
      BY <3>1 DEF Mixed
    <3> QED BY <1>1, <1>2, <2>2, <3>2 DEF Overlaid
  <2> QED BY <2>1, <2>2
<1> QED BY <1>1, <1>3 DEF Overlaid

LEMMA ExchangeMachine == Types /\ Control /\ EInv /\ Machine => Exchange'
<1> SUFFICES ASSUME Types, Control, EInv, Machine PROVE Exchange'
  OBVIOUS
<1> USE DEF levels, ghosts, disk
<1>a. fdc \in FdcTypes /\ sel \in Drive /\ LevelsKnown /\ Ops /\ Exchange
  BY DEF Types, BufferType, EInv
<1>1. ASSUME NEW d \in Drive, SelectDrive(d) PROVE Exchange'
  BY <1>1 DEF SelectDrive, Exchange, Busy
<1>2. ASSUME NEW o \in {"read", "write"}, NEW s \in Sector, NEW multi \in BOOLEAN,
             Command(o, s, multi)
      PROVE  Exchange'
  <2> SUFFICES ASSUME calm' PROVE Exchange'
    BY DEF Exchange
  <2>1. /\ level.ready /\ (o = "write" => ~level.wp)
        /\ live = sel /\ arm.pc \in {"top", "merge"}
        /\ fdc'.op = o /\ fdc'.st = "fetch" /\ fdc'.wait
        /\ UNCHANGED <<sel, drive, opt, live, arm>>
    BY <1>2 DEF Command, Fetching
  <2>2. level = Levels(drive, sel, opt)
    BY <1>a, <2>1, FloppyAssumption DEF LevelsKnown, NoDrive
  <2>3. drive[sel] # NoImage /\ (o = "write" => Writable(drive[sel], opt))
    BY <2>1, <2>2 DEF Levels, Empty
  <2>4. Stages'
    BY <2>1 DEF Stages, AskedRight, HeldRight, StoringRight, StoredRight,
       Asking, Holding, Storing, Stored
  <2> QED BY <2>1, <2>3, <2>4 DEF Exchange, Writable
<1>3. CASE Fetched
  <2> SUFFICES ASSUME calm' PROVE Exchange'
    BY DEF Exchange
  <2>1. /\ fdc.st = "fetch" /\ ~fdc.wait /\ calm
        /\ fdc'.st \in {"read", "write"} /\ fdc'.op = fdc.op /\ fdc'.rd = fdc.rd
        /\ fdc'.sec = fdc.sec
        /\ UNCHANGED <<sel, drive, opt, live, arm, buf, file, range, meant>>
    BY <1>a, <1>3 DEF Fetched, FdcTypes
  <2>2. HeldRight /\ Holding /\ Busy
    BY <1>a, <2>1 DEF Exchange, Stages, Holding, Busy
  <2>3. Stages'
    BY <2>1, <2>2, MixedKept DEF Stages, AskedRight, HeldRight, StoringRight, StoredRight,
       Asking, Holding, Storing, Stored
  <2> QED BY <1>a, <2>1, <2>2, <2>3 DEF Exchange, Writable
<1>4. CASE ReadSector \/ Flushed
  <2>1. NextSector /\ UNCHANGED <<sel, drive, opt, live, arm>>
    BY <1>4 DEF ReadSector, Flushed
  <2>2. \/ fdc' = IdleFdc
        \/ calm' = calm /\ \E s \in Sector : fdc' = Fetching(fdc.op, s, TRUE)
    BY <2>1 DEF NextSector, Ended
  <2>3. CASE fdc' = IdleFdc
    BY <2>3 DEF Exchange, Busy, IdleFdc
  <2>4. CASE calm /\ fdc'.st = "fetch" /\ fdc'.wait /\ fdc'.op = fdc.op
    <3>1. Holding \/ Stored
      BY <1>4 DEF ReadSector, Flushed, Holding, Stored
    <3>2. Busy /\ arm.pc \in {"top", "merge"}
      BY <1>a, <2>4, <3>1
      DEF Exchange, Busy, Stages, HeldRight, StoredRight, Holding, Stored
    <3>3. Stages'
      BY <2>1, <2>4, <3>2 DEF Stages, AskedRight, HeldRight, StoringRight, StoredRight,
         Asking, Holding, Storing, Stored
    <3> QED BY <1>a, <2>1, <2>4, <3>2, <3>3 DEF Exchange, Writable
  <2>5. CASE calm' = calm /\ \E s \in Sector : fdc' = Fetching(fdc.op, s, TRUE)
    <3>1. fdc'.st = "fetch" /\ fdc'.wait /\ fdc'.op = fdc.op
      BY <2>5 DEF Fetching
    <3>2. CASE calm
      BY <2>4, <3>1, <3>2
    <3>3. CASE ~calm
      BY <2>5, <3>3 DEF Exchange
    <3> QED BY <3>2, <3>3
  <2> QED BY <2>2, <2>3, <2>5
<1>5. CASE Abort
  BY <1>5 DEF Abort, Ended, IdleFdc, Exchange, Busy
<1>6. ASSUME NEW inTime \in BOOLEAN, WriteByte(inTime) PROVE Exchange'
  <2>1. CASE fdc' = IdleFdc
    BY <2>1 DEF IdleFdc, Exchange, Busy
  <2>2. CASE fdc' # IdleFdc
    <3> SUFFICES ASSUME calm' PROVE Exchange'
      BY DEF Exchange
    <3>1. /\ fdc.st = "write" /\ calm
          /\ fdc'.st = "write" \/ (fdc'.st = "flush" /\ fdc'.wait)
          /\ fdc'.op = fdc.op /\ fdc'.rd = fdc.rd /\ fdc'.sec = fdc.sec
          /\ UNCHANGED <<sel, drive, opt, live, arm, file>>
      <4>1. CASE fdc.at + 1 \in Byte
        <5>1. fdc' = [fdc EXCEPT !.at = fdc.at + 1] /\ calm' = calm
          BY <1>6, <4>1 DEF WriteByte
        <5>2. fdc.st = "write" /\ UNCHANGED <<sel, drive, opt, live, arm, file>>
          BY <1>6 DEF WriteByte
        <5>3. /\ fdc'.st = fdc.st /\ fdc'.op = fdc.op /\ fdc'.rd = fdc.rd /\ fdc'.sec = fdc.sec
          BY <1>a, <5>1 DEF FdcTypes
        <5> QED BY <5>1, <5>2, <5>3
      <4>2. CASE fdc.at + 1 \notin Byte /\ level.ready
        BY <1>a, <1>6, <4>2 DEF WriteByte, FdcTypes
      <4>3. CASE fdc.at + 1 \notin Byte /\ ~level.ready
        BY <1>6, <2>2, <4>3 DEF WriteByte, Ended
      <4> QED BY <4>1, <4>2, <4>3
    <3>2. Busy /\ HeldRight /\ Holding
      BY <1>a, <3>1 DEF Exchange, Stages, Busy, Holding
    <3>3. Mixed'
      <4> DEFINE h == fdc.sec % 2
                 b == fdc.at
      <4>1. h \in Half /\ b \in Byte /\ Mixed /\ BlockShown' = BlockShown
            /\ buf \in [Half -> [Byte -> Val]] /\ range \subseteq Place
        BY <1>a, <3>1, <3>2, ShownKept, Halves DEF HeldRight, FdcTypes, Types, BufferType
      <4>2. CASE inTime
        <5>1. /\ buf' = [buf EXCEPT ![h][b] = -(nw + 1)]
              /\ range' = range \cup {<<h, b>>}
              /\ meant' = meant \cup {<<drive[sel], fdc.sec, b, -(nw + 1)>>}
          BY <1>6, <4>2 DEF WriteByte
        <5>2. buf'[h][b] = -(nw + 1)
          BY <4>1, <5>1
        <5>3. ASSUME NEW p \in Place, p # <<h, b>>  PROVE buf'[p[1]][p[2]] = buf[p[1]][p[2]]
          BY <4>1, <5>1, <5>3 DEF Place
        <5> HIDE DEF h, b
        <5>4. ASSUME NEW p \in Place
              PROVE  IF p \in range' THEN <<drive[sel], fdc.sec, p[2], buf'[p[1]][p[2]]>> \in meant'
                     ELSE buf'[p[1]][p[2]] = BlockShown[p[1]][p[2]]
          <6>1. CASE p = <<h, b>>
            BY <5>1, <5>2, <6>1
          <6>2. CASE p # <<h, b>>
            BY <4>1, <5>1, <5>3, <6>2 DEF Mixed
          <6> QED BY <6>1, <6>2
        <5> QED BY <3>1, <4>1, <5>4 DEF Mixed
      <4>3. CASE ~inTime
        <5>1. UNCHANGED <<buf, range, meant>>
          BY <1>6, <4>3 DEF WriteByte
        <5> QED BY <3>1, <4>1, <5>1, MixedKept
      <4> QED BY <4>2, <4>3
    <3>4. Stages'
      BY <3>1, <3>2, <3>3 DEF Stages, AskedRight, HeldRight, StoringRight, StoredRight,
         Asking, Holding, Storing, Stored
    <3> QED BY <1>a, <3>1, <3>2, <3>4 DEF Exchange, Writable
  <2> QED BY <2>1, <2>2
<1> QED BY <1>1, <1>2, <1>3, <1>4, <1>5, <1>6 DEF Machine

\* Nothing the user does goes unnoticed by a command in progress.
LEMMA ExchangeUser == EInv /\ (SyncIdle \/ User \/ UNCHANGED vars) => Exchange'
<1> SUFFICES ASSUME EInv, SyncIdle \/ User \/ UNCHANGED vars PROVE Exchange'
  OBVIOUS
<1> USE DEF levels, ghosts, disk
<1>1. CASE SyncIdle \/ User
  <2>1. fdc' = fdc /\ (~Busy \/ ~calm')
    BY <1>1 DEF SyncIdle, User, ToggleWrites, EjectCheck, Mount, Idle
  <2> QED BY <2>1 DEF Exchange, Busy
<1>2. CASE UNCHANGED vars
  <2>1. UNCHANGED <<fdc, sel, buf, range, live, drive, opt, file, arm, calm, meant>>
    BY <1>2 DEF vars
  <2>2. Exchange /\ BlockShown' = BlockShown /\ Mixed' = Mixed /\ Laid' = Laid
    BY <2>1, ShownKept, MixedKept DEF EInv
  <2> QED BY <2>1, <2>2 DEF Exchange, Busy, Stages, AskedRight, HeldRight, StoringRight,
        StoredRight, Asking, Holding, Storing, Stored, Mine, Writable, Whole, BlockOf
<1> QED BY <1>1, <1>2

LEMMA ExchangeService == Types /\ Control /\ EInv /\ Service => Exchange'
<1> SUFFICES ASSUME Types, Control, EInv, Service, Busy', calm' PROVE Exchange'
  BY DEF Exchange
<1> USE DEF levels, ghosts, disk
<1>a. /\ fdc \in FdcTypes /\ arm \in ArmTypes /\ sel \in Drive /\ LevelsKnown /\ Ops /\ Exchange
      /\ drive \in [Drive -> Image \cup {NoImage}] /\ FileType /\ fdc.sec \in Sector
  BY DEF Types, BufferType, DiskType, EInv, FdcTypes
<1>b. /\ fdc'.st = fdc.st /\ fdc'.op = fdc.op /\ fdc'.sec = fdc.sec
      /\ UNCHANGED <<sel, opt, range, meant>> /\ Busy
  <2>1. \/ fdc' = fdc
        \/ fdc' = [fdc EXCEPT !.rd = FALSE, !.wr = FALSE]
        \/ fdc' = [fdc EXCEPT !.wait = FALSE]
    BY DEF Service, Serve, OpenWindow, TakeBlock, CloseTaken, Merge, ReadBlock,
       GiveBlock, WindowClosed, EjectClose
  <2>2. UNCHANGED <<sel, opt, range, meant>>
    BY DEF Service, Serve, OpenWindow, TakeBlock, CloseTaken, Merge, ReadBlock,
       GiveBlock, EjectClose
  <2>3. fdc'.st = fdc.st /\ fdc'.op = fdc.op /\ fdc'.sec = fdc.sec
    BY <1>a, <2>1 DEF FdcTypes
  <2> QED BY <2>2, <2>3 DEF Busy
<1>c. calm /\ drive' = drive
  <2>1. CASE EjectClose
    BY <1>b, <2>1 DEF EjectClose
  <2>2. CASE ~EjectClose
    BY <1>b, <2>2 DEF Service, Serve, OpenWindow, TakeBlock, CloseTaken, Merge, ReadBlock,
       GiveBlock, EjectClose
  <2> QED BY <2>1, <2>2
<1>d. /\ live = sel /\ drive[sel] # NoImage /\ (fdc.op = "write" => Writable(drive[sel], opt))
      /\ AskedRight /\ HeldRight /\ StoringRight /\ StoredRight
  BY <1>a, <1>b, <1>c DEF Exchange, Stages
<1>e. Asking \/ Holding \/ Storing \/ Stored
  BY <1>a, <1>b DEF Asking, Holding, Storing, Stored, Busy, FdcTypes
<1>f. live' = sel
  BY <1>d DEF Service, Serve, OpenWindow, TakeBlock, CloseTaken, Merge, ReadBlock,
     GiveBlock, EjectClose
<1>g. SUFFICES Stages'
  BY <1>a, <1>b, <1>c, <1>d, <1>f DEF Exchange, Writable
<1>1. CASE Serve
  <2>1. /\ arm.pc = "top" /\ (fdc.rd \/ fdc.wr)
        /\ UNCHANGED <<fdc, buf, file>>
        /\ arm' = IF fdc.rd THEN [AtTop EXCEPT !.pc = "read", !.d = sel, !.b = BlockOf(fdc.sec)]
                  ELSE [AtTop EXCEPT !.pc = "take", !.d = sel, !.b = BlockOf(fdc.sec),
                           !.allow = Writable(drive[sel], opt) /\ Whole(drive[sel], BlockOf(fdc.sec))]
    BY <1>1, <1>d DEF Serve
  <2>2. fdc.wr => fdc.st = "flush"
    BY DEF Control, Requests, NoPhantomWrite
  <2>3. fdc.st = "flush" /\ ~fdc.wait => ~fdc.rd
    BY DEF Control, Requests
  <2>4. ~Holding /\ ~Stored
    BY <1>d, <2>1, <2>2, <2>3 DEF HeldRight, StoredRight, Holding, Stored
  <2>5. CASE Asking
    <3>1. fdc.rd
      BY <2>1, <2>2, <2>5 DEF Asking
    <3>2. arm'.pc = "read" /\ arm'.d = sel /\ arm'.b = BlockOf(fdc.sec)
      BY <2>1, <3>1 DEF AtTop
    <3> QED BY <1>b, <2>1, <2>5, <3>2 DEF Stages, AskedRight, HeldRight, StoringRight,
          StoredRight, Asking, Holding, Storing, Stored, Mine, BlockOf
  <2>6. CASE Storing
    <3>1. ~fdc.rd /\ fdc.op = "write"
      BY <1>a, <1>d, <2>6 DEF StoringRight, Storing, Ops
    <3>2. /\ arm'.pc = "take" /\ arm'.d = sel /\ arm'.b = BlockOf(fdc.sec)
          /\ arm'.allow = (Writable(drive[sel], opt) /\ Whole(drive[sel], BlockOf(fdc.sec)))
      BY <2>1, <3>1 DEF AtTop
    <3>3. Whole(drive[sel], BlockOf(fdc.sec)) => arm'.allow
      BY <1>d, <3>1, <3>2
    <3>4. Mixed'
      BY <1>b, <1>c, <1>d, <2>1, <2>6, MixedKept DEF StoringRight
    <3> QED BY <1>b, <1>c, <2>1, <2>6, <3>1, <3>2, <3>3, <3>4
          DEF Stages, AskedRight, HeldRight, StoringRight,
          StoredRight, Asking, Holding, Storing, Stored, Mine, BlockOf, Whole
  <2> QED BY <1>e, <2>4, <2>5, <2>6
<1>2. CASE OpenWindow("take", "copy")
  <2>1. /\ arm.pc = "take" /\ arm'.pc = "copy" /\ arm'.d = arm.d /\ arm'.b = arm.b
        /\ arm'.allow = arm.allow /\ ~fdc'.rd /\ ~fdc'.wr /\ fdc'.wait = fdc.wait
        /\ UNCHANGED <<buf, file>>
    BY <1>2, <1>a DEF OpenWindow, ArmTypes, FdcTypes
  <2>2. Storing /\ ~Asking /\ ~Holding /\ ~Stored
    BY <1>d, <1>e, <2>1 DEF AskedRight, HeldRight, StoredRight, Storing, Asking, Holding, Stored
  <2>3. Mixed' /\ Laid' = Laid
    BY <1>b, <1>c, <1>d, <2>1, <2>2, MixedKept DEF StoringRight
  <2> QED BY <1>b, <1>c, <1>d, <2>1, <2>2, <2>3
        DEF Stages, AskedRight, HeldRight, StoringRight,
            StoredRight, Asking, Holding, Storing, Stored, Mine, BlockOf, Whole
<1>3. CASE TakeBlock
  <2>1. /\ arm.pc = "copy" /\ arm'.pc = "close" /\ arm'.d = arm.d /\ arm'.b = arm.b
        /\ arm'.allow = arm.allow /\ arm'.blk = buf /\ arm'.rg = Laid
        /\ UNCHANGED <<fdc, buf, file>>
    BY <1>3, <1>a DEF TakeBlock, ArmTypes
  <2>2. Storing /\ ~Asking /\ ~Holding /\ ~Stored
    BY <1>d, <1>e, <2>1 DEF AskedRight, HeldRight, StoredRight, Storing, Asking, Holding, Stored
  <2>3. Mixed' /\ Laid' = Laid
    BY <1>b, <1>c, <1>d, <2>1, <2>2, MixedKept DEF StoringRight
  <2> QED BY <1>b, <1>c, <1>d, <2>1, <2>2, <2>3
        DEF Stages, AskedRight, HeldRight, StoringRight,
            StoredRight, Asking, Holding, Storing, Stored, Mine, BlockOf, Whole
<1>4. CASE CloseTaken
  <2>1. /\ arm.pc = "close" /\ ~fdc'.wait /\ fdc'.wr = fdc.wr /\ UNCHANGED <<buf, file>>
        /\ \/ /\ arm.allow /\ arm.rg # {}
              /\ arm'.pc = "merge" /\ arm'.d = arm.d /\ arm'.b = arm.b
              /\ arm'.rg = arm.rg /\ arm'.blk = arm.blk
           \/ ~(arm.allow /\ arm.rg # {}) /\ arm'.pc = "top"
    BY <1>4, <1>a DEF CloseTaken, WindowClosed, Nonempty, AtTop, ArmTypes, FdcTypes
  <2>2. Storing /\ ~Asking /\ ~Holding /\ ~Stored
    BY <1>d, <1>e, <2>1 DEF AskedRight, HeldRight, StoredRight, Storing, Asking, Holding, Stored
  <2>3. /\ Mine /\ arm.rg = Laid /\ arm.blk = buf /\ ~fdc.wr /\ Mixed
        /\ Whole(drive[sel], arm.b) => arm.allow
    BY <1>d, <2>1, <2>2 DEF StoringRight
  <2>6. Mixed' /\ Laid' = Laid
    BY <1>b, <1>c, <2>1, <2>3, MixedKept
  <2>4. Stored' /\ ~Asking' /\ ~Holding' /\ ~Storing'
    BY <1>b, <2>1, <2>2 DEF Stored, Storing, Asking, Holding
  <2>5. StoredRight'
    <3>1. CASE arm.allow /\ arm.rg # {}
      BY <1>b, <2>1, <2>3, <2>6, <3>1 DEF StoredRight, Mine, BlockOf
    <3>2. CASE ~(arm.allow /\ arm.rg # {})
      <4>1. ASSUME Whole(drive[sel], BlockOf(fdc.sec))
            PROVE  file[drive[sel]][fdc.sec] = buf[fdc.sec % 2]
        <5>1. range = {}
          <6>1. Laid = {}
            BY <2>3, <3>2, <4>1 DEF Mine
          <6>2. range \subseteq Place
            BY DEF Types, BufferType
          <6> QED BY <6>1, <6>2, LaidCovers
        <5>2. \A k \in Byte : buf[fdc.sec % 2][k] = BlockShown[fdc.sec % 2][k]
          <6>1. \A k \in Byte : <<fdc.sec % 2, k>> \in Place
            BY <1>a, Halves DEF Place
          <6> QED BY <2>3, <5>1, <6>1 DEF Mixed
        <5>3. drive[sel] \in Image /\ Size[drive[sel]] \in Nat
          BY <1>a, <1>d, FloppyAssumption
        <5>4. BlockShown[fdc.sec % 2] = file[drive[sel]][fdc.sec]
          BY <1>a, <4>1, <5>3, ShownInside DEF BlockShown
        <5>5. /\ buf[fdc.sec % 2] \in [Byte -> Val]
              /\ file[drive[sel]][fdc.sec] \in [Byte -> Val]
          BY <1>a, <5>3, Halves DEF Types, BufferType, FileType
        <5> QED BY <5>2, <5>4, <5>5
      <4>2. /\ Whole(drive'[sel'], BlockOf(fdc'.sec)) <=> Whole(drive[sel], BlockOf(fdc.sec))
            /\ file'[drive'[sel']][fdc'.sec] = file[drive[sel]][fdc.sec]
            /\ buf'[fdc'.sec % 2] = buf[fdc.sec % 2]
        BY <1>b, <1>c, <2>1
      <4> QED BY <2>1, <2>3, <3>2, <4>1, <4>2 DEF StoredRight, Whole, BlockOf
    <3> QED BY <3>1, <3>2
  <2> QED BY <2>4, <2>5 DEF Stages, AskedRight, HeldRight, StoringRight
<1>5. ASSUME NEW readOk \in BOOLEAN, NEW writeOk \in BOOLEAN, Merge(readOk, writeOk)
      PROVE  Stages'
  <2>1. /\ arm.pc = "merge" /\ arm'.pc = "top" /\ UNCHANGED <<fdc, buf>>
    BY <1>5 DEF Merge, AtTop
  <2>2. ~Holding /\ ~Storing
    BY <1>d, <2>1 DEF HeldRight, StoringRight
  <2>3. CASE Asking
    BY <2>1, <2>3 DEF Stages, AskedRight, HeldRight, StoringRight,
       StoredRight, Asking, Holding, Storing, Stored
  <2>4. CASE Stored
    <3> DEFINE i == drive[sel]
               s == fdc.sec
               new == [r \in Sector |-> Overlaid(i, r)]
    <3>1. Mine /\ arm.rg = Laid /\ arm.blk = buf /\ ~fdc.wr /\ Mixed
      BY <1>d, <2>1, <2>4 DEF StoredRight
    <3>2. file' = [file EXCEPT ![i] = new]
      BY <1>b, <1>5, <3>1 DEF Merge, Mine
    <3>3. i \in Image
      BY <1>a, <1>d
    <3>4. Whole(i, BlockOf(s)) => Overlaid(i, s) = buf[s % 2]
      BY <1>a, <1>d, <3>1, <3>3, OverlaidRight
    <3> HIDE DEF new
    <3>5. file'[i] = new
      BY <1>a, <3>2, <3>3 DEF FileType
    <3>6. Whole(i, BlockOf(s)) => file'[drive'[sel']][fdc'.sec] = buf'[fdc'.sec % 2]
      BY <1>a, <1>b, <1>c, <2>1, <3>4, <3>5 DEF new
    <3>7. Whole(i, BlockOf(s)) <=> Whole(drive[sel], BlockOf(fdc.sec))'
      BY <1>b, <1>c, <2>1 DEF Whole, BlockOf
    <3> QED BY <2>1, <2>4, <3>1, <3>6, <3>7 DEF Stages, AskedRight, HeldRight, StoringRight,
          StoredRight, Asking, Holding, Storing, Stored
  <2> QED BY <1>e, <2>2, <2>3, <2>4
<1>6. ASSUME NEW readOk \in BOOLEAN, ReadBlock(readOk) PROVE Stages'
  <2>1. /\ arm.pc = "read" /\ arm'.pc = "answer" /\ arm'.d = arm.d /\ arm'.b = arm.b
        /\ arm'.ok = (readOk /\ drive[arm.d] # NoImage)
        /\ UNCHANGED <<fdc, buf, file>>
    BY <1>a, <1>6 DEF ReadBlock, ArmTypes
  <2>2. readOk /\ drive[arm.d] # NoImage
    BY <1>6, <1>b DEF ReadBlock
  <2>3. arm'.ok /\ arm'.blk = Shown(drive[arm.d], arm.b)
    BY <1>a, <1>6, <2>1, <2>2 DEF ReadBlock, ArmTypes
  <2>4. Asking /\ Mine /\ ~Holding /\ ~Storing /\ ~Stored
    BY <1>d, <1>e, <2>1 DEF AskedRight, HeldRight, StoringRight, StoredRight
  <2>5. BlockShown' = BlockShown
    BY <1>b, <1>c, <2>1, ShownKept
  <2>6. arm'.blk = BlockShown' /\ Mine'
    BY <1>b, <2>1, <2>3, <2>4, <2>5 DEF Mine, BlockShown, BlockOf
  <2> QED BY <2>1, <2>3, <2>4, <2>6 DEF Stages, AskedRight, HeldRight, StoringRight,
        StoredRight, Asking, Holding, Storing, Stored
<1>7. CASE OpenWindow("answer", "give")
  <2>1. /\ arm.pc = "answer" /\ arm'.pc = "give" /\ arm'.d = arm.d /\ arm'.b = arm.b
        /\ arm'.ok = arm.ok /\ arm'.blk = arm.blk
        /\ ~fdc'.rd /\ ~fdc'.wr /\ fdc'.wait = fdc.wait
        /\ UNCHANGED <<buf, file>>
    BY <1>7, <1>a DEF OpenWindow, ArmTypes, FdcTypes
  <2>2. /\ Asking /\ ~Holding /\ ~Storing /\ ~Stored
        /\ Mine /\ arm.ok /\ arm.blk = BlockShown
    BY <1>d, <1>e, <2>1 DEF AskedRight, HeldRight, StoringRight, StoredRight
  <2>3. arm'.blk = BlockShown' /\ Mine' /\ arm'.ok
    BY <1>b, <1>c, <2>1, <2>2, ShownKept DEF Mine, BlockOf
  <2> QED BY <1>b, <2>1, <2>2, <2>3 DEF Stages, AskedRight, HeldRight, StoringRight,
        StoredRight, Asking, Holding, Storing, Stored
<1>8. CASE GiveBlock
  <2>1. /\ arm.pc = "give" /\ arm'.pc = "top" /\ ~fdc'.wait /\ fdc'.rd = fdc.rd
        /\ buf' = (IF arm.ok THEN arm.blk ELSE buf) /\ UNCHANGED file
    BY <1>8, <1>a DEF GiveBlock, WindowClosed, FdcTypes, AtTop
  <2>2. /\ Asking /\ ~Holding /\ ~Storing /\ ~Stored
        /\ arm.ok /\ arm.blk = BlockShown /\ ~fdc.rd
    BY <1>d, <1>e, <2>1 DEF AskedRight, HeldRight, StoringRight, StoredRight
  <2>4. buf' = BlockShown' /\ range' = {}
    BY <1>b, <1>c, <2>1, <2>2, ShownKept DEF Control, OwnHalf, Asking
  <2>3. Mixed'
    BY <2>4 DEF Mixed
  <2> QED BY <1>b, <2>1, <2>2, <2>3 DEF Stages, AskedRight, HeldRight, StoringRight,
        StoredRight, Asking, Holding, Storing, Stored
<1>9. ~EjectClose
  BY <1>b DEF EjectClose
<1> QED BY <1>1, <1>2, <1>3, <1>4, <1>5, <1>6, <1>7, <1>8, <1>9 DEF Service

LEMMA ExchangeAlways == Spec => [](Types /\ EInv)
<1>1. (Types /\ Control) /\ EInv /\ [Next]_vars => EInv'
  <2>1. EInv => LevelsKnown /\ Ops
    BY DEF EInv
  <2>2. (Types /\ Control) /\ EInv /\ [Next]_vars => Exchange'
    BY ExchangeMachine, ExchangeService, ExchangeUser DEF Next
  <2> QED BY <2>1, <2>2, LevelsStep, OpsStep DEF EInv
<1> QED BY <1>1, InitExchange, ControlAlways, PTL DEF Spec

-----------------------------------------------------------------------------
\* A command given outside any exchange broken off, whose block could be read and
\* whose drive keeps its image and its write option: at its sector the buffer
\* holds the image's bytes as the file has them, but those the machine has just
\* written, for every interleaving of commands, breaks, the ARM's turns and
\* failing reads and writes before it (wd1793.sv's one-block buffer filled by
\* disk_service 3895-4039).
THEOREM ReadRightAlways == Spec => []ReadRight
<1>1. Types /\ EInv => ReadRight
  <2> SUFFICES ASSUME Types, EInv, fdc.st \in {"read", "write"}, calm, NEW k \in Byte,
                      <<fdc.sec % 2, k>> \notin range
               PROVE  buf[fdc.sec % 2][k] = Shown(drive[sel], fdc.sec \div 2)[fdc.sec % 2][k]
    BY DEF ReadRight
  <2>1. HeldRight /\ Holding
    BY DEF EInv, Exchange, Stages, Busy, Holding
  <2>2. <<fdc.sec % 2, k>> \in Place
    BY Halves DEF Types, FdcTypes, Place
  <2> QED BY <2>1, <2>2 DEF HeldRight, Mixed, BlockShown, BlockOf
<1> QED BY <1>1, ExchangeAlways, PTL

\* When such a command's sector is reported written, the file has it, or the ARM
\* is about to merge it into the file, and no merge of it has failed (the merge
\* comes after the window has closed, 3962-3999).
THEOREM WriteKeptAlways == Spec => []WriteKept
<1>1. Types /\ EInv => WriteKept
  <2> SUFFICES ASSUME Types, EInv, fdc.st = "flush", ~fdc.wait, calm, drive[sel] # NoImage,
                      Whole(drive[sel], fdc.sec \div 2)
               PROVE  \/ file[drive[sel]][fdc.sec] = buf[fdc.sec % 2]
                      \/ /\ arm.pc = "merge" /\ arm.d = sel
                         /\ Overlaid(drive[sel], fdc.sec) = buf[fdc.sec % 2]
    BY DEF WriteKept
  <2>1. StoredRight /\ Stored
    BY DEF EInv, Exchange, Stages, Busy, Stored
  <2>2. drive[sel] \in Image
    BY DEF Types, BufferType, DiskType
  <2> QED BY <2>1, <2>2, OverlaidRight DEF StoredRight, Mine, BlockOf
<1> QED BY <1>1, ExchangeAlways, PTL

-----------------------------------------------------------------------------
(***************************************************************************)
(* Contents: from the machine's byte to the image file.                    *)
(***************************************************************************)

\* Value v may stand in byte k of sector s of image i.
Honest(i, s, k, v) ==
    \/ v = Original(i, s)[k]
    \/ <<i, s, k, v>> \in meant
    \/ <<i, s, k>> \in doubt

\* What is laid over block b of image i.
BlockHonest(i, b, rg, blk) ==
    \A p \in rg : 2 * b + p[1] \in Sector => Honest(i, 2 * b + p[1], p[2], blk[p[1]][p[2]])

\* ImageHonest alone says nothing of a block on its way to the file.
TakenHonest ==
    /\ arm.pc \in {"take", "copy"} /\ arm.allow => BlockHonest(drive[arm.d], arm.b, Laid, buf)
    /\ arm.pc \in {"close", "merge"} /\ arm.allow => BlockHonest(drive[arm.d], arm.b, arm.rg, arm.blk)

Contents == TakenHonest /\ ImageHonest

LEMMA InitContents == Init => Contents
BY DEF Init, Contents, TakenHonest, ImageHonest, IdleFdc, AtTop

\* What may stand somewhere may stand there for ever.
LEMMA Stable ==
    ASSUME meant \subseteq meant', doubt \subseteq doubt', UNCHANGED file
    PROVE  /\ ImageHonest => ImageHonest'
           /\ \A i, s, k, v : Honest(i, s, k, v) => Honest(i, s, k, v)'
           /\ \A i, b, rg, blk : BlockHonest(i, b, rg, blk) => BlockHonest(i, b, rg, blk)'
<1>1. \A i, s, k, v : Honest(i, s, k, v) => Honest(i, s, k, v)'
  BY DEF Honest, Original
<1> QED BY <1>1 DEF ImageHonest, Honest, Original, BlockHonest

\* While the ARM takes a block, nobody changes it; the machine may only forget
\* what it wrote of it.
LEMMA ContentsMachine == Types /\ Control /\ Contents /\ Machine => Contents'
<1> SUFFICES ASSUME Types, Control, Contents, Machine PROVE Contents'
  OBVIOUS
<1> USE DEF levels, ghosts, disk
<1>1. /\ UNCHANGED <<arm, drive, file, doubt>> /\ meant \subseteq meant'
      /\ \/ UNCHANGED <<buf, range>>
         \/ UNCHANGED buf /\ range' = {}
         \/ fdc.st = "write"
  <2>1. ASSUME NextSector PROVE UNCHANGED range \/ range' = {}
    BY <2>1 DEF NextSector
  <2>2. ASSUME NEW inTime \in BOOLEAN, WriteByte(inTime)
        PROVE  fdc.st = "write" /\ meant \subseteq meant' /\ UNCHANGED <<arm, drive, file, doubt>>
    BY <2>2 DEF WriteByte
  <2> QED BY <2>1, <2>2 DEF Machine, SelectDrive, Command, Fetched, ReadSector, Flushed, Abort
<1>2. ImageHonest' /\ \A i, b, rg, blk : BlockHonest(i, b, rg, blk) => BlockHonest(i, b, rg, blk)'
  BY <1>1, Stable DEF Contents
<1>3. CASE arm.pc \in {"take", "copy"}
  <2>1. Laid' = Laid \/ Laid' = {}
    <3>1. fdc.st # "write"
      BY <1>3 DEF Control, Serving
    <3> QED BY <1>1, <3>1 DEF Laid, Between
  <2>2. buf' = buf
    BY <1>1, <1>3 DEF Control, Serving
  <2>3. CASE Laid' = {}
    BY <1>1, <1>2, <1>3, <2>3 DEF Contents, TakenHonest, BlockHonest
  <2>4. CASE Laid' = Laid
    <3>1. ASSUME arm.allow PROVE BlockHonest(drive[arm.d], arm.b, Laid, buf)'
      <4>1. BlockHonest(drive[arm.d], arm.b, Laid, buf)
        BY <1>3, <3>1 DEF Contents, TakenHonest
      <4> QED BY <1>1, <2>2, <2>4, <4>1, Stable DEF BlockHonest
    <3> QED BY <1>1, <1>2, <1>3, <3>1 DEF Contents, TakenHonest
  <2> QED BY <2>1, <2>3, <2>4
<1>4. CASE arm.pc \notin {"take", "copy"}
  <2>1. ASSUME arm.pc \in {"close", "merge"}, arm.allow
        PROVE  BlockHonest(drive[arm.d], arm.b, arm.rg, arm.blk)'
    <3>1. BlockHonest(drive[arm.d], arm.b, arm.rg, arm.blk)
      BY <2>1 DEF Contents, TakenHonest
    <3> QED BY <1>1, <3>1, Stable DEF BlockHonest
  <2> QED BY <1>1, <1>2, <1>4, <2>1 DEF Contents, TakenHonest
<1> QED BY <1>3, <1>4

\* The block of a command no one disturbed is right as it stands; that of a
\* disturbed one is in doubt as far as it will be laid over the file.
LEMMA ServeHonest ==
    ASSUME Types, Control, EInv, ImageHonest, Serve, ~fdc.rd, fdc.wr,
           Writable(drive[sel], opt), Whole(drive[sel], BlockOf(fdc.sec))
    PROVE  BlockHonest(drive[sel], BlockOf(fdc.sec), Laid, buf)'
<1> DEFINE i == drive[sel]
           s == fdc.sec
<1>1. /\ fdc.st = "flush" /\ arm.pc = "top" /\ s \in Sector /\ range \subseteq Place
      /\ i \in Image /\ Size[i] \in Nat
  BY FloppyAssumption DEF Types, FdcTypes, BufferType, DiskType, Control, Requests, NoPhantomWrite, Serve, Writable
<1>2. /\ UNCHANGED <<fdc, sel, buf, range, drive, file, meant>> /\ Laid' = Laid
      /\ doubt' = IF ~calm THEN doubt \cup {<<i, s, p[2]>> : p \in Between(range)} ELSE doubt
  <2>1. UNCHANGED <<fdc, sel, buf, range, drive, file, meant>>
    BY DEF Serve, disk
  <2>2. doubt' = IF ~calm THEN doubt \cup {<<i, s, p[2]>> : p \in Between(range)} ELSE doubt
    BY DEF Serve
  <2> QED BY <2>1, <2>2 DEF Laid, Between
<1>3. ASSUME NEW p \in Laid
      PROVE  p \in Place /\ p[1] = s % 2 /\ 2 * BlockOf(s) + p[1] = s
  <2>1. p \in Place /\ \E q, r \in range : NotAfter(q, p) /\ NotAfter(p, r)
    BY <1>3 DEF Laid, Between
  <2>2. \A q \in range : q[1] = s % 2
    BY <1>1 DEF Control, OwnHalf
  <2>3. s % 2 \in {0, 1} /\ p[1] \in {0, 1} /\ 2 * BlockOf(s) + (s % 2) = s
    BY <1>1, <2>1, Halves DEF Place, Half, BlockOf
  <2>4. p[1] = s % 2
    BY <2>1, <2>2, <2>3 DEF NotAfter
  <2> QED BY <2>1, <2>3, <2>4
<1>4. ASSUME NEW p \in Laid PROVE Honest(i, s, p[2], buf[p[1]][p[2]])'
  <2>1. CASE ~calm
    <3>1. <<i, s, p[2]>> \in doubt'
      BY <1>2, <1>4, <2>1 DEF Laid
    <3> QED BY <3>1, <1>2 DEF Honest
  <2>2. CASE calm
    <3>1. Mixed
      <4>1. Stages /\ (Storing \/ Stored)
        BY <1>1, <2>2 DEF EInv, Exchange, Busy, Storing, Stored
      <4>2. ~Stored
        BY <4>1 DEF Stages, StoredRight
      <4> QED BY <4>1, <4>2 DEF Stages, StoringRight
    <3>2. CASE p \in range
      <4>1. <<i, s, p[2], buf[p[1]][p[2]]>> \in meant
        BY <1>3, <1>4, <3>1, <3>2 DEF Mixed
      <4> QED BY <1>2, <4>1 DEF Honest
    <3>3. CASE p \notin range
      <4>1. buf[p[1]][p[2]] = file[i][s][p[2]] /\ p[2] \in Byte
        <5>1. p \in Place /\ p[1] = s % 2
          BY <1>3, <1>4
        <5>2. buf[p[1]][p[2]] = BlockShown[p[1]][p[2]]
          BY <3>1, <3>3, <5>1 DEF Mixed
        <5>3. BlockShown[s % 2] = file[i][s]
          BY <1>1, ShownInside DEF BlockShown
        <5> QED BY <5>1, <5>2, <5>3 DEF Place
      <4>2. Honest(i, s, p[2], buf[p[1]][p[2]])
        BY <1>1, <4>1 DEF ImageHonest, Honest
      <4>3. doubt \subseteq doubt'
        BY <1>2
      <4> QED BY <1>2, <4>2, <4>3 DEF Honest, Original
    <3> QED BY <3>2, <3>3
  <2> QED BY <2>1, <2>2
<1>5. \A p \in Laid' : (2 * BlockOf(s) + p[1])' = s
  BY <1>2, <1>3 DEF BlockOf
<1> QED BY <1>2, <1>3, <1>4, <1>5 DEF BlockHonest, BlockOf

LEMMA ContentsService == Types /\ Control /\ EInv /\ Contents /\ Service => Contents'
<1> SUFFICES ASSUME Types, Control, EInv, Contents, Service PROVE Contents'
  OBVIOUS
<1> USE DEF levels, ghosts, disk
<1>a. /\ fdc \in FdcTypes /\ arm \in ArmTypes /\ fdc.sec \in Sector /\ FileType
  BY DEF Types, FdcTypes
<1>b. TakenHonest /\ ImageHonest
  BY DEF Contents
<1>1. CASE Serve
  <2>1. UNCHANGED <<fdc, sel, buf, range, drive, file, meant>> /\ doubt \subseteq doubt'
    BY <1>1 DEF Serve
  <2>2. ImageHonest'
    BY <1>b, <2>1, Stable
  <2>3. CASE fdc.rd
    BY <1>1, <2>2, <2>3 DEF Serve, AtTop, TakenHonest, Contents
  <2>4. CASE ~fdc.rd /\ fdc.wr
    <3>1. /\ arm'.pc = "take" /\ arm'.d = sel /\ arm'.b = BlockOf(fdc.sec)
          /\ arm'.allow = (Writable(drive[sel], opt) /\ Whole(drive[sel], BlockOf(fdc.sec)))
      BY <1>1, <2>4 DEF Serve, AtTop
    <3>2. ASSUME arm'.allow PROVE BlockHonest(drive[sel], BlockOf(fdc.sec), Laid, buf)'
      <4>1. Writable(drive[sel], opt) /\ Whole(drive[sel], BlockOf(fdc.sec))
        BY <3>1, <3>2
      <4> QED BY <1>1, <1>b, <2>4, <4>1, ServeHonest
    <3>3. (arm.d = sel /\ arm.b = BlockOf(fdc.sec))'
      BY <2>1, <3>1 DEF BlockOf
    <3> QED BY <2>2, <3>1, <3>2, <3>3 DEF TakenHonest, Contents
  <2>5. CASE ~fdc.rd /\ ~fdc.wr
    <3>1. arm' = arm /\ arm.pc = "top"
      BY <1>1, <2>5 DEF Serve
    <3> QED BY <2>2, <3>1 DEF TakenHonest, Contents
  <2> QED BY <2>3, <2>4, <2>5
<1>2. ASSUME NEW from, NEW to, <<from, to>> \in {<<"take", "copy">>, <<"answer", "give">>},
             OpenWindow(from, to)
      PROVE  Contents'
  <2>1. /\ arm.pc = from /\ arm'.pc = to /\ arm'.d = arm.d /\ arm'.b = arm.b
        /\ arm'.allow = arm.allow
        /\ UNCHANGED <<buf, range, drive, file, meant, doubt>>
    BY <1>a, <1>2 DEF OpenWindow, ArmTypes
  <2>2. BlockHonest(drive[arm.d], arm.b, Laid, buf) => BlockHonest(drive[arm.d], arm.b, Laid, buf)'
    BY <2>1 DEF BlockHonest, Honest, Original, Laid, Between
  <2> QED BY <1>b, <1>2, <2>1, <2>2, Stable DEF TakenHonest, Contents
<1>3. CASE TakeBlock
  <2>1. /\ arm.pc = "copy" /\ arm'.pc = "close" /\ arm'.d = arm.d /\ arm'.b = arm.b
        /\ arm'.blk = buf /\ arm'.rg = Laid /\ arm'.allow = arm.allow
        /\ UNCHANGED <<drive, file, meant, doubt>>
    BY <1>a, <1>3 DEF TakeBlock, ArmTypes
  <2>2. BlockHonest(drive[arm.d], arm.b, Laid, buf) =>
           BlockHonest(drive[arm.d], arm.b, arm.rg, arm.blk)'
    BY <2>1 DEF BlockHonest, Honest, Original
  <2> QED BY <1>b, <2>1, <2>2, Stable DEF TakenHonest, Contents
<1>4. CASE CloseTaken
  <2>1. /\ arm.pc = "close" /\ UNCHANGED <<drive, file, meant, doubt>>
        /\ \/ arm'.pc = "top"
           \/ /\ arm'.pc = "merge" /\ arm'.d = arm.d /\ arm'.b = arm.b /\ arm'.allow = arm.allow
              /\ arm'.blk = arm.blk /\ arm'.rg = arm.rg
    BY <1>a, <1>4 DEF CloseTaken, ArmTypes, AtTop
  <2>2. CASE arm'.pc = "top"
    BY <1>b, <2>1, <2>2, Stable DEF TakenHonest, Contents
  <2>3. CASE arm'.pc = "merge"
    <3>1. BlockHonest(drive[arm.d], arm.b, arm.rg, arm.blk) =>
             BlockHonest(drive[arm.d], arm.b, arm.rg, arm.blk)'
      BY <2>1, <2>3 DEF BlockHonest, Honest, Original
    <3> QED BY <1>b, <2>1, <2>3, <3>1, Stable DEF TakenHonest, Contents
  <2> QED BY <2>1, <2>2, <2>3
<1>5. ASSUME NEW readOk \in BOOLEAN, NEW writeOk \in BOOLEAN, Merge(readOk, writeOk) PROVE Contents'
  <2> DEFINE i == drive[arm.d]
             new == [s \in Sector |-> Overlaid(i, s)]
  <2>1. /\ arm.pc = "merge" /\ arm'.pc = "top" /\ UNCHANGED <<meant, doubt>>
        /\ file' = file \/ file' = [file EXCEPT ![i] = new]
    BY <1>5 DEF Merge, AtTop
  <2>2. i \in Image /\ arm.allow
    BY <2>1 DEF Control, Serving
  <2>3. ASSUME NEW s \in Sector, NEW k \in Byte PROVE Honest(i, s, k, Overlaid(i, s)[k])
    <3>1. CASE s \div 2 = arm.b /\ <<s % 2, k>> \in arm.rg
      <4>1. 2 * arm.b + (s % 2) = s
        BY <3>1, Halves
      <4>2. Honest(i, s, k, arm.blk[s % 2][k])
        BY <1>b, <2>1, <2>2, <3>1, <4>1 DEF TakenHonest, BlockHonest
      <4> QED BY <3>1, <4>2 DEF Overlaid
    <3>2. CASE ~(s \div 2 = arm.b /\ <<s % 2, k>> \in arm.rg)
      <4>1. Overlaid(i, s)[k] = file[i][s][k]
        BY <3>2 DEF Overlaid
      <4> QED BY <1>b, <2>2, <4>1 DEF ImageHonest, Honest
    <3> QED BY <3>1, <3>2
  <2>4. ImageHonest'
    <3>1. CASE file' = file
      BY <1>b, <2>1, <3>1, Stable
    <3>2. CASE file' = [file EXCEPT ![i] = new]
      <4>1. \A s \in Sector, k \in Byte : new[s][k] = Overlaid(i, s)[k]
        OBVIOUS
      <4>2. file'[i] = new /\ \A j \in Image \ {i} : file'[j] = file[j]
        <5> HIDE DEF new, i
        <5> QED BY <1>a, <2>2, <3>2 DEF FileType
      <4>3. ASSUME NEW j \in Image, NEW s \in Sector, NEW k \in Byte
            PROVE  Honest(j, s, k, file'[j][s][k])
        <5>1. CASE j = i
          BY <2>3, <4>1, <4>2, <5>1
        <5>2. CASE j # i
          BY <1>b, <4>2, <5>2 DEF ImageHonest, Honest
        <5> QED BY <5>1, <5>2
      <4> QED BY <2>1, <4>3 DEF ImageHonest, Honest, Original
    <3> QED BY <2>1, <3>1, <3>2
  <2> QED BY <2>1, <2>4 DEF TakenHonest, Contents
<1>6. ASSUME NEW readOk \in BOOLEAN, ReadBlock(readOk) PROVE Contents'
  <2>1. arm'.pc = "answer" /\ UNCHANGED <<file, meant, doubt>>
    BY <1>a, <1>6 DEF ReadBlock, ArmTypes
  <2> QED BY <1>b, <2>1, Stable DEF TakenHonest, Contents
<1>7. CASE GiveBlock \/ EjectClose
  <2>1. arm'.pc = "top" /\ UNCHANGED <<file, meant, doubt>>
    BY <1>7 DEF GiveBlock, EjectClose, AtTop
  <2> QED BY <1>b, <2>1, Stable DEF TakenHonest, Contents
<1> QED BY <1>1, <1>2, <1>3, <1>4, <1>5, <1>6, <1>7 DEF Service

LEMMA ContentsUser == Contents /\ (SyncIdle \/ User) => Contents'
<1> SUFFICES ASSUME Contents, SyncIdle \/ User PROVE Contents'
  OBVIOUS
<1>1. UNCHANGED <<file, meant, doubt>> /\ arm'.pc \in {"top", "eject"}
  BY DEF SyncIdle, User, ToggleWrites, EjectCheck, Mount, AtTop, ghosts, disk
<1> QED BY <1>1, Stable DEF TakenHonest, Contents

LEMMA ContentsAlways == Spec => []Contents
<1>1. (Types /\ Control) /\ (Types /\ EInv) /\ Contents /\ UNCHANGED vars => Contents'
  BY DEF vars, Contents, TakenHonest, BlockHonest, Honest, Original, Laid, Between, ImageHonest
<1>2. (Types /\ Control) /\ (Types /\ EInv) /\ Contents /\ [Next]_vars => Contents'
  BY <1>1, ContentsMachine, ContentsService, ContentsUser DEF Next
<1> QED BY <1>2, InitContents, ControlAlways, ExchangeAlways, PTL DEF Spec

\* A byte of an image file is the one it always had, one the machine wrote to
\* just that byte, or one a disturbed command had between the first and the last
\* it wrote (disk_service 3895-4039): whatever the machine breaks off or is too
\* late for, whichever drives it selects meanwhile, whenever images are put in
\* and taken out, and whatever f_read and f_write answer.
THEOREM ImageHonestAlways == Spec => []ImageHonest
<1>1. Contents => ImageHonest
  BY DEF Contents
<1> QED BY <1>1, ContentsAlways, PTL

-----------------------------------------------------------------------------
(* Induction and recursion over the naturals. *)
\* The library's induction theorems take the formula as an operator; this one
\* takes the set of the numbers it holds for.  The naturals are well ordered.
LEMMA LeastNat ==
    ASSUME NEW T, T \subseteq Nat, T # {}
    PROVE  \E m \in T : \A k \in T : m <= k
<1>1. OpToRel(<, Nat) = {ss \in Nat \X Nat : ss[1] < ss[2]}
  BY DEF OpToRel
<1>2. PICK m \in T : \A k \in T : ~ (<<k, m>> \in OpToRel(<, Nat))
  BY WFMin, NatLessThanWellFounded
<1>3. \A k \in T : ~(k < m)
  BY <1>1, <1>2
<1> QED BY <1>3

LEMMA Induction ==
    ASSUME NEW S, 0 \in S, \A n \in Nat : n \in S => n + 1 \in S
    PROVE  \A n \in Nat : n \in S
<1> DEFINE T == {n \in Nat : n \notin S}
<1> SUFFICES ASSUME T # {} PROVE FALSE
  OBVIOUS
<1>1. PICK m \in T : \A k \in T : m <= k
  BY LeastNat
<1>2. m # 0
  BY <1>1
<1>3. m - 1 \in Nat /\ m - 1 \notin T
  BY <1>1, <1>2
<1> QED BY <1>1, <1>3

\* Recursion: a function on 0 .. n that begins with c and goes on by D exists.
Goes(g, n, X, c, D) ==
    /\ g \in [0 .. n -> X] /\ g[0] = c
    /\ \A k \in 1 .. n : g[k] = D[k][g[k - 1]]

LEMMA Recursion ==
    ASSUME NEW n \in Nat, NEW X, NEW c \in X, NEW D \in [1 .. n -> [X -> X]]
    PROVE  \E g : Goes(g, n, X, c, D)
<1> DEFINE Upto(m, g) == Goes(g, m, X, c, D)
           S == {m \in Nat : m <= n => \E g : Upto(m, g)}
<1>1. 0 \in S
  <2>1. Upto(0, [k \in 0 .. 0 |-> c])
    BY DEF Goes
  <2> QED BY <2>1
<1>2. ASSUME NEW m \in Nat, m \in S  PROVE m + 1 \in S
  <2> SUFFICES ASSUME m + 1 <= n PROVE \E g : Upto(m + 1, g)
    OBVIOUS
  <2>1. PICK g : Upto(m, g)
    BY <1>2
  <2> DEFINE h == [k \in 0 .. m + 1 |-> IF k <= m THEN g[k] ELSE D[m + 1][g[m]]]
  <2>2. g[m] \in X /\ m + 1 \in 1 .. n
    BY <2>1 DEF Goes
  <2>3. D[m + 1][g[m]] \in X
    BY <2>2
  <2>4. h \in [0 .. m + 1 -> X] /\ h[0] = c
    BY <2>1, <2>3 DEF Goes
  <2>5. \A k \in 1 .. m + 1 : h[k] = D[k][h[k - 1]]
    BY <2>1 DEF Goes
  <2>6. Upto(m + 1, h)
    BY <2>4, <2>5 DEF Goes
  <2> QED BY <2>6
<1> HIDE DEF S
<1>3. n \in S
  BY <1>1, <1>2, Induction
<1> QED BY <1>3 DEF S

-----------------------------------------------------------------------------
(* The packed images. *)

\* The sectors of the first k files.
Sum(lens) == CHOOSE g : g = [k \in 0 .. Len(lens) |-> IF k = 0 THEN 0 ELSE g[k - 1] + lens[k]]

LEMMA SumDef ==
    ASSUME NEW lens \in Seq(Nat)
    PROVE  /\ Len(lens) \in Nat /\ Sum(lens)[0] = 0
           /\ \A k \in 0 .. Len(lens) : Sum(lens)[k] \in Nat
           /\ \A k \in 1 .. Len(lens) : Sum(lens)[k] = Sum(lens)[k - 1] + lens[k]
           /\ SumSeq(lens) = Sum(lens)[Len(lens)]
<1> DEFINE n == Len(lens)
           D == [k \in 1 .. n |-> [x \in Nat |-> x + lens[k]]]
           Is(g) == g = [k \in 0 .. Len(lens) |-> IF k = 0 THEN 0 ELSE g[k - 1] + lens[k]]
           S == {k \in Nat : k <= n => Sum(lens)[k] \in Nat}
<1>1. n \in Nat /\ \A k \in 1 .. n : lens[k] \in Nat
  OBVIOUS
<1>2. D \in [1 .. n -> [Nat -> Nat]]
  BY <1>1
<1>3. PICK g : Goes(g, n, Nat, 0, D)
  <2> HIDE DEF D, n
  <2>1. n \in Nat /\ 0 \in Nat /\ D \in [1 .. n -> [Nat -> Nat]]
    BY <1>1, <1>2
  <2> QED BY <2>1, Recursion
<1>4. \A k \in 1 .. n : g[k] = g[k - 1] + lens[k]
  <2> SUFFICES ASSUME NEW k \in 1 .. n  PROVE g[k] = g[k - 1] + lens[k]
    OBVIOUS
  <2> HIDE DEF D
  <2>1. k - 1 \in 0 .. n
    BY <1>1
  <2>2. g[k - 1] \in Nat /\ g[k] = D[k][g[k - 1]]
    BY <1>3, <2>1 DEF Goes
  <2> QED BY <2>2 DEF D
<1>5. Is(g)
  BY <1>3, <1>4 DEF Goes
<1>6. Is(Sum(lens))
  BY <1>5 DEF Sum
<1>7. 0 \in S
  BY <1>1, <1>6
<1>8. ASSUME NEW k \in Nat, k \in S  PROVE k + 1 \in S
  BY <1>1, <1>6, <1>8
<1>9. \A k \in Nat : k \in S
  <2> HIDE DEF S
  <2> QED BY <1>7, <1>8, Induction
<1>10. SumSeq(lens) = Sum(lens)[Len(lens)]
  BY DEF SumSeq, Sum
<1>11. \A k \in 0 .. n : Sum(lens)[k] \in Nat
  BY <1>1, <1>9
<1>12. \A k \in 1 .. n : Sum(lens)[k] = Sum(lens)[k - 1] + lens[k]
  BY <1>1, <1>6
<1>13. Sum(lens)[0] = 0
  BY <1>1, <1>6
<1> QED BY <1>1, <1>10, <1>11, <1>12, <1>13

\* The sum of the first m is that of the list cut off behind them.
LEMMA SumCut ==
    ASSUME NEW lens \in Seq(Nat), NEW n \in 0 .. Len(lens)
    PROVE  SumSeq(SubSeq(lens, 1, n)) = Sum(lens)[n]
<1> DEFINE cut == SubSeq(lens, 1, n)
           S == {k \in Nat : k <= n => Sum(cut)[k] = Sum(lens)[k]}
<1>1. cut \in Seq(Nat) /\ Len(cut) = n /\ \A k \in 1 .. n : cut[k] = lens[k]
  OBVIOUS
<1> HIDE DEF cut
<1>2. 0 \in S
  BY <1>1, SumDef
<1>3. ASSUME NEW k \in Nat, k \in S  PROVE k + 1 \in S
  <2> SUFFICES ASSUME k + 1 <= n  PROVE Sum(cut)[k + 1] = Sum(lens)[k + 1]
    OBVIOUS
  <2>1. k + 1 \in 1 .. n /\ k + 1 \in 1 .. Len(lens)
    BY SumDef
  <2>2. Sum(cut)[k + 1] = Sum(cut)[(k + 1) - 1] + cut[k + 1]
    BY <1>1, <2>1, SumDef
  <2>3. Sum(lens)[k + 1] = Sum(lens)[(k + 1) - 1] + lens[k + 1]
    BY <2>1, SumDef
  <2> QED BY <1>1, <1>3, <2>1, <2>2, <2>3
<1> HIDE DEF S
<1>4. n \in Nat
  BY SumDef
<1>5. n \in S
  BY <1>2, <1>3, <1>4, Induction
<1>6. Sum(cut)[n] = Sum(lens)[n]
  BY <1>4, <1>5 DEF S
<1> QED BY <1>1, <1>6, SumDef DEF cut

\* The parts of a list are no longer than the whole.
LEMMA SumGrows ==
    ASSUME NEW lens \in Seq(Nat), NEW n \in 0 .. Len(lens)
    PROVE  Sum(lens)[n] <= SumSeq(lens)
<1> DEFINE S == {k \in Nat : n + k <= Len(lens) => Sum(lens)[n] <= Sum(lens)[n + k]}
<1>1. 0 \in S
  BY SumDef
<1>2. ASSUME NEW k \in Nat, k \in S  PROVE k + 1 \in S
  <2> DEFINE j == n + (k + 1)
  <2> SUFFICES ASSUME j <= Len(lens)  PROVE Sum(lens)[n] <= Sum(lens)[j]
    OBVIOUS
  <2>1. j \in 1 .. Len(lens) /\ j - 1 = n + k /\ n \in 0 .. Len(lens) /\ j - 1 \in 0 .. Len(lens)
    BY SumDef
  <2> HIDE DEF j
  <2>2. Sum(lens)[j] = Sum(lens)[j - 1] + lens[j]
    BY <2>1, SumDef
  <2>3. lens[j] \in Nat /\ Sum(lens)[j - 1] \in Nat /\ Sum(lens)[n] \in Nat
    BY <2>1, SumDef
  <2>4. Sum(lens)[n] <= Sum(lens)[j - 1]
    BY <1>2, <2>1, SumDef
  <2> QED BY <2>2, <2>3, <2>4
<1> HIDE DEF S
<1>3. Len(lens) - n \in Nat /\ n + (Len(lens) - n) = Len(lens)
  BY SumDef
<1>4. Len(lens) - n \in S
  BY <1>1, <1>2, <1>3, Induction
<1> QED BY <1>3, <1>4, SumDef DEF S

PlaceAt(lens) == CHOOSE g : g = [k \in 0 .. Len(lens) |->
                  IF k = 0 THEN [sec |-> 0, trk |-> 1] ELSE SclNext(g[k - 1], lens[k])]

\* Where entry k + 1 starts, before its numbers are cut to 8 bits.
LEMMA PlaceDef ==
    ASSUME NEW lens \in Seq(Nat), NEW n \in 0 .. Len(lens)
    PROVE  /\ PlaceAt(lens)[n].sec = Sum(lens)[n] % 16
           /\ PlaceAt(lens)[n].trk = 1 + (Sum(lens)[n] \div 16)
           /\ SclPlaces(lens)[n] = [sec |-> PlaceAt(lens)[n].sec, trk |-> PlaceAt(lens)[n].trk % 256]
<1> DEFINE m == Len(lens)
           P == [sec : Nat, trk : Nat]
           p0 == [sec |-> 0, trk |-> 1]
           At(x) == [sec |-> x % 16, trk |-> 1 + (x \div 16)]
           D == [k \in 1 .. m |-> [x \in P |-> SclNext(x, lens[k])]]
           Is(g) == g = [k \in 0 .. Len(lens) |->
                           IF k = 0 THEN [sec |-> 0, trk |-> 1] ELSE SclNext(g[k - 1], lens[k])]
           S == {k \in Nat : k <= m => PlaceAt(lens)[k] = At(Sum(lens)[k])}
<1>1. m \in Nat /\ \A k \in 1 .. m : lens[k] \in Nat
  OBVIOUS
<1>2. \A x \in P, l \in Nat : SclNext(x, l) \in P
  BY DEF SclNext, PerTrack
<1>3. D \in [1 .. m -> [P -> P]]
  BY <1>1, <1>2
<1>4. p0 \in P
  OBVIOUS
<1>5. PICK g : Goes(g, m, P, p0, D)
  <2> HIDE DEF D, P, m, p0
  <2>1. m \in Nat /\ p0 \in P /\ D \in [1 .. m -> [P -> P]]
    BY <1>1, <1>3, <1>4
  <2> QED BY <2>1, Recursion
<1>6. \A k \in 1 .. m : g[k] = SclNext(g[k - 1], lens[k])
  <2> SUFFICES ASSUME NEW k \in 1 .. m  PROVE g[k] = SclNext(g[k - 1], lens[k])
    OBVIOUS
  <2> HIDE DEF P, D
  <2>1. k - 1 \in 0 .. m
    BY <1>1
  <2>2. g[k - 1] \in P /\ g[k] = D[k][g[k - 1]]
    BY <1>5, <2>1 DEF Goes
  <2> QED BY <2>2 DEF D
<1>7. Is(g)
  <2> HIDE DEF P
  <2> QED BY <1>5, <1>6 DEF Goes
<1>8. Is(PlaceAt(lens))
  <2>1. \E h : Is(h)
    BY <1>7
  <2>2. Is(CHOOSE h : Is(h))
    <3> HIDE DEF Is
    <3> QED BY <2>1
  <2> QED BY <2>2 DEF PlaceAt
<1>9. 0 \in S
  BY <1>8, SumDef
<1>10. ASSUME NEW k \in Nat, k \in S  PROVE k + 1 \in S
  <2> SUFFICES ASSUME k + 1 <= m  PROVE PlaceAt(lens)[k + 1] = At(Sum(lens)[k + 1])
    OBVIOUS
  <2>1. k + 1 \in 1 .. Len(lens) /\ k \in 0 .. Len(lens) /\ (k + 1) - 1 = k
    BY <1>1
  <2>2. PlaceAt(lens)[k + 1] = SclNext(PlaceAt(lens)[k], lens[k + 1])
    BY <1>8, <2>1
  <2>3. PlaceAt(lens)[k] = At(Sum(lens)[k])
    BY <1>10, <2>1
  <2>4. Sum(lens)[k + 1] = Sum(lens)[k] + lens[k + 1] /\ Sum(lens)[k] \in Nat /\ lens[k + 1] \in Nat
    BY <1>1, <2>1, SumDef
  <2>5. \A a, b \in Nat : SclNext(At(a), b) = At(a + b)
    <3> SUFFICES ASSUME NEW a \in Nat, NEW b \in Nat  PROVE SclNext(At(a), b) = At(a + b)
      OBVIOUS
    <3>1. ((a % 16) + b) % 16 = (a + b) % 16
      OBVIOUS
    <3>2. (1 + (a \div 16)) + (((a % 16) + b) \div 16) = 1 + ((a + b) \div 16)
      OBVIOUS
    <3> QED BY <3>1, <3>2 DEF SclNext, PerTrack
  <2> HIDE DEF At
  <2> QED BY <2>2, <2>3, <2>4, <2>5
<1>11. n \in Nat /\ n <= m
  BY <1>1
<1>12. n \in S
  <2> HIDE DEF S
  <2> QED BY <1>9, <1>10, <1>11, Induction
<1>13. SclPlaces(lens) =
         [k \in 0 .. Len(lens) |-> [sec |-> PlaceAt(lens)[k].sec, trk |-> PlaceAt(lens)[k].trk % 256]]
  BY DEF SclPlaces, PlaceAt
<1> QED BY <1>11, <1>12, <1>13

\* An accepted list fits the disk, so no number of the catalogue is cut.
LEMMA PlacesRight ==
    ASSUME NEW lens \in Seq(Nat), SclAccepted(lens), NEW k \in 0 .. Len(lens)
    PROVE  SclFetch(SclPlaces(lens)[k]) = SumSeq(SubSeq(lens, 1, k))
<1> DEFINE s == Sum(lens)[k]
<1>1. s \in Nat /\ s <= 2544
  <2>1. SumSeq(lens) \in Nat /\ SumSeq(lens) <= 2544
    <3>1. Len(lens) \in 0 .. Len(lens)
      BY SumDef
    <3> QED BY <3>1, SumDef DEF SclAccepted, FreeSectors
  <2>2. s \in Nat /\ s <= SumSeq(lens)
    BY SumDef, SumGrows
  <2> QED BY <2>1, <2>2
<1>2. SclPlaces(lens)[k] = [sec |-> s % 16, trk |-> (1 + (s \div 16)) % 256]
  <2>1. /\ PlaceAt(lens)[k].sec = s % 16 /\ PlaceAt(lens)[k].trk = 1 + (s \div 16)
        /\ SclPlaces(lens)[k] = [sec |-> PlaceAt(lens)[k].sec, trk |-> PlaceAt(lens)[k].trk % 256]
    BY PlaceDef
  <2> QED BY <2>1
<1> HIDE DEF s
<1>3. (1 + (s \div 16)) % 256 = 1 + (s \div 16)
  BY <1>1
<1>4. (16 * (1 + (s \div 16))) + (s % 16) = 16 + s
  BY <1>1
<1>5. (2 * (((16 + s) \div 2) - 8)) + ((16 + s) % 2) = s
  BY <1>1
<1>6. SclFetch(SclPlaces(lens)[k]) = s
  BY <1>2, <1>3, <1>4, <1>5 DEF SclFetch, PerTrack
<1> QED BY <1>6, SumCut DEF s

\* A drive holds a packed image only when its file was accepted.
Accepted == \A d \in Drive : drive[d] \in Scl => SclAccepted(SclFiles[drive[d]])

\* The catalogue made up for a packed image leads to every file's data (scl_build
\* and the sector arithmetic of disk_read_lba), for every list of files accepted.
THEOREM SclDirectoryTrueAlways == Spec => []SclDirectoryTrue
<1>1. Init => Accepted
  BY FloppyAssumption DEF Init, Accepted, NoImage
<1>2. ASSUME Accepted, [Next]_vars  PROVE Accepted'
  <2>1. \/ UNCHANGED drive
        \/ EjectClose
        \/ \E d \in Drive, i \in Image, accepted \in BOOLEAN : Mount(d, i, accepted)
    <3>1. \A m \in Mounts : m[1] \in Drive /\ m[2] \in Image
      BY FloppyAssumption
    <3> QED BY <1>2, <3>1
      DEF Next, Machine, Service, User, vars, disk, SelectDrive, Command, Fetched, ReadSector,
          WriteByte, Flushed, Abort, Serve, OpenWindow, TakeBlock, CloseTaken, Merge,
          ReadBlock, GiveBlock, SyncIdle, ToggleWrites, EjectCheck
  <2>2. CASE UNCHANGED drive
    BY <1>2, <2>2 DEF Accepted
  <2>3. CASE EjectClose
    BY <1>2, <2>3, FloppyAssumption DEF Accepted, EjectClose, NoImage
  <2>4. ASSUME NEW d \in Drive, NEW i \in Image, NEW accepted \in BOOLEAN, Mount(d, i, accepted)
        PROVE  Accepted'
    BY <1>2, <2>4, FloppyAssumption DEF Accepted, Mount, NoImage
  <2> QED BY <2>1, <2>2, <2>3, <2>4
<1>3. Accepted => SclDirectoryTrue
  BY PlacesRight, FloppyAssumption DEF Accepted, SclDirectoryTrue
<1> QED BY <1>1, <1>2, <1>3, PTL DEF Spec

=============================================================================
