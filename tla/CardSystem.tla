----------------------------- MODULE CardSystem -----------------------------
(***************************************************************************)
(* The card between its two users: the driver on the machine's side, which *)
(* exchanges bytes, and the ARM, which serves the card's requests          *)
(* (dmmc_pump, dm_serve_read, dm_serve_write).  All three run at their own *)
(* pace; the ARM sees the request flags through a synchroniser, but the    *)
(* number, the sector and the buffer as they are at the moment.            *)
(*                                                                         *)
(* disk is the mounted volume, what divmmc_backend_read and _write work on *)
(* (see SectorStore).  The driver is external: one that keeps to the SD    *)
(* protocol, with the commands of HostOps.                                 *)
(***************************************************************************)
EXTENDS DivmmcCard

CONSTANTS IMG,          \* g_dm_img_secs: sectors of the volume, at most CAP
          HostOps,      \* the commands the driver uses after initialisation
          MaxOps,       \* bound on their number
          LastSector,   \* a stream may run up to the card's last sector
          EagerStops,   \* a stream may be stopped before its first block
          MediumFails   \* the volume may refuse a sector, or a word of it get lost

ReadOps  == {"CMD9", "CMD17", "CMD18"}
WriteOps == {"CMD24", "CMD25"}

ASSUME SystemAssumption ==
    /\ IMG \in 1 .. CAP /\ MaxOps \in Nat
    /\ HostOps \subseteq ReadOps \cup WriteOps
    /\ {LastSector, EagerStops, MediumFails} \subseteq BOOLEAN

VARIABLES card,
          flag,   \* rrd_a[2], rwr_a[2]: the request flags the ARM sees
          arm,    \* the ARM in the pump
          disk,
          host    \* the driver

vars == <<card, flag, arm, disk, host>>

Sector  == 0 .. IMG - 1
Block   == [0 .. BLK - 1 -> {Byte("00"), Dat("p"), Dat("q")}]
Whole(v) == [i \in 0 .. BLK - 1 |-> v]

\* What a read of sector l should give: beyond the volume the card is zeros.
Content(l) == IF l \in Sector THEN disk[l] ELSE Whole(Byte("00"))

other(buf) == IF buf = "RDA" THEN "RDB" ELSE "RDA"

\* The ARM outside dm_serve_read and dm_serve_write: their locals are gone.
ArmIdle == [ph |-> "idle", kind |-> "rd", seq |-> 0, buf |-> "RDA", lba |-> 0,
            dat |-> Whole(Byte("00")), i |-> 0, err |-> FALSE]

\* The driver between two commands.
HostIdle(init, ops) == [ph |-> "idle", init |-> init, ops |-> ops, op |-> "none", arg |-> 0,
                        dat |-> Dat("p"), i |-> 0, got |-> <<>>, ok |-> FALSE]

Init ==
    /\ card \in {[InitCard EXCEPT !.wp = w] : w \in BOOLEAN}
    /\ flag = [rd |-> FALSE, wr |-> FALSE]
    /\ arm = ArmIdle
    /\ disk = [l \in Sector |-> Whole(IF l = 0 THEN Dat("p") ELSE Dat("q"))]
    /\ host = HostIdle("CMD0", 0)

-----------------------------------------------------------------------------
(* The ARM *)

Synchronise ==
    /\ flag # [rd |-> card.rq_rd, wr |-> card.rq_wr]
    /\ flag' = [rd |-> card.rq_rd, wr |-> card.rq_wr]
    /\ UNCHANGED <<card, arm, disk, host>>

\* dm_stat_rq, and the choice in dmmc_pump: reads first.
dm_stat_rq ==
    /\ arm.ph = "idle" /\ (flag.rd \/ flag.wr)
    /\ arm' = [arm EXCEPT !.ph = "lba", !.kind = IF flag.rd THEN "rd" ELSE "wr",
                          !.seq = card.rq_seq, !.buf = other(card.rbuf), !.i = 0]
    /\ UNCHANGED <<card, flag, disk, host>>

\* DMMC_LBA is read after DMMC_STAT.
read_lba ==
    /\ arm.ph = "lba"
    /\ arm' = [arm EXCEPT !.lba = card.lba, !.ph = IF arm.kind = "rd" THEN "fetch" ELSE "pull"]
    /\ UNCHANGED <<card, flag, disk, host>>

\* dm_serve_read: the sector from the volume, zeros between its end and the
\* card's, an error beyond.
backend_read ==
    /\ arm.ph = "fetch"
    /\ \/ /\ arm.lba < CAP
          /\ arm' = [arm EXCEPT !.dat = Content(arm.lba), !.err = FALSE, !.ph = "fill"]
       \/ /\ arm.lba >= CAP \/ MediumFails
          /\ arm' = [arm EXCEPT !.dat = Whole(Byte("00")), !.err = TRUE, !.ph = "fill"]
    /\ UNCHANGED <<card, flag, disk, host>>

\* dm_wrbuf: into the buffer the card does not send from, word by word.
dm_wrbuf ==
    /\ arm.ph = "fill"
    /\ card' = [card EXCEPT !.mem[arm.buf][arm.i] = arm.dat[arm.i]]
    /\ arm' = [arm EXCEPT !.i = @ + 1, !.ph = IF arm.i = BLK - 1 THEN "ackrd" ELSE @]
    /\ UNCHANGED <<flag, disk, host>>

ack_read ==
    /\ arm.ph = "ackrd"
    /\ card' = AckRead(card, arm.seq, arm.err, arm.buf)
    /\ arm' = [arm EXCEPT !.ph = "wait"]
    /\ UNCHANGED <<flag, disk, host>>

\* dm_serve_write: the sector out of the card's buffer, word by word.
pull ==
    /\ arm.ph = "pull"
    /\ arm' = [arm EXCEPT !.dat[arm.i] = card.mem.WR[arm.i], !.i = @ + 1,
                          !.ph = IF arm.i = BLK - 1 THEN "push" ELSE @]
    /\ UNCHANGED <<card, flag, disk, host>>

backend_write ==
    /\ arm.ph = "push"
    /\ \/ /\ arm.lba \in Sector
          /\ disk' = [disk EXCEPT ![arm.lba] = arm.dat]
          /\ arm' = [arm EXCEPT !.err = FALSE, !.ph = "ackwr"]
       \/ /\ arm.lba \notin Sector \/ MediumFails
          /\ arm' = [arm EXCEPT !.err = TRUE, !.ph = "ackwr"]
          /\ UNCHANGED disk
    /\ UNCHANGED <<card, flag, host>>

ack_write ==
    /\ arm.ph = "ackwr"
    /\ card' = AckWrite(card, arm.seq, arm.err)
    /\ arm' = [arm EXCEPT !.ph = "wait"]
    /\ UNCHANGED <<flag, disk, host>>

RequestUp(f, k) == IF k = "rd" THEN f.rd ELSE f.wr

\* The request's flag must drop before the next request is looked for ...
wait_drop ==
    /\ arm.ph = "wait" /\ ~RequestUp(flag, arm.kind)
    /\ arm' = ArmIdle
    /\ UNCHANGED <<card, flag, disk, host>>

ceilingWhenDropped ==
    /\ arm.ph = "wait" /\ RequestUp(flag, arm.kind)
    /\ ~RequestUp([rd |-> card.rq_rd, wr |-> card.rq_wr], arm.kind)
    /\ arm' = ArmIdle
    /\ UNCHANGED <<card, flag, disk, host>>

\* ... but after 2 ms the ARM gives up waiting; the synchroniser needs far
\* less, so the request itself is still up.
ceiling ==
    /\ arm.ph = "wait" /\ RequestUp(flag, arm.kind)
    /\ RequestUp([rd |-> card.rq_rd, wr |-> card.rq_wr], arm.kind)
    /\ arm' = ArmIdle
    /\ UNCHANGED <<card, flag, disk, host>>

Arm == dm_stat_rq \/ read_lba \/ backend_read \/ dm_wrbuf \/ ack_read
       \/ pull \/ backend_write \/ ack_write \/ wait_drop \/ ceiling

-----------------------------------------------------------------------------
(* The driver: it sends tx and gets card.out, and moves to the phase next *)

Exchange(tx, next) ==
    /\ card' = ByteStep(card, tx)
    /\ host' = next
    /\ UNCHANGED <<flag, arm, disk>>

To(ph) == IF ph = "idle" THEN HostIdle(host.init, host.ops) ELSE [host EXCEPT !.ph = ph, !.i = 0]

\* Initialisation: CMD0, then CMD55 and ACMD41 until the card is ready.
StartInit ==
    /\ host.ph = "idle" /\ host.init # "ready"
    /\ host' = [To("frame") EXCEPT !.op = host.init]
    /\ UNCHANGED <<card, flag, arm, disk>>

StartOp ==
    /\ host.ph = "idle" /\ host.init = "ready" /\ host.ops < MaxOps
    /\ \E op \in HostOps, l \in 0 .. CAP - 1, v \in {"p", "q"} :
           /\ op = "CMD18" => l + 1 < CAP \/ LastSector
           /\ op \in WriteOps \/ v = "p"
           /\ host' = [To("frame") EXCEPT !.op = op, !.arg = l, !.dat = Dat(v), !.ops = @ + 1]
    /\ UNCHANGED <<card, flag, arm, disk>>

SendFrame ==
    /\ host.ph = "frame"
    /\ IF host.i < FRAME - 1
       THEN Exchange(Frag, [host EXCEPT !.i = @ + 1])
       ELSE Exchange(Cmd(host.op, host.arg), To(IF host.op = "CMD12" THEN "stuff" ELSE "r1"))

\* The byte after a stop command is not looked at.
StuffByte == host.ph = "stuff" /\ Exchange(Idle, To("r1"))

AfterR1(v) ==
    CASE host.op = "CMD0"  -> [To("idle") EXCEPT !.init = "CMD55"]
      [] host.op = "CMD55" -> [To("idle") EXCEPT !.init = "CMD41"]
      [] host.op = "CMD41" -> [To("idle") EXCEPT !.init = IF v = "ok" THEN "ready" ELSE "CMD55"]
      [] host.op = "CMD12" -> To("busy")
      [] host.op \in ReadOps  /\ v = "ok" -> [To("token") EXCEPT !.got = <<>>]
      [] host.op \in WriteOps /\ v = "ok" -> To("put")
      [] OTHER -> To("idle")

AwaitR1 ==
    /\ host.ph = "r1"
    /\ Exchange(Idle, IF card.out.t = "R1" THEN AfterR1(card.out.v) ELSE host)

\* A driver that keeps off the card's end stops before its last sector.
MustStop == host.ph = "token" /\ host.op = "CMD18" /\ host.arg + 1 >= CAP /\ ~LastSector

AwaitToken ==
    /\ host.ph = "token" /\ ~MustStop
    /\ Exchange(Idle, CASE card.out.t = "FE"  -> [To("data") EXCEPT !.got = <<>>]
                        [] card.out.t = "ERR" -> To("idle")
                        [] OTHER              -> host)

ReceiveData ==
    /\ host.ph = "data"
    /\ LET len == IF host.op = "CMD9" THEN CSDLEN ELSE BLK
           got == Append(host.got, card.out)
       IN  Exchange(Idle, IF Len(got) = len THEN [To("crc") EXCEPT !.got = got]
                                            ELSE [host EXCEPT !.got = got])

ReceiveCrc ==
    /\ host.ph = "crc"
    /\ Exchange(Idle, IF host.i = 0 THEN [host EXCEPT !.i = 1]
                      ELSE IF host.op = "CMD18" THEN [To("token") EXCEPT !.arg = @ + 1]
                      ELSE To("idle"))

\* A stream is stopped at any byte, by a patient driver not before its first block.
StopStream ==
    /\ host.op = "CMD18" /\ host.ph \in {"token", "data", "crc"}
    /\ EagerStops \/ host.ph # "token" \/ host.got # <<>>
    /\ host' = [To("frame") EXCEPT !.op = "CMD12"]
    /\ UNCHANGED <<card, flag, arm, disk>>

PutBlock ==
    /\ host.ph = "put"
    /\ LET tx == CASE host.i = 0 -> Byte(IF host.op = "CMD25" THEN "FC" ELSE "FE")
                   [] host.i \in 1 .. BLK -> host.dat
                   [] OTHER -> Idle
       IN  Exchange(tx, IF host.i = BLK + 2 THEN To("resp") ELSE [host EXCEPT !.i = @ + 1])

AwaitResponse ==
    /\ host.ph = "resp"
    /\ Exchange(Idle, IF card.out.t \in {"E5", "ED"}
                      THEN [To("busy") EXCEPT !.ok = (card.out.t = "E5")] ELSE host)

AwaitReady ==
    /\ host.ph = "busy"
    /\ Exchange(Idle, IF card.out.t # "FF" THEN host
                      ELSE To(IF host.op = "CMD25" THEN "more" ELSE "idle"))

MoreOrStop ==
    /\ host.ph = "more"
    /\ \/ /\ host.arg + 1 < CAP
          /\ \E v \in {"p", "q"} :
                 host' = [To("put") EXCEPT !.arg = @ + 1, !.dat = Dat(v)]
          /\ UNCHANGED <<card, flag, arm, disk>>
       \/ Exchange(Byte("FD"), [To("busy") EXCEPT !.op = "STOP"])

HostByte == SendFrame \/ StuffByte \/ AwaitR1 \/ AwaitToken \/ ReceiveData \/ ReceiveCrc
            \/ PutBlock \/ AwaitResponse \/ AwaitReady

Host == StartInit \/ StartOp \/ HostByte \/ StopStream \/ MoreOrStop

Next == Synchronise \/ Arm \/ Host

Spec == Init /\ [][Next]_vars

-----------------------------------------------------------------------------
(* The card is changed while the machine runs (divmmc_service after the     *)
(* folder changed): the volume is opened anew, dmmc_program takes the card  *)
(* out, loads its CSD and puts it in, and the machine is restarted.  All    *)
(* between two rounds of the pump, but the machine goes on in between.      *)

TakeOut ==
    /\ arm.ph = "idle" /\ card.attached
    /\ card' = FsmReset(card)
    /\ \E v \in {"p", "q"} : disk' = [l \in Sector |-> Whole(Dat(v))]
    /\ UNCHANGED <<flag, arm, host>>

\* The CSD is written through dm_wrbuf, far slower than the synchroniser.
PutBack ==
    /\ ~card.attached
    /\ flag = [rd |-> card.rq_rd, wr |-> card.rq_wr]
    /\ card' \in {[card EXCEPT !.attached = TRUE, !.wp = w, !.mem.CSD = CSD] : w \in BOOLEAN}
    /\ host' = HostIdle("CMD0", host.ops)
    /\ UNCHANGED <<flag, arm, disk>>

\* While the card is out the ARM is in dmmc_program, not in the pump.
Pump == Arm /\ card.attached

NextWithRemounts == Pump \/ Synchronise \/ Host \/ TakeOut \/ PutBack

SpecWithRemounts == Init /\ [][NextWithRemounts]_vars

\* The driver keeps polling, the ARM keeps pumping and puts back a card it has
\* taken out, the flags get through.
Fairness ==
    /\ WF_vars(Synchronise) /\ WF_vars(Pump) /\ WF_vars(PutBack)
    /\ WF_vars(HostByte) /\ WF_vars(MoreOrStop) /\ WF_vars(StopStream /\ MustStop)

FairSpec == SpecWithRemounts /\ Fairness

-----------------------------------------------------------------------------
Block0 == host.ph = "crc" /\ host.i = 0
Given  == [i \in 0 .. Len(host.got) - 1 |-> host.got[i + 1]]

\* A block the driver has received is the sector it asked for, whole: never
\* the sector of an earlier request, never a buffer the ARM was still filling.
DeliveredRight ==
    Block0 /\ host.op # "CMD9" /\ card.attached => Given = Content(host.arg)

\* "Data accepted" is the truth: the volume holds the block that was sent.
WriteAnsweredTruly ==
    host.ph = "busy" /\ host.op \in WriteOps /\ host.ok /\ card.attached =>
        /\ host.arg \in Sector /\ ~card.wp
        /\ disk[host.arg] = Whole(host.dat)

\* The volume changes only by a write the driver is in the middle of: one
\* whole block that it sent, in the sector it named.
OnlyHostWrites ==
    [][disk' # disk /\ card'.attached =>
           /\ host.op \in WriteOps /\ host.ph \in {"put", "resp"}
           /\ disk' = [disk EXCEPT ![host.arg] = Whole(host.dat)]]_vars

\* The card owes every command an answer; it never sits idle while the driver
\* waits for one.
NeverDeaf ==
    ~ (card.attached /\ host.ph = "r1" /\ card.state = "S_IDLE" /\ card.out.t # "R1")

\* Every command the driver starts comes to its end, whatever the medium
\* refuses and whenever the card is taken out; but for the one stop command
\* that is never answered (see NeverDeaf).
OperationsEnd == (host.ph # "idle") ~> (host.ph = "idle" \/ ~NeverDeaf)

=============================================================================
