-------------------------------- MODULE Tape --------------------------------
(***************************************************************************)
(* The cassette player: the firmware turns a .tap, .tzx or decoded audio   *)
(* file into pulses and writes them into a ring, the 1 ms interrupt moves  *)
(* them into the fabric's FIFO, and the fabric replays them against the    *)
(* machine's own clock.  The main loop starts, feeds, drains and stops a   *)
(* tape; the interrupt and the fabric run at any moment between its steps. *)
(*                                                                         *)
(* A pulse is what one descriptor carries: duration in T-states, ear       *)
(* level, ROM mark and first-of-block mark.  Speed (FAST, SAFE, the slow   *)
(* tail, the MORE bit) and sound are left out: they change how fast pulses *)
(* are replayed, never which.                                              *)
(***************************************************************************)
EXTENDS Integers, Sequences, SequencesExt

CONSTANTS Tapes,          \* the files: [fmt, blocks] or [fmt, pulses]
          RING,           \* PR_LEN, 32768 pulses in the code
          Spare,          \* 8 places the producer leaves free
          PRIME,          \* TAPE_PRIME, 4096
          FIFO,           \* the fabric's FIFO, 2048 pulses
          BITS,           \* bits of a byte
          WORD,           \* the greatest 16-bit field, 65535
          WIRE,           \* durations a descriptor can hold, 2^24
          PilotHeader,    \* 8063 and 3223 pilot pulses
          PilotData,
          GUARD,          \* turns of tape_total_T, 400000 in the code
          STUCK,          \* the T-states of three seconds, 10500000
          MaxPauses,      \* bound on the user's pauses
          MaxOvers,       \* bound on the tapes started over a playing one
          Second          \* bound: which tapes are

(***************************************************************************)
(* Well-formed files.  A data block has bytes, the last of them with 1 to  *)
(* BITS used bits, a loop an end and nothing nested in it; lengths, counts *)
(* and pauses are 16-bit words.                                            *)
(***************************************************************************)
Word == 0 .. WORD
Bytes == Seq([1 .. BITS -> {0, 1}]) \ {<<>>}
Block ==
    [id : {"std"}, header : BOOLEAN, data : Bytes, ms : Word] \cup
    [id : {"turbo"}, pilot : Word, count : Word, sync : Word \X Word, bit : Word \X Word,
     used : 1 .. BITS, data : Bytes, ms : Word] \cup
    [id : {"tone"}, pilot : Word, count : Word] \cup
    [id : {"pulses"}, lens : Seq(Word)] \cup
    [id : {"data"}, bit : Word \X Word, used : 1 .. BITS, data : Bytes, ms : Word] \cup
    [id : {"pause"}, ms : Word] \cup
    [id : {"loop"}, times : Word] \cup
    [id : {"endloop", "info", "bad"}]
ClosedLoop(b, i, j) ==
    b[j].id = "endloop" /\ \A k \in i + 1 .. j - 1 : b[k].id \notin {"loop", "endloop", "bad"}
Looping(b) ==
    \A i \in 1 .. Len(b) : b[i].id = "loop" => \E j \in i + 1 .. Len(b) : ClosedLoop(b, i, j)
Duration == 0 .. WIRE - 1
Pulse == [dur : Duration, lvl : {0, 1}, rom : BOOLEAN, first : BOOLEAN]
TapeFile ==
    [fmt : {"blocks"}, blocks : {b \in Seq(Block) : Looping(b)}] \cup
    [fmt : {"list"}, pulses : Seq(Pulse)]

ASSUME TapeAssumption ==
    /\ RING \in Nat /\ Spare \in Nat /\ FIFO \in Nat \ {0} /\ BITS \in Nat \ {0}
    /\ WORD \in Nat /\ WIRE \in Nat /\ 2168 <= WORD /\ WORD < WIRE
    /\ PRIME \in 1 .. RING - Spare
    /\ PilotHeader \in Nat \ {0} /\ PilotData \in Nat \ {0} /\ GUARD \in Nat
    /\ \A t \in DOMAIN Tapes : Tapes[t] \in TapeFile
    /\ STUCK \in Nat /\ MaxPauses \in Nat /\ MaxOvers \in Nat

VARIABLES
    at,      \* the main loop: "top", in tape_start or wav_start "starting",
             \* in a draining tape_pump "decide", or "fed" after an interrupt there
    tape,    \* the file in g_tapbuf or g_pd
    seg,     \* the producer: g_blk_ptr, loop, g_phase and its counters
    lvl,     \* g_ear_lvl
    on,      \* g_tape_on
    drain,   \* g_tape_drain
    ring,    \* pr_buf from pr_r to pr_w
    feed,    \* g_tape_feed
    primed,  \* g_tape_primed
    played,  \* g_tape_played_T
    moved,   \* played has changed since tape_pump looked
    since,   \* T-states played since the last delivery, at most and up to STUCK
    late,    \* three seconds have passed since g_drain_t0
    run,     \* TAPE_CTRL bit 0
    fifo,    \* the fabric's queue
    wire,    \* the pulse being played, if any
    halted,  \* the machine stands (pause, card operation)
    pauses,  \* pauses so far
    overs,   \* tapes started over a playing one so far
    heard,   \* ghost: the tape's pulses put on the wire since it was started
    stale,   \* ghost: pulses of the tape before at the head of the FIFO
    extra,   \* ghost: what played counts of the tape before
    lost,    \* ghost: the pulses in the FIFO when the player ended the tape
    fate     \* ghost: "none", "loading", "mute", "stopped" or "ended"

producer == <<tape, seg, lvl>>
feeder   == <<ring, feed, primed, played>>
timer    == <<moved, since, late>>
fabric   == <<run, fifo, wire>>
pause    == <<halted, pauses, overs>>
ghosts   == <<heard, stale, extra, lost, fate>>
vars == <<at, producer, on, drain, feeder, timer, fabric, pause, ghosts>>

(***************************************************************************)
(* A file as the producer walks it.  Blocks that only steer (loop start    *)
(* and end, text, groups) are passed over; a truncated or unknown block    *)
(* ends the tape.                                                          *)
(***************************************************************************)
Blocks(t) == Tapes[t].blocks
Listed(t) == Tapes[t].fmt = "list"

\* Where the walk is: the next block, the passes of the loop still to come (this
\* one counted) and where its body begins.
Walker == (Nat \ {0}) \X Nat \X (Nat \ {0})
Steers(t, w) ==
    w[1] <= Len(Blocks(t)) /\ Blocks(t)[w[1]].id \in {"loop", "endloop", "info"}
Turn(t, w) ==
    LET b == Blocks(t)[w[1]]
    IN  CASE b.id = "loop"                 -> <<w[1] + 1, b.times, w[1] + 1>>
          [] b.id = "endloop" /\ w[2] > 1 -> <<w[3], w[2] - 1, w[3]>>
          [] OTHER                         -> <<w[1] + 1, w[2], w[3]>>
Seek(t, w) ==
    LET seek[x \in Walker] == IF Steers(t, x) THEN seek[Turn(t, x)] ELSE x
    IN  seek[w]

Ends(t, ptr) == ptr > Len(Blocks(t)) \/ Blocks(t)[ptr].id = "bad"

PilotLen(b) == IF b.id = "std" THEN 2168 ELSE b.pilot
Pilots(b) == IF b.id = "std" THEN (IF b.header THEN PilotHeader ELSE PilotData) ELSE b.count
Sync(b) == IF b.id = "std" THEN <<667, 735>> ELSE b.sync
BitLen(b, bit) == IF b.id = "std" THEN (IF bit = 1 THEN 1710 ELSE 855) ELSE b.bit[bit + 1]
Used(b) == IF b.id = "std" THEN BITS ELSE b.used
Kept(b, i) == IF i = Len(b.data) THEN Used(b) ELSE BITS

Wire(d) == d % WIRE
MS == 3500
\* In T-states: a pause block of 0 ms stands for half a second.
PauseLen(b) == CASE b.id \in {"tone", "pulses"} -> 0
                 [] b.id = "pause" /\ b.ms = 0 -> 500 * MS
                 [] OTHER -> b.ms * MS

\* tape_total_T: the replay time of the file, block by block.
SumOf(s) ==
    LET sum[k \in 0 .. Len(s)] == IF k = 0 THEN 0 ELSE sum[k - 1] + s[k]
    IN  sum[Len(s)]
Durations(s) == [i \in 1 .. Len(s) |-> s[i].dur]
DataTWhole(b) == SumOf([i \in 1 .. Len(b.data) |->
                   SumOf([k \in 1 .. BITS |-> 2 * BitLen(b, b.data[i][k])])])
DataT(b) == SumOf([i \in 1 .. Len(b.data) |->
              SumOf([k \in 1 .. Kept(b, i) |-> 2 * BitLen(b, b.data[i][k])])])
BlockT(b) ==
    Wire(PauseLen(b)) +
    CASE b.id \in {"std", "turbo"} -> Pilots(b) * PilotLen(b) + SumOf(Sync(b)) + DataT(b)
      [] b.id = "tone"   -> b.count * b.pilot
      [] b.id = "pulses" -> SumOf(b.lens)
      [] b.id = "data"   -> DataT(b)
      [] b.id = "pause"  -> 0
\* A turn of its loop takes one block, one that only steers too.
TotalTurn(t) ==
    [x \in [w : Walker, T : Nat] |->
        LET b == Blocks(t)[x.w[1]]
        IN  CASE Ends(t, x.w[1]) -> x
              [] Steers(t, x.w)  -> [x EXCEPT !.w = Turn(t, @)]
              [] OTHER           -> [w |-> <<x.w[1] + 1, x.w[2], x.w[3]>>, T |-> x.T + BlockT(b)]]
Totalled(t) ==
    LET total[n \in 0 .. GUARD] ==
          IF n = 0 THEN [w |-> <<1, 0, 1>>, T |-> 0] ELSE TotalTurn(t)[total[n - 1]]
    IN  total[GUARD]
Total(t) == IF Listed(t) THEN SumOf(Durations(Tapes[t].pulses)) ELSE Totalled(t).T
\* A divisor later on, so never nothing.
tape_total_T(t) == IF Total(t) = 0 THEN 1 ELSE Total(t)

\* Each file takes some time, and ends within the turns tape_total_T gives it.
Short ==
    \A t \in DOMAIN Tapes : Total(t) # 0 /\ (Listed(t) \/ Ends(t, Totalled(t).w[1]))

(***************************************************************************)
(* tape_load_seg: the next block that plays, or tape_done.                 *)
(***************************************************************************)
NoSeg == [ptr |-> 1, cnt |-> 0, start |-> 1, blk |-> 0, phase |-> 0, left |-> 0,
          byte |-> 1, bit |-> 1, half |-> 0, rom |-> FALSE, first |-> FALSE]

StartPhase(b) ==
    CASE b.id = "std"    -> 1
      [] b.id = "turbo"  -> IF b.count > 0 THEN 1 ELSE 2
      [] b.id = "tone"   -> IF b.count > 0 THEN 1 ELSE 5
      [] b.id = "pulses" -> IF b.lens # <<>> THEN 6 ELSE 5
      [] b.id = "data"   -> 4
      [] b.id = "pause"  -> 5
StartsBlock(b) == b.id \in {"std", "turbo", "data"} \/ StartPhase(b) \in {1, 6}

Load(t, sg) ==
    LET n == Seek(t, <<sg.ptr, sg.cnt, sg.start>>)
        walked == [sg EXCEPT !.ptr = n[1], !.cnt = n[2], !.start = n[3]]
    IN  IF Ends(t, n[1]) THEN [walked EXCEPT !.phase = 0]
        ELSE LET b == Blocks(t)[n[1]] IN
             [walked EXCEPT !.ptr = n[1] + 1, !.blk = n[1], !.phase = StartPhase(b),
                 !.left = IF b.id \in {"std", "turbo", "tone"} THEN Pilots(b) ELSE 0,
                 !.byte = 1, !.bit = 1, !.half = 0,
                 !.rom = (b.id = "std"), !.first = StartsBlock(b)]

\* tape_load_seg as tape_start and the producer call it: seg', and drain when
\* the file is at its end (tape_done, which also starts the drain's clock).
tape_load_seg(sg) ==
    /\ seg' = Load(tape', sg)
    /\ IF seg'.phase = 0 THEN drain' = TRUE /\ late' = FALSE ELSE UNCHANGED <<drain, late>>

Init ==
    /\ at = "top" /\ tape \in DOMAIN Tapes /\ seg = NoSeg /\ lvl = 0
    /\ on = FALSE /\ drain = FALSE
    /\ ring = <<>> /\ feed = FALSE /\ primed = FALSE /\ played = 0
    /\ moved = FALSE /\ since = 0 /\ late = FALSE
    /\ run = FALSE /\ fifo = <<>> /\ wire = <<>>
    /\ halted = FALSE /\ pauses = 0 /\ overs = 0
    /\ heard = <<>> /\ stale = 0 /\ extra = 0 /\ lost = <<>> /\ fate = "none"

(***************************************************************************)
(* tape_pump, producing: one pulse per turn of its loop.  Pausing the      *)
(* machine stops the producer too.                                         *)
(***************************************************************************)
Pumping == at = "top" /\ on /\ ~halted
Producing(phase) ==
    /\ Pumping /\ ~drain /\ ~Listed(tape)
    /\ Len(ring) + Spare < RING
    /\ seg.phase = phase
ThisBlock == Blocks(tape)[seg.blk]

tape_push_pulse(dur, rom) ==
    /\ ring' = Append(ring, [dur |-> Wire(dur), lvl |-> lvl, rom |-> rom, first |-> seg.first])
    /\ lvl' = 1 - lvl
Pushed(sg) == [sg EXCEPT !.first = FALSE]

\* tape_push_gap_pulse: silence is never held back for the ROM.
GapRom(sg) == FALSE

unproduced == <<at, tape, on, feed, primed, played, moved, since, fabric, pause, ghosts>>

Pilot ==
    /\ Producing(1) /\ tape_push_pulse(PilotLen(ThisBlock), seg.rom)
    /\ seg' = [Pushed(seg) EXCEPT !.left = @ - 1,
                 !.phase = IF seg.left > 1 THEN 1 ELSE IF ThisBlock.id = "tone" THEN 5 ELSE 2]
    /\ UNCHANGED <<unproduced, drain, late>>

SyncPulse(k) ==
    /\ Producing(1 + k) /\ tape_push_pulse(Sync(ThisBlock)[k], seg.rom)
    /\ seg' = [Pushed(seg) EXCEPT !.phase = 2 + k]
    /\ UNCHANGED <<unproduced, drain, late>>

\* Two equal halves per bit; the last byte only has its used bits.
DataPulse ==
    LET b == ThisBlock
    IN
    /\ Producing(4) /\ tape_push_pulse(BitLen(b, b.data[seg.byte][seg.bit]), seg.rom)
    /\ seg' = IF seg.half = 0 THEN [Pushed(seg) EXCEPT !.half = 1]
              ELSE IF seg.bit < Kept(b, seg.byte) THEN [Pushed(seg) EXCEPT !.half = 0, !.bit = @ + 1]
              ELSE [Pushed(seg) EXCEPT !.half = 0, !.bit = 1, !.byte = @ + 1,
                      !.phase = IF seg.byte = Len(b.data) THEN 5 ELSE 4]
    /\ UNCHANGED <<unproduced, drain, late>>

ListedPulse ==
    /\ Producing(6) /\ tape_push_pulse(ThisBlock.lens[seg.byte], seg.rom)
    /\ seg' = [Pushed(seg) EXCEPT !.byte = @ + 1,
                 !.phase = IF seg.byte = Len(ThisBlock.lens) THEN 5 ELSE 6]
    /\ UNCHANGED <<unproduced, drain, late>>

Gap ==
    /\ Producing(5) /\ UNCHANGED unproduced
    /\ IF PauseLen(ThisBlock) > 0
       THEN tape_push_pulse(PauseLen(ThisBlock), GapRom(seg)) /\ tape_load_seg(Pushed(seg))
       ELSE UNCHANGED <<ring, lvl>> /\ tape_load_seg(seg)

\* wav_tape_pump, mp3_tape_pump: the list made at the start, as it stands.
Copy ==
    /\ Pumping /\ ~drain /\ Listed(tape) /\ Len(ring) + Spare < RING
    /\ IF seg.ptr > Len(Tapes[tape].pulses)
       THEN drain' = TRUE /\ late' = FALSE /\ UNCHANGED <<ring, seg>>
       ELSE /\ ring' = Append(ring, Tapes[tape].pulses[seg.ptr])
            /\ seg' = [seg EXCEPT !.ptr = @ + 1]
            /\ UNCHANGED <<drain, late>>
    /\ UNCHANGED <<unproduced, lvl>>

Produce == Pilot \/ SyncPulse(1) \/ SyncPulse(2) \/ DataPulse \/ ListedPulse \/ Gap \/ Copy

(***************************************************************************)
(* tape_pump, draining: the tape is over when ring and fabric are empty,   *)
(* or when nothing has moved for three seconds and the ring is empty.      *)
(***************************************************************************)
Drained == ring = <<>> /\ wire = <<>> /\ fifo = <<>>
StuckQueued == late
Stuck == ring = <<>> /\ late

Released == feed' = FALSE /\ run' = FALSE /\ on' = FALSE /\ drain' = FALSE

\* An interrupt, one at most, may come between the look at what was delivered
\* and the look at the ring.
DrainLook ==
    /\ Pumping /\ drain
    /\ at' = "decide" /\ moved' = FALSE /\ late' = (late /\ ~moved)
    /\ UNCHANGED <<producer, on, drain, feeder, since, fabric, pause, ghosts>>

\* What the player still holds is thrown away with the tape.
Own(s) == SubSeq(s, stale + 1, Len(s))
DrainDecide ==
    /\ at \in {"decide", "fed"} /\ at' = "top"
    /\ IF Drained \/ Stuck
       THEN /\ Released /\ played' = tape_total_T(tape)
            /\ IF fate = "loading" THEN fate' = "ended" /\ lost' = Own(fifo)
                                   ELSE UNCHANGED <<fate, lost>>
       ELSE UNCHANGED <<feed, run, on, drain, played, fate, lost>>
    /\ UNCHANGED <<producer, ring, primed, timer, fifo, wire, pause, heard, stale, extra>>

(***************************************************************************)
(* tape_isr_feed: wait for a cushion, then fill the FIFO.                  *)
(***************************************************************************)
CushionedFull == primed \/ Len(ring) >= PRIME
Cushioned == primed \/ (ring # <<>> /\ (Len(ring) >= PRIME \/ drain))

Passed(n) == IF n < STUCK THEN n ELSE STUCK
Feed ==
    LET room == FIFO - Len(fifo)
        k == IF Len(ring) < room THEN Len(ring) ELSE room
        sent == SubSeq(ring, 1, k)
    IN
    /\ feed /\ Cushioned /\ (k > 0 \/ ~primed)
    /\ at # "fed" /\ at' = IF at = "decide" THEN "fed" ELSE at
    /\ primed' = TRUE
    /\ fifo' = fifo \o sent /\ ring' = SubSeq(ring, k + 1, Len(ring))
    /\ played' = played + SumOf(Durations(sent))
    /\ moved' = (moved \/ k > 0)
    /\ since' = IF k > 0 THEN Passed(SumOf(Durations(wire))) ELSE since
    /\ UNCHANGED <<producer, on, drain, feed, late, run, wire, pause, ghosts>>

(***************************************************************************)
(* tape_player: one pulse after the other while running; stopped, it       *)
(* throws away what is queued.                                             *)
(***************************************************************************)
Play ==
    /\ run /\ ~halted /\ fifo # <<>>
    /\ fifo' = Tail(fifo) /\ wire' = <<Head(fifo)>>
    /\ IF stale > 0 THEN stale' = stale - 1 /\ UNCHANGED heard
                    ELSE heard' = Append(heard, Head(fifo)) /\ UNCHANGED stale
    /\ since' = Passed(since + Head(fifo).dur)
    /\ UNCHANGED <<at, producer, on, drain, feeder, moved, late, run, pause, extra, lost, fate>>

Fall ==
    /\ run /\ ~halted /\ fifo = <<>> /\ wire # <<>>
    /\ wire' = <<>>
    /\ UNCHANGED <<at, producer, on, drain, feeder, timer, run, fifo, pause, ghosts>>

Discard ==
    /\ ~run /\ (wire # <<>> \/ fifo # <<>>)
    /\ fifo' = <<>> /\ wire' = <<>> /\ stale' = 0
    /\ UNCHANGED <<at, producer, on, drain, feeder, timer, run, pause, heard, extra, lost, fate>>

(***************************************************************************)
(* The user.  tape_start and wav_start first take the file and reset the   *)
(* producer, then reset and drive the machine for some seconds, and only   *)
(* then empty the ring and let the interrupt and the player go.  Neither   *)
(* stops a tape that plays: its pulses go on into the player meanwhile,    *)
(* and a drain that tape_start finds is never taken back.                  *)
(***************************************************************************)
Start(t) ==
    /\ at = "top" /\ (on => overs < MaxOvers /\ t \in Second)
    /\ at' = "starting" /\ tape' = t /\ seg' = NoSeg /\ lvl' = 0
    /\ overs' = IF on THEN overs + 1 ELSE overs
    /\ on' = TRUE /\ played' = 0 /\ fate' = "none"
    /\ moved' = (moved \/ played # 0)
    /\ IF Listed(t)
       THEN drain' = FALSE /\ feed' = FALSE /\ ring' = <<>> /\ primed' = FALSE
       ELSE UNCHANGED <<drain, feed, ring, primed>>
    /\ UNCHANGED <<since, late, fabric, halted, pauses, heard, stale, extra, lost>>

KeptRing == UNCHANGED ring
FreshRing == ring' = <<>>

\* A stopped player has thrown its queue away long before; one that was left
\* running plays on what it has.
Armed ==
    /\ at = "starting" /\ (run \/ (fifo = <<>> /\ wire = <<>>))
    /\ at' = "top" /\ UNCHANGED tape
    /\ FreshRing /\ feed' = TRUE /\ primed' = FALSE /\ run' = TRUE
    /\ IF Listed(tape) THEN played' = 0 /\ UNCHANGED <<seg, drain, late>>
       ELSE tape_load_seg(seg) /\ UNCHANGED played
    /\ heard' = <<>> /\ stale' = Len(fifo) /\ extra' = played' /\ lost' = <<>>
    /\ fate' = IF drain THEN "mute" ELSE "loading"
    /\ UNCHANGED <<lvl, on, moved, since, fifo, wire, pause>>

tape_stop ==
    /\ at = "top" /\ on /\ Released
    /\ ring' = <<>> /\ seg' = [seg EXCEPT !.phase = 0] /\ fate' = "stopped"
    /\ UNCHANGED <<at, tape, lvl, primed, played, timer, fifo, wire, pause, heard, stale, extra, lost>>

\* pause_toggle, sdop_freeze_begin and sdop_freeze_end.
Pause ==
    /\ at = "top" /\ ~halted /\ pauses < MaxPauses
    /\ halted' = TRUE /\ pauses' = pauses + 1
    /\ UNCHANGED <<overs, at, producer, on, drain, feeder, timer, fabric, ghosts>>
Resume ==
    /\ at = "top" /\ halted /\ halted' = FALSE
    /\ UNCHANGED <<at, producer, on, drain, feeder, timer, fabric, pauses, overs, ghosts>>

\* Three seconds without a pulse delivered: there is none to deliver or no room
\* for one, and the machine stands, the player waits for the ROM to ask for the
\* block it has begun (SYNC LOADER), or has played for as long.
Gated == wire # <<>> /\ wire[1].rom /\ wire[1].first
TimePasses ==
    /\ at \in {"top", "starting"} /\ drain /\ ~late
    /\ ring = <<>> \/ Len(fifo) = FIFO
    /\ halted \/ Gated \/ since = STUCK
    /\ late' = TRUE
    /\ UNCHANGED <<at, producer, on, drain, feeder, moved, since, fabric, pause, ghosts>>

User == (\E t \in DOMAIN Tapes : Start(t)) \/ tape_stop \/ Pause
Fabric == Play \/ Fall \/ Discard
Next == Produce \/ DrainLook \/ DrainDecide \/ Feed \/ Fabric \/ Armed \/ Resume \/ TimePasses \/ User
Spec == Init /\ [][Next]_vars

\* The main loop and the interrupt keep turning, the machine's clock drives the
\* player, and whoever stopped the machine lets it go on.
FairSpec ==
    /\ Spec
    /\ WF_vars(Produce \/ DrainLook \/ DrainDecide) /\ WF_vars(Feed) /\ WF_vars(Fabric)
    /\ WF_vars(Armed) /\ WF_vars(Resume)

-----------------------------------------------------------------------------
(***************************************************************************)
(* What a file says, after the format's own description: loops unrolled,   *)
(* every block its pilot, sync and bits, then its pause, as long as it was *)
(* recorded.  Each pulse and each pause begins with an edge.  A pause      *)
(* block of 0 ms asks the player to stop and has no length.                *)
(***************************************************************************)
BytePulses(b, i) ==
    [k \in 1 .. 2 * Kept(b, i) |-> BitLen(b, b.data[i][(k + 1) \div 2])]
BitPulses(b) == FlattenSeq([i \in 1 .. Len(b.data) |-> BytePulses(b, i)])
Lengths(b) ==
    CASE b.id \in {"std", "turbo"} -> [i \in 1 .. Pilots(b) |-> PilotLen(b)] \o Sync(b) \o BitPulses(b)
      [] b.id = "tone"   -> [i \in 1 .. b.count |-> b.pilot]
      [] b.id = "pulses" -> b.lens
      [] b.id = "data"   -> BitPulses(b)
      [] b.id = "pause"  -> <<>>
Marked(b, lens, start) ==
    [i \in 1 .. Len(lens) |->
        [kind |-> "pulse", dur |-> lens[i], rom |-> b.id = "std", first |-> start /\ i = 1]]
Recorded(b) == IF b.id \in {"tone", "pulses"} THEN 0 ELSE b.ms * MS
Silence(b) ==
    CASE Recorded(b) > 0 -> <<[kind |-> "pause", dur |-> Recorded(b), rom |-> FALSE, first |-> FALSE]>>
      [] Recorded(b) = 0 /\ b.id = "pause" ->
           <<[kind |-> "stop", dur |-> 0, rom |-> FALSE, first |-> FALSE]>>
      [] OTHER -> <<>>
BlockPulses(b) == Marked(b, Lengths(b), TRUE) \o Silence(b)

\* Each block's pulses in its place, in the place of a loop's start its body as
\* often as it comes again, nothing from a bad block on.
Plain(t) ==
    [i \in DOMAIN Blocks(t) |->
        IF Blocks(t)[i].id \in {"loop", "endloop", "info", "bad"} THEN <<>>
        ELSE BlockPulses(Blocks(t)[i])]
LoopEnd(t, i) == CHOOSE j \in i + 1 .. Len(Blocks(t)) : ClosedLoop(Blocks(t), i, j)
Body(t, i) == FlattenSeq(SubSeq(Plain(t), i + 1, LoopEnd(t, i) - 1))
Times(n, s) == FlattenSeq([i \in 1 .. n |-> s])
Cut(t, i) == \E k \in 1 .. i : Blocks(t)[k].id = "bad"
Parts(t) ==
    [i \in DOMAIN Blocks(t) |->
        CASE Cut(t, i) -> <<>>
          [] ~Cut(t, i) /\ Blocks(t)[i].id = "loop" ->
               IF Blocks(t)[i].times > 1 THEN Times(Blocks(t)[i].times - 1, Body(t, i)) ELSE <<>>
          [] OTHER -> Plain(t)[i]]
Unrolled(t) == FlattenSeq(Parts(t))
Recording == [t \in DOMAIN Tapes |-> IF Listed(t) THEN Tapes[t].pulses ELSE Unrolled(t)]

\* A pulse replays what is recorded: the marks, and the length unless the tape
\* asks to stop or pauses longer than a descriptor holds.
Replays(p, r) ==
    /\ p.rom = r.rom /\ p.first = r.first
    /\ r.kind = "stop" \/ r.dur >= WIRE \/ p.dur = r.dur
Begins(s, t) ==
    LET r == Recording[t]
    IN  /\ Len(s) <= Len(r)
        /\ IF Listed(t) THEN s = SubSeq(r, 1, Len(s))
           ELSE /\ \A i \in 1 .. Len(s) : Replays(s[i], r[i])
                /\ \A i \in 2 .. Len(s) : s[i].lvl # s[i - 1].lvl

\* What the machine hears of a started tape is its recording from the beginning,
\* pulse by pulse with length, edge and marks: once a tape it was started over
\* has run out, nothing of an earlier one, nothing lost, doubled or out of order
\* through producer, ring and FIFO.
HeardRight == fate # "none" => Begins(heard, tape)

\* A tape the player ends by itself has been heard to its last pulse, or else
\* nothing was delivered for three seconds and what was not heard is what the
\* player already held (the ring guard of 6825-6830), never a pulse still queued
\* in the ring or not yet made.
EndsWhole ==
    fate = "ended" =>
        /\ Begins(heard \o lost, tape) /\ Len(heard \o lost) = Len(Recording[tape])
        /\ lost # <<>> => late

\* The duration computed at the start is the time of the pulses delivered when
\* the last has left the ring, so the progress and the slow-down before the tail
\* fall where they belong (tape_total_T against tape_push_pulse); what is delivered
\* of a tape started over, before the ring is emptied for the new one, comes on top.
TotalExact ==
    (fate = "loading" /\ drain /\ ring = <<>>) => played = extra + tape_total_T(tape)

\* Every tape comes to its end, however short: the cushion the interrupt waits
\* for must not keep a tape that never fills it (5583-5585).
TapeEnds == on ~> ~on

(***************************************************************************)
(* What the comments say of the player and the code does not keep; README  *)
(* names a configuration that refutes each.                                *)
(***************************************************************************)
\* A pause is part of the recording and not stretched or cut (5680-5682): the code
\* keeps its length modulo the 24 bits of a descriptor.
PauseWhole ==
    fate = "loading" /\ ~Listed(tape) =>
        \A i \in 1 .. Len(heard) :
            Recording[tape][i].kind = "pause" => heard[i].dur = Recording[tape][i].dur

\* A pause longer than a millisecond is held LOW, it is no alternating data pulse
\* (5622-5627): the code sends one pulse of whatever level comes next.
PauseLow ==
    fate = "loading" /\ ~Listed(tape) =>
        \A i \in 1 .. Len(heard) :
            Recording[tape][i].kind = "pause" /\ Recording[tape][i].dur > MS => heard[i].lvl = 0

\* What the three-second guard cuts is silence, a long pause in a multiload tape
\* is safe (6825-6831): a block behind the pause that fits the FIFO is cut too.
OnlySilenceLost ==
    fate = "ended" /\ ~Listed(tape) =>
        \A i \in Len(heard) + 1 .. Len(Recording[tape]) : Recording[tape][i].kind # "pulse"

\* A tape pauses with the machine and resumes seamlessly (14664-14667): three
\* seconds near the end are taken for a tape that has stuck.
ResumesWhole == fate = "ended" => lost = <<>>

\* A restart begins at the file's start, not on what the FIFO has left
\* (tape_player.v): only a player that was stopped has thrown it away.
FromFileStart == fate = "loading" => stale = 0

\* A draining tape has no more pulses to push (4887): one started over it is
\* taken for drained before its first pulse.
DrainMeansDone ==
    at = "top" /\ drain =>
        IF Listed(tape) THEN seg.ptr > Len(Tapes[tape].pulses) ELSE seg.phase = 0
=============================================================================
