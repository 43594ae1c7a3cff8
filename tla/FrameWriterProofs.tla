-------------------------- MODULE FrameWriterProofs --------------------------
(***************************************************************************)
(* FrameWriter for every frame length, burst length and number of frames:  *)
(* the bursts of fb_wr_axi.v never reach a buffer that is shown, the word  *)
(* stream never slips against the frames, and the writer is a correct      *)
(* client of the five-buffer manager.                                      *)
(***************************************************************************)
EXTENDS FrameWriter, TLAPS

Buf == 0 .. NBUF - 1

\* The number of frames whose words were all written before the one in base.
Current == IF state = "S_WAIT" /\ ~frame_done THEN frames - 1 ELSE frames

\* Words of the current frame that are in their places already.
Filled == CASE state = "S_AW"   -> burst * BEATS
            [] state = "S_W"    -> burst * BEATS + beat
            [] state = "S_B"    -> IF burst = TOTB - 1 THEN WORDS ELSE (burst + 1) * BEATS
            [] state = "S_WAIT" -> WORDS

Flags ==
    /\ state \in {"S_AW", "S_W", "S_B", "S_WAIT"}
    /\ aw_valid \in BOOLEAN /\ frame_done \in BOOLEAN

Types ==
    /\ Flags
    /\ burst \in 0 .. TOTB - 1 /\ beat \in Nat /\ wcnt \in 0 .. 3
    /\ {base, wr, ready, older, disp, dprev} \subseteq Buf
    /\ mem \in [Buf -> [Place -> Nat]]
    /\ word \in Nat /\ frames \in Nat

\* Where the writer is: frame_done is up in the first cycle of S_WAIT only,
\* and the word count is always burst and beat of the current frame.
Places ==
    /\ state = "S_W" => beat <= last_beat
    /\ state # "S_AW" => ~aw_valid
    /\ frame_done <=> state = "S_WAIT" /\ wcnt = 0
    /\ state = "S_WAIT" /\ ~frame_done => frames >= 1
    /\ word = Current * WORDS + Filled
    /\ word <= MaxFrames * WORDS

\* The latched base is the manager's write buffer until the roles have moved.
Roles ==
    /\ (state # "S_WAIT" \/ frame_done) => base = wr
    /\ wr \notin {ready, older, disp, dprev}

Contents ==
    /\ \A i \in 0 .. WORDS - 1 : i < Filled => mem[base][i] = Current * WORDS + i + 1
    /\ \A b \in Buf : mem[b][WORDS] = 0

IInv == Types /\ Places /\ Roles /\ Contents

-----------------------------------------------------------------------------
\* Arithmetic: multiples of a frame length, and the burst structure.

LEMMA Multiple ==
    ASSUME NEW k \in Nat, NEW w \in Nat, w > 0
    PROVE  (k * w) \div w = k /\ (k * w) % w = 0
BY Z3T(20)

LEMMA Bursts ==
    /\ FULLB \in Nat /\ LASTB \in 0 .. BEATS - 1
    /\ FULLB * BEATS + LASTB = WORDS
    /\ TOTB \in Nat \ {0}
<1>1. WORDS \in Nat /\ WORDS > 0 /\ BEATS \in Nat /\ BEATS > 0
  BY FrameWriterAssumption
<1>2. FULLB \in Nat /\ LASTB \in 0 .. BEATS - 1
  BY <1>1, Z3T(20) DEF FULLB, LASTB
<1>3. WORDS = BEATS * (WORDS \div BEATS) + (WORDS % BEATS)
  BY <1>1, Z3T(20)
<1>4. FULLB * BEATS = BEATS * FULLB
  BY <1>1, <1>2
<1>5. FULLB * BEATS + LASTB = WORDS
  BY <1>3, <1>4 DEF FULLB, LASTB
<1>6. LASTB = 0 => FULLB # 0
  BY <1>1, <1>2, <1>5
<1> QED BY <1>2, <1>5, <1>6 DEF TOTB, HASLAST

\* The last beat of a burst ends it where the next burst begins, and that of
\* the last burst ends the frame.
LEMMA BurstEnds ==
    ASSUME burst \in 0 .. TOTB - 1
    PROVE  /\ last_beat \in Nat
           /\ burst * BEATS \in Nat /\ (burst + 1) * BEATS \in Nat
           /\ (burst + 1) * BEATS = burst * BEATS + BEATS
           /\ burst * BEATS + last_beat + 1 =
                  IF burst = TOTB - 1 THEN WORDS ELSE (burst + 1) * BEATS
           /\ burst * BEATS + last_beat + 1 <= WORDS
<1>1. /\ BEATS \in Nat /\ BEATS > 0 /\ WORDS \in Nat
      /\ FULLB \in Nat /\ LASTB \in 0 .. BEATS - 1
      /\ FULLB * BEATS + LASTB = WORDS
      /\ TOTB \in Nat \ {0} /\ burst \in Nat
  BY Bursts, FrameWriterAssumption
<1>2. /\ burst * BEATS \in Nat /\ (burst + 1) * BEATS \in Nat
      /\ (burst + 1) * BEATS = burst * BEATS + BEATS
      /\ FULLB * BEATS \in Nat
  BY <1>1
<1>3. last_beat = (IF HASLAST /\ burst = TOTB - 1 THEN LASTB - 1 ELSE BEATS - 1)
  BY DEF last_beat, is_last
<1>4. CASE HASLAST /\ burst = TOTB - 1
  <2>1. TOTB = FULLB + 1 /\ LASTB > 0
    BY <1>1, <1>4 DEF TOTB, HASLAST
  <2>2. burst = FULLB /\ last_beat = LASTB - 1
    BY <1>1, <1>3, <1>4, <2>1
  <2> QED BY <1>1, <1>2, <1>4, <2>1, <2>2
<1>5. CASE ~HASLAST /\ burst = TOTB - 1
  <2>1. TOTB = FULLB /\ LASTB = 0 /\ burst + 1 = FULLB /\ last_beat = BEATS - 1
    BY <1>1, <1>3, <1>5 DEF TOTB, HASLAST
  <2> QED BY <1>1, <1>2, <1>5, <2>1
<1>6. CASE burst # TOTB - 1
  <2>1. burst + 1 <= FULLB /\ last_beat = BEATS - 1
    BY <1>1, <1>3, <1>6 DEF TOTB, HASLAST
  <2>2. (burst + 1) * BEATS <= FULLB * BEATS
    BY <1>1, <2>1
  <2> QED BY <1>1, <1>2, <1>6, <2>1, <2>2
<1> QED BY <1>4, <1>5, <1>6

LEMMA FilledBound ==
    ASSUME Types, Places
    PROVE  Filled \in 0 .. WORDS /\ Current \in Nat /\ Current * WORDS \in Nat
<1>1. WORDS \in Nat /\ BEATS \in Nat /\ burst \in 0 .. TOTB - 1 /\ frames \in Nat
  BY FrameWriterAssumption DEF Types
<1>2. Current \in Nat
  BY <1>1 DEF Current, Types, Places
<1>3. Current * WORDS \in Nat
  BY <1>1, <1>2
<1> DEFINE at == burst * BEATS
           after == (burst + 1) * BEATS
<1>4. /\ last_beat \in Nat /\ at \in Nat /\ after \in Nat
      /\ at + last_beat + 1 = IF burst = TOTB - 1 THEN WORDS ELSE after
      /\ at + last_beat + 1 <= WORDS
  BY <1>1, BurstEnds
<1>5. Filled = CASE state = "S_AW"   -> at
                 [] state = "S_W"    -> at + beat
                 [] state = "S_B"    -> IF burst = TOTB - 1 THEN WORDS ELSE after
                 [] state = "S_WAIT" -> WORDS
  BY DEF Filled
<1> HIDE DEF at, after
<1>6. state = "S_W" => beat \in Nat /\ beat <= last_beat
  BY DEF Types, Places
<1>7. Filled \in 0 .. WORDS
  <2>1. CASE state = "S_AW"
    BY <1>1, <1>4, <1>5, <2>1
  <2>2. CASE state = "S_W"
    BY <1>1, <1>4, <1>5, <1>6, <2>2
  <2>3. CASE state = "S_B"
    BY <1>1, <1>4, <1>5, <2>3
  <2>4. CASE state = "S_WAIT"
    BY <1>1, <1>5, <2>4
  <2> QED BY <2>1, <2>2, <2>3, <2>4 DEF Types, Flags
<1> QED BY <1>2, <1>3, <1>7

-----------------------------------------------------------------------------
\* The manager's registers, whatever the writer does in the same cycle.

\* What the manager's contract sees of a buffer: the frame it holds whole.
Held == [b \in Buf |-> IF b # wr /\ Whole(b) THEN FrameOf(b) ELSE 0]

\* The contract with what is proved of it.
Contract == INSTANCE FrameManagerProofs WITH fid <- Held

\* Five buffers leave one free whichever four are busy, and pick_free finds it.
LEMMA FreeBuffer ==
    ASSUME NEW a \in Buf, NEW b \in Buf, NEW c \in Buf, NEW d \in Buf
    PROVE  Manager!pick_free({a, b, c, d}) \in Buf \ {a, b, c, d}
<1>1. NBUF \in Nat /\ NBUF >= 5 /\ MaxFrames \in Nat /\ Buf = Contract!Buf
  BY FrameWriterAssumption DEF NBUF, Buf, Contract!Buf
<1>2. Contract!pick_free({a, b, c, d}) \in Contract!Buf \ {a, b, c, d}
  BY <1>1, Contract!PickFree DEF Contract!FrameManagerAssumption
<1> QED BY <1>1, <1>2 DEF Manager!pick_free, Manager!Buf, Contract!pick_free, Contract!Buf

\* The write buffer moves only with frame_done, and then to a buffer that is
\* none of those shown, waiting, or just closed.
LEMMA RolesMove ==
    ASSUME Types, Roles, NEW kick \in BOOLEAN, Manager!ClockRegs(frame_done, kick)
    PROVE  /\ {wr', ready', older', disp', dprev'} \subseteq Buf
           /\ wr' \notin {ready', older', disp', dprev'}
           /\ ~frame_done => wr' = wr
           /\ frame_done => wr' # wr /\ ready' = wr
<1> DEFINE dn == IF kick THEN ready ELSE disp
           pn == IF kick THEN older ELSE dprev
<1>1. /\ wr \in Buf /\ ready \in Buf /\ older \in Buf /\ disp \in Buf /\ dprev \in Buf
      /\ wr \notin {ready, older, disp, dprev}
  BY DEF Types, Roles
<1>2. /\ older' = IF frame_done THEN ready ELSE older
      /\ ready' = IF frame_done THEN wr ELSE ready
      /\ wr' = IF frame_done THEN Manager!pick_free({dn, pn, wr, ready}) ELSE wr
      /\ disp' = dn /\ dprev' = pn
  BY DEF Manager!ClockRegs
<1>3. Manager!pick_free({dn, pn, wr, ready}) \in Buf \ {dn, pn, wr, ready}
  BY <1>1, FreeBuffer
<1> QED BY <1>1, <1>2, <1>3

-----------------------------------------------------------------------------
\* The invariant, one lemma per state of the writer.

\* The manager's edge and the count of closed frames go with every step.
Edge(kick) ==
    /\ Manager!ClockRegs(frame_done, kick)
    /\ frames' = IF frame_done THEN frames + 1 ELSE frames

LEMMA InitIInv == Init => IInv
<1> SUFFICES ASSUME Init PROVE IInv
  OBVIOUS
<1>1. /\ WORDS \in Nat /\ WORDS > 0 /\ BEATS \in Nat /\ MaxFrames \in Nat
      /\ TOTB \in Nat \ {0}
  BY FrameWriterAssumption, Bursts
<1>2. /\ state = "S_AW" /\ aw_valid = FALSE /\ burst = 0 /\ beat = 0 /\ wcnt = 0
      /\ frame_done = FALSE /\ base = 0 /\ word = 0 /\ frames = 0
      /\ wr = 0 /\ ready = 1 /\ older = 2 /\ disp = 3 /\ dprev = 4
      /\ mem = [b \in Buf |-> [i \in Place |-> 0]]
  BY DEF Init, Manager!InitRegs, Buf
<1>3. Types
  <2>1. Flags
    BY <1>2, Zenon DEF Flags
  <2> QED BY <1>1, <1>2, <2>1 DEF Types, Buf, NBUF
<1>4. Current = 0 /\ Filled = 0 /\ Current * WORDS = 0 /\ MaxFrames * WORDS \in Nat
  BY <1>1, <1>2 DEF Current, Filled
<1>5. Places
  BY <1>1, <1>2, <1>4 DEF Places
<1>6. Roles
  BY <1>2 DEF Roles
<1>7. WORDS \in Place
  BY <1>1 DEF Place
<1>8. Contents
  BY <1>1, <1>2, <1>4, <1>7 DEF Contents
<1> QED BY <1>3, <1>5, <1>6, <1>8 DEF IInv

LEMMA AddressStep ==
    ASSUME IInv, NEW aw_ready \in BOOLEAN, NEW quiesce_i \in BOOLEAN,
           NEW kick \in BOOLEAN, S_AW(aw_ready, quiesce_i), Edge(kick)
    PROVE  IInv'
<1>1. /\ Types /\ Places /\ Roles /\ Contents
  BY DEF IInv
<1>2. /\ state = "S_AW" /\ frame_done = FALSE
  BY <1>1 DEF S_AW, Places, Types
<1>3. /\ frames' = frames /\ wr' = wr
      /\ {wr', ready', older', disp', dprev'} \subseteq Buf
      /\ wr' \notin {ready', older', disp', dprev'}
  BY <1>1, <1>2, RolesMove DEF Edge
<1>4. /\ frame_done' = FALSE /\ aw_valid' \in BOOLEAN
      /\ burst' = burst /\ wcnt' = wcnt /\ base' = base /\ mem' = mem /\ word' = word
      /\ \/ state' = "S_AW" /\ beat' = beat
         \/ state' = "S_W" /\ beat' = 0 /\ aw_valid' = FALSE
  BY <1>1 DEF S_AW, Types
<1>5. /\ burst \in 0 .. TOTB - 1 /\ beat \in Nat /\ burst * BEATS \in Nat
      /\ last_beat \in Nat
  BY <1>1, BurstEnds DEF Types
<1>6. Filled' = Filled /\ Current' = Current
  BY <1>2, <1>3, <1>4, <1>5 DEF Filled, Current
<1>7. last_beat' = last_beat
  BY <1>4 DEF last_beat, is_last
<1>8. Types'
  <2>1. Flags'
    BY <1>4, Zenon DEF Flags
  <2> QED BY <1>1, <1>3, <1>4, <1>5, <2>1 DEF Types, Buf, Place, TOTB, FULLB, LASTB, HASLAST
<1>9. Places'
  BY <1>1, <1>2, <1>3, <1>4, <1>5, <1>6, <1>7 DEF Places
<1>10. Roles'
  BY <1>1, <1>2, <1>3, <1>4 DEF Roles
<1>11. Contents'
  BY <1>1, <1>4, <1>6 DEF Contents
<1> QED BY <1>8, <1>9, <1>10, <1>11 DEF IInv

LEMMA ResponseStep ==
    ASSUME IInv, NEW b_valid \in BOOLEAN, NEW kick \in BOOLEAN, S_B(b_valid), Edge(kick)
    PROVE  IInv'
<1>1. /\ Types /\ Places /\ Roles /\ Contents
  BY DEF IInv
<1>2. /\ state = "S_B" /\ frame_done = FALSE
  BY <1>1 DEF S_B, Places, Types
<1>3. /\ frames' = frames /\ wr' = wr
      /\ {wr', ready', older', disp', dprev'} \subseteq Buf
      /\ wr' \notin {ready', older', disp', dprev'}
  BY <1>1, <1>2, RolesMove DEF Edge
<1>4. /\ aw_valid' = aw_valid /\ beat' = beat /\ base' = base /\ mem' = mem /\ word' = word
      /\ \/ state' = "S_B" /\ wcnt' = wcnt /\ burst' = burst /\ frame_done' = FALSE
         \/ /\ burst = TOTB - 1 /\ frame_done' = TRUE
            /\ wcnt' = 0 /\ state' = "S_WAIT" /\ burst' = burst
         \/ /\ burst # TOTB - 1 /\ frame_done' = FALSE
            /\ wcnt' = wcnt /\ state' = "S_AW" /\ burst' = burst + 1
  BY <1>2 DEF S_B
<1>5. /\ burst \in 0 .. TOTB - 1 /\ TOTB \in Nat /\ (burst + 1) * BEATS \in Nat
  BY <1>1, BurstEnds, Bursts DEF Types
<1>6. Filled' = Filled /\ Current' = Current
  <2>1. Filled = IF burst = TOTB - 1 THEN WORDS ELSE (burst + 1) * BEATS
    BY <1>2 DEF Filled
  <2>2. Filled' = CASE state' = "S_AW"   -> burst' * BEATS
            [] state' = "S_W"    -> burst' * BEATS + beat'
            [] state' = "S_B"    -> IF burst' = TOTB - 1 THEN WORDS ELSE (burst' + 1) * BEATS
            [] state' = "S_WAIT" -> WORDS
    BY DEF Filled, TOTB, FULLB, HASLAST, LASTB
  <2> QED BY <1>2, <1>3, <1>4, <2>1, <2>2 DEF Current
<1>7. Types'
  <2>1. Flags'
    BY <1>1, <1>4, Zenon DEF Flags, Types
  <2>2. burst' \in 0 .. TOTB - 1 /\ wcnt' \in 0 .. 3
    BY <1>1, <1>4, <1>5 DEF Types
  <2> QED BY <2>2,  <1>1, <1>3, <1>4, <1>5, <2>1 DEF Types, Buf, Place, TOTB, FULLB, LASTB, HASLAST
<1>8. Places'
  BY <1>1, <1>2, <1>3, <1>4, <1>6 DEF Places
<1>9. Roles'
  BY <1>1, <1>2, <1>3, <1>4 DEF Roles
<1>10. Contents'
  BY <1>1, <1>4, <1>6 DEF Contents
<1> QED BY <1>7, <1>8, <1>9, <1>10 DEF IInv

LEMMA BeatStep ==
    ASSUME IInv, NEW w_ready \in BOOLEAN, NEW fifo_empty \in BOOLEAN,
           NEW kick \in BOOLEAN, S_W(w_ready, fifo_empty), Edge(kick)
    PROVE  IInv'
<1>1. /\ Types /\ Places /\ Roles /\ Contents
  BY DEF IInv
<1>2. /\ state = "S_W" /\ frame_done = FALSE /\ aw_valid = FALSE
  BY <1>1 DEF S_W, Places, Types, Flags
<1>3. /\ frames' = frames /\ wr' = wr
      /\ {wr', ready', older', disp', dprev'} \subseteq Buf
      /\ wr' \notin {ready', older', disp', dprev'}
  BY <1>1, <1>2, RolesMove DEF Edge
<1>4. /\ frame_done' = FALSE /\ aw_valid' = FALSE
      /\ burst' = burst /\ wcnt' = wcnt /\ base' = base /\ state' # "S_WAIT"
  BY <1>2 DEF S_W
<1>5. /\ burst \in 0 .. TOTB - 1 /\ TOTB \in Nat /\ beat \in Nat /\ base \in Buf
      /\ base = wr /\ beat <= last_beat
      /\ word \in Nat /\ MaxFrames \in Nat /\ WORDS \in Nat /\ WORDS > 0
  BY <1>1, <1>2, Bursts, FrameWriterAssumption DEF Types, Roles, Places
<1> DEFINE at == burst * BEATS
           after == (burst + 1) * BEATS
<1>6. /\ last_beat \in Nat /\ at \in Nat /\ after \in Nat
      /\ at + last_beat + 1 = IF burst = TOTB - 1 THEN WORDS ELSE after
      /\ at + last_beat + 1 <= WORDS
  BY <1>5, BurstEnds
<1>7. last_beat' = last_beat
  BY <1>4 DEF last_beat, is_last
<1>8. Filled = at + beat /\ Current' = Current /\ Current * WORDS \in Nat
  <2>1. Filled = at + beat
    BY <1>2 DEF Filled
  <2>2. Current' = frames' /\ Current = frames
    BY <1>2, <1>4 DEF Current
  <2> QED BY <1>1, <1>3, <2>1, <2>2, FilledBound
<1>9. Filled' = CASE state' = "S_AW"   -> at
                  [] state' = "S_W"    -> at + beat'
                  [] state' = "S_B"    -> IF burst = TOTB - 1 THEN WORDS ELSE after
                  [] state' = "S_WAIT" -> WORDS
  BY <1>4 DEF Filled, TOTB, FULLB, HASLAST, LASTB
<1> HIDE DEF at, after
<1>10. Roles'
  BY <1>1, <1>2, <1>3, <1>4 DEF Roles
<1>11. CASE ~(w_ready /\ ~fifo_empty)
  <2>1. mem' = mem /\ word' = word /\ state' = "S_W" /\ beat' = beat
    BY <1>2, <1>11 DEF S_W
  <2>2. Filled' = Filled
    BY <1>8, <1>9, <2>1
  <2>3. Flags'
    BY <1>4, <2>1, Zenon DEF Flags
  <2>4. Types'
    BY <1>1, <1>3, <1>4, <1>5, <2>1, <2>3 DEF Types, Buf, Place, TOTB, FULLB, LASTB, HASLAST
  <2>5. Places'
    BY <1>1, <1>2, <1>4, <1>7, <1>8, <2>1, <2>2 DEF Places
  <2>6. Contents'
    BY <1>1, <1>4, <1>8, <2>1, <2>2 DEF Contents
  <2> QED BY <1>10, <2>4, <2>5, <2>6 DEF IInv
<1>12. CASE w_ready /\ ~fifo_empty
  <2>1. /\ word < MaxFrames * WORDS
        /\ mem' = [mem EXCEPT ![base][at + beat] = word + 1]
        /\ word' = word + 1
        /\ \/ beat = last_beat /\ state' = "S_B" /\ beat' = beat
           \/ beat # last_beat /\ state' = "S_W" /\ beat' = beat + 1
    BY <1>2, <1>12 DEF S_W, at
  <2>2. Filled' = Filled + 1
    BY <1>5, <1>6, <1>8, <1>9, <2>1
  <2>3. MaxFrames * WORDS \in Nat /\ word' \in Nat /\ word' <= MaxFrames * WORDS
    BY <1>5, <2>1
  <2>4. /\ Filled \in Place /\ Filled \in 0 .. WORDS - 1
        /\ mem' = [mem EXCEPT ![base][Filled] = word + 1]
        /\ word = Current * WORDS + Filled
    BY <1>1, <1>5, <1>6, <1>8, <2>1 DEF Place, Places
  <2>5. mem \in [Buf -> [Place -> Nat]]
    BY <1>1 DEF Types
  <2>6. /\ mem' \in [Buf -> [Place -> Nat]]
        /\ mem'[base] = [mem[base] EXCEPT ![Filled] = word + 1]
        /\ \A b \in Buf : b # base => mem'[b] = mem[b]
    BY <1>5, <2>3, <2>4, <2>5
  <2>7. Flags'
    BY <1>4, <2>1, Zenon DEF Flags
  <2>8. beat' \in Nat /\ word' \in Nat
    BY <1>5, <2>1, <2>3
  <2>9. Types'
    BY <1>1, <1>3, <1>4, <1>5, <2>6, <2>7, <2>8 DEF Types, Buf, Place, TOTB, FULLB, LASTB, HASLAST
  <2>10. word' = Current' * WORDS + Filled'
    BY <1>5, <1>6, <1>8, <2>1, <2>2, <2>4
  <2>11. state' = "S_W" => beat' <= last_beat'
    BY <1>5, <1>6, <1>7, <2>1
  <2>12. Places'
    BY <1>4, <2>1, <2>3, <2>10, <2>11 DEF Places
  <2>13. \A i \in 0 .. WORDS - 1 : i < Filled' => mem'[base'][i] = Current' * WORDS + i + 1
    <3> SUFFICES ASSUME NEW i \in 0 .. WORDS - 1, i < Filled'
                 PROVE  mem'[base][i] = Current * WORDS + i + 1
      BY <1>4, <1>8
    <3>1. i \in Place
      BY <1>5 DEF Place
    <3>2. CASE i = Filled
      BY <1>5, <2>4, <2>5, <2>6, <3>1, <3>2
    <3>3. CASE i # Filled
      <4>1. i < Filled
        BY <1>5, <2>2, <2>4, <3>3
      <4>2. mem[base][i] = Current * WORDS + i + 1
        BY <1>1, <4>1 DEF Contents
      <4> QED BY <1>5, <2>5, <2>6, <3>1, <3>3, <4>2
    <3> QED BY <3>2, <3>3
  <2>14. \A b \in Buf : mem'[b][WORDS] = 0
    <3> SUFFICES ASSUME NEW b \in Buf PROVE mem'[b][WORDS] = 0
      OBVIOUS
    <3>1. mem[b][WORDS] = 0 /\ mem[b] \in [Place -> Nat] /\ WORDS \in Place /\ Filled # WORDS
      BY <1>1, <1>5, <2>4, <2>5 DEF Contents, Place
    <3> QED BY <2>6, <3>1
  <2>15. Contents'
    BY <2>13, <2>14 DEF Contents, Buf
  <2> QED BY <1>10, <2>9, <2>12, <2>15 DEF IInv
<1> QED BY <1>11, <1>12

LEMMA WaitStep ==
    ASSUME IInv, NEW kick \in BOOLEAN, S_WAIT, Edge(kick)
    PROVE  IInv'
<1>1. /\ Types /\ Places /\ Roles /\ Contents
  BY DEF IInv
<1>2. /\ state = "S_WAIT" /\ (frame_done <=> wcnt = 0) /\ aw_valid = FALSE
      /\ (frame_done => base = wr) /\ wcnt \in 0 .. 3
  BY <1>1 DEF S_WAIT, Places, Types, Flags, Roles
<1>3. /\ {wr', ready', older', disp', dprev'} \subseteq Buf
      /\ wr' \notin {ready', older', disp', dprev'}
      /\ ~frame_done => wr' = wr
  BY <1>1, RolesMove DEF Edge
<1>4. /\ frame_done' = FALSE /\ aw_valid' = FALSE
      /\ beat' = beat /\ mem' = mem /\ word' = word
      /\ \/ wcnt = 3 /\ burst' = 0 /\ base' = wr /\ state' = "S_AW" /\ wcnt' = wcnt
         \/ wcnt # 3 /\ wcnt' = wcnt + 1 /\ burst' = burst /\ base' = base /\ state' = "S_WAIT"
  BY <1>2 DEF S_WAIT
<1>5. /\ burst \in 0 .. TOTB - 1 /\ TOTB \in Nat /\ TOTB > 0 /\ beat \in Nat /\ base \in Buf
      /\ wr \in Buf /\ word \in Nat /\ frames \in Nat /\ WORDS \in Nat /\ WORDS > 0
      /\ BEATS \in Nat
  BY <1>1, Bursts, FrameWriterAssumption DEF Types
<1>6. frames' \in Nat /\ frames' = Current + 1 /\ Current \in Nat
  BY <1>1, <1>2, <1>5 DEF Edge, Current, Places
<1>7. Filled = WORDS /\ word = Current * WORDS + WORDS /\ Current * WORDS \in Nat
  BY <1>1, <1>2, FilledBound DEF Filled, Places
<1>8. word' = frames' * WORDS
  BY <1>4, <1>5, <1>6, <1>7
<1>9. Types'
  <2>1. Flags'
    BY <1>4, Zenon DEF Flags
  <2>2. burst' \in 0 .. TOTB - 1 /\ wcnt' \in 0 .. 3 /\ base' \in Buf
    BY <1>2, <1>4, <1>5
  <2> QED BY <1>1, <1>3, <1>4, <1>5, <1>6, <2>1, <2>2
          DEF Types, Buf, Place, TOTB, FULLB, LASTB, HASLAST
<1>10. CASE wcnt = 3
  <2>1. state' = "S_AW" /\ burst' = 0 /\ base' = wr /\ wcnt' = 3 /\ wr' = wr
    BY <1>2, <1>3, <1>4, <1>10
  <2>2. Filled' = 0 /\ Current' = frames'
    BY <1>5, <2>1 DEF Filled, Current
  <2>3. Places'
    BY <1>1, <1>4, <1>5, <1>6, <1>8, <2>1, <2>2 DEF Places
  <2>4. Roles'
    BY <1>3, <2>1 DEF Roles
  <2>5. Contents'
    BY <1>1, <1>4, <1>5, <2>2 DEF Contents, Buf
  <2> QED BY <1>9, <2>3, <2>4, <2>5 DEF IInv
<1>11. CASE wcnt # 3
  <2>1. state' = "S_WAIT" /\ burst' = burst /\ base' = base /\ wcnt' = wcnt + 1
    BY <1>4, <1>11
  <2>2. Filled' = Filled /\ Current' = Current
    <3>1. Filled' = WORDS
      BY <2>1 DEF Filled
    <3>2. Current' = frames' - 1
      BY <1>4, <2>1 DEF Current
    <3> QED BY <1>6, <1>7, <3>1, <3>2
  <2>3. Places'
    BY <1>1, <1>2, <1>4, <1>5, <1>6, <2>1, <2>2 DEF Places
  <2>4. Roles'
    BY <1>3, <1>4, <2>1 DEF Roles
  <2>5. Contents'
    BY <1>1, <1>4, <2>1, <2>2 DEF Contents, Buf
  <2> QED BY <1>9, <2>3, <2>4, <2>5 DEF IInv
<1> QED BY <1>10, <1>11

LEMMA NextIInv == IInv /\ [Next]_vars => IInv'
<1> SUFFICES ASSUME IInv, [Next]_vars PROVE IInv'
  OBVIOUS
<1>1. CASE Next
  <2>1. PICK aw_ready, w_ready, b_valid, fifo_empty, quiesce_i \in BOOLEAN :
            Writer(aw_ready, w_ready, b_valid, fifo_empty, quiesce_i)
    BY <1>1 DEF Next
  <2>2. PICK kick \in BOOLEAN : Edge(kick)
    BY <1>1 DEF Next, Edge
  <2>3. CASE S_AW(aw_ready, quiesce_i)
    BY <2>2, <2>3, AddressStep
  <2>4. CASE S_W(w_ready, fifo_empty)
    BY <2>2, <2>4, BeatStep
  <2>5. CASE S_B(b_valid)
    BY <2>2, <2>5, ResponseStep
  <2>6. CASE S_WAIT
    BY <2>2, <2>6, WaitStep
  <2> QED BY <2>1, <2>3, <2>4, <2>5, <2>6 DEF Writer
<1>2. CASE UNCHANGED vars
  <2>1. UNCHANGED <<writer, roles, mem, word, frames>>
    BY <1>2 DEF vars
  <2>2. Filled' = Filled /\ Current' = Current /\ last_beat' = last_beat
    BY <2>1 DEF writer, Filled, Current, last_beat, is_last, TOTB, FULLB, HASLAST, LASTB
  <2>3. Flags'
    BY <2>1, Zenon DEF IInv, Types, Flags, writer
  <2>4. Types'
    BY <2>1, <2>3 DEF IInv, Types, writer, roles, Buf, Place, TOTB, FULLB, LASTB, HASLAST
  <2>5. Places' /\ Roles' /\ Contents'
    BY <2>1, <2>2 DEF IInv, Places, Roles, Contents, writer, roles, Buf
  <2> QED BY <2>4, <2>5 DEF IInv
<1> QED BY <1>1, <1>2

-----------------------------------------------------------------------------
\* The refinement: the manager's contract sees the frames held whole.

LEMMA WholeFrame ==
    ASSUME Types, NEW b \in Buf, NEW f \in 0 .. MaxFrames,
           \A i \in 0 .. WORDS - 1 : mem[b][i] = f * WORDS + i + 1
    PROVE  Whole(b) /\ FrameOf(b) = f + 1
<1>1. WORDS \in Nat /\ WORDS > 0 /\ f \in Nat
  BY FrameWriterAssumption
<1>2. f * WORDS \in Nat /\ mem[b][0] = f * WORDS + 1
  BY <1>1
<1>3. (f * WORDS) \div WORDS = f
  BY <1>1, Multiple
<1>4. mem[b][0] - 1 = f * WORDS
  BY <1>2
<1> QED BY <1>1, <1>3, <1>4 DEF Whole, FrameOf

\* In S_WAIT the buffer just closed is whole, and a frame is left to count it.
LEMMA ClosedWhole ==
    ASSUME IInv, state = "S_WAIT"
    PROVE  /\ word = (Current + 1) * WORDS
           /\ Current + 1 <= MaxFrames
           /\ Whole(base) /\ FrameOf(base) = Current + 1
<1>1. /\ WORDS \in Nat /\ WORDS > 0 /\ MaxFrames \in Nat /\ base \in Buf
  BY FrameWriterAssumption DEF IInv, Types
<1>2. Current \in Nat /\ Current * WORDS \in Nat /\ Filled = WORDS
  BY FilledBound DEF IInv, Filled
<1>3. word = Current * WORDS + WORDS /\ word <= MaxFrames * WORDS
  BY <1>2 DEF IInv, Places
<1>4. word = (Current + 1) * WORDS
  BY <1>1, <1>2, <1>3
<1>5. Current + 1 <= MaxFrames
  <2> SUFFICES ASSUME MaxFrames <= Current PROVE FALSE
    BY <1>1, <1>2
  <2>1. MaxFrames * WORDS <= Current * WORDS
    BY <1>1, <1>2
  <2> QED BY <1>1, <1>2, <1>3, <2>1
<1>6. \A i \in 0 .. WORDS - 1 : mem[base][i] = Current * WORDS + i + 1
  BY <1>1, <1>2 DEF IInv, Contents
<1> QED BY <1>1, <1>2, <1>4, <1>5, <1>6, WholeFrame DEF IInv

\* No step touches a buffer other than the manager's write buffer.
LEMMA OthersKept ==
    ASSUME IInv, Next, NEW b \in Buf, b # wr
    PROVE  mem'[b] = mem[b]
<1>1. PICK w_ready, fifo_empty \in BOOLEAN : mem' = mem \/ S_W(w_ready, fifo_empty)
  BY DEF Next, Writer, S_AW, S_B, S_WAIT
<1>2. CASE mem' = mem
  BY <1>2
<1>3. CASE S_W(w_ready, fifo_empty)
  <2>1. base = wr /\ mem \in [Buf -> [Place -> Nat]]
    BY <1>3 DEF IInv, Roles, Types, S_W
  <2>2. mem' = mem \/ mem' = [mem EXCEPT ![base][burst * BEATS + beat] = word + 1]
    BY <1>3 DEF S_W
  <2> QED BY <2>1, <2>2
<1> QED BY <1>1, <1>2, <1>3

LEMMA HeldKept ==
    ASSUME IInv, Next, NEW b \in Buf, b # wr
    PROVE  (Whole(b) <=> Whole(b)') /\ FrameOf(b)' = FrameOf(b)
BY OthersKept DEF Whole, FrameOf

\* A cycle without frame_done is a blanking of the manager or no step of it.
LEMMA KickImplements ==
    ASSUME IInv, Next, ~frame_done
    PROVE  [Manager!Next]_Manager!vars
<1>1. PICK kick \in BOOLEAN : Edge(kick)
  BY DEF Next, Edge
<1>2. frames' = frames /\ wr' = wr /\ wr \in Buf
  BY <1>1, RolesMove DEF Edge, IInv, Types
<1>3. Held' = Held
  BY <1>2, HeldKept DEF Held, Buf
<1>4. Manager!ClockRegs(FALSE, kick)
  BY <1>1 DEF Edge, Manager!ClockRegs
<1>5. CASE kick
  BY <1>2, <1>3, <1>4, <1>5 DEF Manager!Next, Manager!Kick, Held, Buf
<1>6. CASE ~kick
  <2>1. UNCHANGED <<wr, ready, older, disp, dprev, nfr, pok, frames>>
    BY <1>2, <1>4, <1>6 DEF Manager!ClockRegs
  <2> QED BY <1>3, <2>1 DEF Manager!vars, Held, Buf
<1> QED BY <1>5, <1>6

\* frame_done closes the frame in the write buffer.
LEMMA DoneImplements ==
    ASSUME IInv, Next, frame_done
    PROVE  Manager!Done \/ Manager!DoneKick
<1>1. PICK kick \in BOOLEAN : Edge(kick)
  BY DEF Next, Edge
<1>2. /\ state = "S_WAIT" /\ base = wr /\ Current = frames /\ frames \in Nat
      /\ wr \in Buf /\ MaxFrames \in Nat
  BY FrameWriterAssumption DEF IInv, Places, Roles, Types, Current
<1>3. frames < MaxFrames /\ Whole(wr) /\ FrameOf(wr) = frames + 1
  BY <1>2, ClosedWhole
<1>4. frames' = frames + 1 /\ wr' # wr /\ wr' \in Buf
  BY <1>1, RolesMove DEF Edge, IInv
<1>5. PICK c \in Buf : c = wr
  BY <1>2
<1>6. mem' = mem
  BY <1>2 DEF Next, Writer, S_AW, S_W, S_B, S_WAIT
<1>7. Whole(c)' /\ FrameOf(c)' = frames + 1 /\ c # wr'
  BY <1>3, <1>4, <1>5, <1>6 DEF Whole, FrameOf
<1>8. Held' = [Held EXCEPT ![wr] = frames + 1, ![wr'] = 0]
  <2>1. Held' = [b \in Buf |-> IF b # wr' /\ Whole(b)' THEN FrameOf(b)' ELSE 0]
    BY DEF Held, Buf
  <2>2. Held'[c] = frames + 1 /\ Held'[wr'] = 0
    BY <1>4, <1>7, <2>1
  <2>3. \A b \in Buf : b # c /\ b # wr' => Held'[b] = Held[b]
    BY <1>5, <2>1, HeldKept DEF Held
  <2>4. Held = [b \in Buf |-> Held[b]] /\ Held' = [b \in Buf |-> Held'[b]]
    BY <2>1 DEF Held
  <2> QED BY <1>4, <1>5, <2>2, <2>3, <2>4
<1>9. Manager!CloseFrame
  BY <1>3, <1>4, <1>8 DEF Manager!CloseFrame, Held, Buf
<1>10. Manager!ClockRegs(TRUE, kick)
  BY <1>1 DEF Edge, Manager!ClockRegs
<1> QED BY <1>9, <1>10 DEF Manager!Done, Manager!DoneKick

LEMMA NextImplements ==
    IInv /\ [Next]_vars => [Manager!Next]_Manager!vars
<1> SUFFICES ASSUME IInv, [Next]_vars PROVE [Manager!Next]_Manager!vars
  OBVIOUS
<1>1. CASE Next /\ ~frame_done
  BY <1>1, KickImplements
<1>2. CASE Next /\ frame_done
  BY <1>2, DoneImplements DEF Manager!Next
<1>3. CASE UNCHANGED vars
  BY <1>3 DEF vars, roles, Manager!vars, Whole, FrameOf
<1> QED BY <1>1, <1>2, <1>3

LEMMA InitImplements == Init => Manager!Init
<1> SUFFICES ASSUME Init PROVE Manager!Init
  OBVIOUS
<1>1. Manager!InitRegs /\ frames = 0 /\ WORDS \in Nat /\ WORDS > 0
  BY FrameWriterAssumption DEF Init
<1>2. \A b \in Buf : ~ Whole(b)
  <2> SUFFICES ASSUME NEW b \in Buf, NEW f \in 0 .. MaxFrames,
                      mem[b][0] = f * WORDS + 0 + 1
               PROVE  FALSE
    BY <1>1 DEF Whole
  <2>1. mem[b][0] = 0
    BY <1>1 DEF Init, Buf, Place
  <2>2. f * WORDS \in Nat
    BY <1>1, FrameWriterAssumption
  <2> QED BY <2>1, <2>2
<1> QED BY <1>1, <1>2 DEF Manager!Init, Manager!Buf, Buf

-----------------------------------------------------------------------------
\* No burst of the capture ever reaches a buffer on the screen or one waiting
\* to be shown (fb_wr_axi.v's latched aw_addr against fb_bufmgr5.v's roles).
THEOREM BurstsHitWriteBufferAlways == Spec => []BurstsHitWriteBuffer
<1>1. IInv => BurstsHitWriteBuffer
  BY DEF IInv, Roles, BurstsHitWriteBuffer
<1>2. IInv /\ [Next]_vars => IInv'
  BY NextIInv
<1> QED BY InitIInv, <1>1, <1>2, PTL DEF Spec

\* The stream never slips: between two frames a whole number of frames has
\* been written, the last one in place, and no burst runs past a frame's end.
THEOREM NeverSlipsAlways == Spec => []NeverSlips
<1>1. IInv => NeverSlips
  <2> SUFFICES ASSUME IInv PROVE NeverSlips
    OBVIOUS
  <2>1. \A b \in 0 .. NBUF - 1 : mem[b][WORDS] = 0
    BY DEF IInv, Contents, Buf
  <2>2. CASE state = "S_WAIT"
    <3>1. WORDS \in Nat /\ WORDS > 0 /\ Current + 1 \in Nat
      BY FilledBound, FrameWriterAssumption DEF IInv
    <3>2. word % WORDS = 0
      BY <2>2, <3>1, ClosedWhole, Multiple
    <3> QED BY <2>1, <2>2, <3>2, ClosedWhole DEF NeverSlips
  <2> QED BY <2>1, <2>2 DEF NeverSlips
<1>2. IInv /\ [Next]_vars => IInv'
  BY NextIInv
<1> QED BY InitIInv, <1>1, <1>2, PTL DEF Spec

\* AWVALID stays up until AWREADY, whatever quiesce does meanwhile.
THEOREM AwValidHeldAlways == Spec => AwValidHeld
<1>1. IInv /\ [Next]_vars => IInv'
  BY NextIInv
<1>2. IInv /\ [Next]_vars => [aw_valid /\ ~aw_valid' => state' = "S_W"]_vars
  <2> SUFFICES ASSUME IInv, Next, aw_valid, ~aw_valid'
               PROVE  state' = "S_W"
    OBVIOUS
  <2>1. state = "S_AW"
    BY DEF IInv, Places
  <2>2. PICK aw_ready, quiesce_i \in BOOLEAN : S_AW(aw_ready, quiesce_i)
    BY <2>1 DEF Next, Writer, S_W, S_B, S_WAIT
  <2> QED BY <2>2 DEF S_AW
<1> QED BY InitIInv, <1>1, <1>2, PTL DEF Spec, AwValidHeld

\* The writer is a correct client of the manager: every behaviour of the two
\* is one of fb_bufmgr5.v's contract, frame_done only for a whole new frame.
THEOREM ManagerImplemented == Spec => ManagerSpec
<1>1. IInv /\ [Next]_vars => IInv'
  BY NextIInv
<1>2. IInv /\ [Next]_vars => [Manager!Next]_Manager!vars
  BY NextImplements
<1> QED BY InitIInv, InitImplements, <1>1, <1>2, PTL DEF Spec, ManagerSpec, Manager!Spec

\* What comes of it for the picture, writer and manager together: while
\* prev_ok is up the pair on the screen is two whole adjacent frames out of the
\* capture's own words, and the frame shown never steps back.
THEOREM PictureTrue ==
    Spec => []Contract!PairAdjacent /\ [][Held'[disp'] >= Held[disp]]_vars
<1> DEFINE NotBack == Held'[disp'] >= Held[disp]
           CNext == [Contract!Next]_Contract!vars
<1>1. NBUF \in Nat /\ NBUF >= 5 /\ MaxFrames \in Nat
  BY FrameWriterAssumption DEF NBUF
<1>2. Init => Contract!IInv
  <2>1. Init => Contract!Init
    BY InitImplements DEF Manager!Init, Contract!Init, Manager!InitRegs,
       Contract!InitRegs, Manager!Buf, Contract!Buf, Held, Buf
  <2> QED BY <1>1, <2>1, Contract!InitIInv DEF Contract!FrameManagerAssumption
<1>3. [Manager!Next]_Manager!vars => CNext
  BY DEF Manager!Next, Contract!Next, Manager!vars, Contract!vars,
     Manager!Done, Contract!Done, Manager!Kick, Contract!Kick,
     Manager!DoneKick, Contract!DoneKick, Manager!CloseFrame, Contract!CloseFrame,
     Manager!ClockRegs, Contract!ClockRegs, Manager!pick_free, Contract!pick_free,
     Manager!Buf, Contract!Buf, Manager!bit, Contract!bit, Held, Buf
<1>4. Contract!IInv /\ CNext => Contract!IInv' /\ NotBack
  BY <1>1, Contract!NextIInv DEF Contract!FrameManagerAssumption
<1>5. IInv /\ [Next]_vars => IInv'
  BY NextIInv
<1>6. IInv /\ [Next]_vars => CNext
  BY <1>3, NextImplements
<1>7. IInv /\ Contract!IInv /\ [Next]_vars => Contract!IInv' /\ [NotBack]_vars
  BY <1>4, <1>6
<1>8. Contract!IInv => Contract!PairAdjacent
  BY DEF Contract!IInv
<1> HIDE DEF CNext, NotBack
<1>9. Spec => []Contract!PairAdjacent /\ [][NotBack]_vars
  BY InitIInv, <1>2, <1>5, <1>7, <1>8, PTL DEF Spec
<1> QED BY <1>9 DEF NotBack
=============================================================================
