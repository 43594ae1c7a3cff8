----------------------------- MODULE FrameWriter -----------------------------
(***************************************************************************)
(* fb_wr_axi.v driving fb_bufmgr5.v: the capture's word stream is written  *)
(* to DDR in bursts, one frame after another, and the buffer roles move    *)
(* when a frame's last response arrives.  Both are clocked by fclk100, so  *)
(* one step is one edge of it, with every combination of the inputs: the   *)
(* three AXI handshakes, the capture FIFO, quiesce and the HDMI blanking.  *)
(*                                                                         *)
(* Word number k of the stream is word k % WORDS of machine frame          *)
(* k \div WORDS + 1.  mem[b][i] is the stream number + 1 of the word in    *)
(* place i of buffer b, 0 for garbage; place WORDS is the first one beyond *)
(* the frame.                                                              *)
(***************************************************************************)
EXTENDS Naturals

CONSTANTS WORDS,      \* 64-bit words of a frame
          BEATS,      \* beats of a full burst, 16 in the code
          MaxFrames   \* bound on the frames of a behaviour

ASSUME FrameWriterAssumption ==
    /\ WORDS \in Nat \ {0} /\ BEATS \in Nat \ {0} /\ MaxFrames \in Nat

VARIABLES state, aw_valid, burst, beat, wcnt, frame_done,   \* fb_wr_axi
          base,                                             \* its aw_addr: the buffer
          wr, ready, older, disp, dprev, nfr, pok,          \* fb_bufmgr5
          mem, word, frames                                 \* DDR and ghosts

writer == <<state, aw_valid, burst, beat, wcnt, frame_done, base>>
roles  == <<wr, ready, older, disp, dprev, nfr, pok>>
vars   == <<writer, roles, mem, word, frames>>

FULLB   == WORDS \div BEATS
LASTB   == WORDS % BEATS
HASLAST == LASTB # 0
TOTB    == FULLB + (IF HASLAST THEN 1 ELSE 0)

NBUF == 5
Place == 0 .. WORDS

\* Buffer b holds all the words of one frame, in their places.
Whole(b) == \E f \in 0 .. MaxFrames :
                \A i \in 0 .. WORDS - 1 : mem[b][i] = f * WORDS + i + 1
FrameOf(b) == (mem[b][0] - 1) \div WORDS + 1

Manager == INSTANCE FrameManager WITH
    fid <- [b \in 0 .. NBUF - 1 |-> IF b # wr /\ Whole(b) THEN FrameOf(b) ELSE 0]

is_last   == HASLAST /\ burst = TOTB - 1
last_beat == IF is_last THEN LASTB - 1 ELSE BEATS - 1

\* No write transaction is in flight.
idle_o == (state = "S_AW" /\ ~aw_valid) \/ state = "S_WAIT"

Init ==
    /\ state = "S_AW" /\ aw_valid = FALSE /\ burst = 0 /\ beat = 0 /\ wcnt = 0
    /\ frame_done = FALSE
    /\ base = 0
    /\ Manager!InitRegs
    /\ mem = [b \in 0 .. NBUF - 1 |-> [i \in Place |-> 0]]
    /\ word = 0 /\ frames = 0

S_AWIgnoresHandshake(aw_ready, quiesce_i) ==
    /\ state = "S_AW"
    /\ IF aw_valid /\ aw_ready
       THEN aw_valid' = ~quiesce_i /\ beat' = 0 /\ state' = "S_W"
       ELSE aw_valid' = ~quiesce_i /\ UNCHANGED <<beat, state>>
    /\ frame_done' = FALSE
    /\ UNCHANGED <<burst, wcnt, base, mem, word>>

\* The address goes out; quiesce keeps a new one back, not one that is up.
S_AW(aw_ready, quiesce_i) ==
    /\ state = "S_AW"
    /\ IF aw_valid /\ aw_ready
       THEN aw_valid' = FALSE /\ beat' = 0 /\ state' = "S_W"
       ELSE aw_valid' = (aw_valid \/ ~quiesce_i) /\ UNCHANGED <<beat, state>>
    /\ frame_done' = FALSE
    /\ UNCHANGED <<burst, wcnt, base, mem, word>>

\* One W beat goes out when the FIFO has a word and the bus takes it.
S_W(w_ready, fifo_empty) ==
    /\ state = "S_W"
    /\ IF w_ready /\ ~fifo_empty
       THEN /\ word < MaxFrames * WORDS
            /\ mem' = [mem EXCEPT ![base][burst * BEATS + beat] = word + 1]
            /\ word' = word + 1
            /\ IF beat = last_beat THEN state' = "S_B" /\ beat' = beat
                                   ELSE state' = state /\ beat' = beat + 1
       ELSE UNCHANGED <<mem, word, state, beat>>
    /\ frame_done' = FALSE
    /\ UNCHANGED <<aw_valid, burst, wcnt, base>>

S_BNoPartial(b_valid) ==
    /\ state = "S_B"
    /\ IF ~b_valid THEN /\ frame_done' = FALSE
                        /\ UNCHANGED <<state, wcnt, burst>>
       ELSE IF burst = FULLB - 1
            THEN frame_done' = TRUE /\ wcnt' = 0 /\ state' = "S_WAIT" /\ UNCHANGED burst
            ELSE frame_done' = FALSE /\ burst' = burst + 1 /\ state' = "S_AW" /\ UNCHANGED wcnt
    /\ UNCHANGED <<aw_valid, beat, base, mem, word>>

S_B(b_valid) ==
    /\ state = "S_B"
    /\ IF ~b_valid THEN /\ frame_done' = FALSE
                        /\ UNCHANGED <<state, wcnt, burst>>
       ELSE IF burst = TOTB - 1
            THEN frame_done' = TRUE /\ wcnt' = 0 /\ state' = "S_WAIT" /\ UNCHANGED burst
            ELSE frame_done' = FALSE /\ burst' = burst + 1 /\ state' = "S_AW" /\ UNCHANGED wcnt
    /\ UNCHANGED <<aw_valid, beat, base, mem, word>>

S_WAITNotAtAll ==
    /\ state = "S_WAIT"
    /\ burst' = 0 /\ base' = wr /\ state' = "S_AW"
    /\ frame_done' = FALSE
    /\ UNCHANGED <<aw_valid, beat, wcnt, mem, word>>

\* Four cycles for the manager to move the roles, then the new base is taken.
S_WAIT ==
    /\ state = "S_WAIT"
    /\ IF wcnt = 3 THEN burst' = 0 /\ base' = wr /\ state' = "S_AW" /\ wcnt' = wcnt
                   ELSE wcnt' = wcnt + 1 /\ UNCHANGED <<burst, base, state>>
    /\ frame_done' = FALSE
    /\ UNCHANGED <<aw_valid, beat, mem, word>>

Writer(aw_ready, w_ready, b_valid, fifo_empty, quiesce_i) ==
    \/ S_AW(aw_ready, quiesce_i)
    \/ S_W(w_ready, fifo_empty)
    \/ S_B(b_valid)
    \/ S_WAIT

Next ==
    /\ \E aw_ready, w_ready, b_valid, fifo_empty, quiesce_i \in BOOLEAN :
           Writer(aw_ready, w_ready, b_valid, fifo_empty, quiesce_i)
    /\ \E frame_kick \in BOOLEAN : Manager!ClockRegs(frame_done, frame_kick)
    /\ frames' = IF frame_done THEN frames + 1 ELSE frames

Spec == Init /\ [][Next]_vars

-----------------------------------------------------------------------------
\* A buffer that is shown or waits to be shown is never written while a burst
\* is out: the base the writer latched is still the manager's write buffer.
BurstsHitWriteBuffer == ~ (state = "S_WAIT") => base \notin {ready, older, disp, dprev}

\* The stream never slips against the frames: when the writer is between two
\* frames it has consumed a whole number of frames' words, all in their
\* places, and nothing lies beyond the end of a buffer.
NeverSlips ==
    /\ state = "S_WAIT" => word % WORDS = 0 /\ Whole(base)
    /\ \A b \in 0 .. NBUF - 1 : mem[b][WORDS] = 0

\* A raised AWVALID stays up until AWREADY takes it, quiesce or not: dropping
\* it breaks AXI and hangs the port the reload of the fabric waits for.
AwValidHeld == [][aw_valid /\ ~aw_valid' => state' = "S_W"]_vars

\* The writer implements the manager's contract: frame_done comes only when
\* the buffer holds a whole frame, one machine frame after the last one.
ManagerSpec == Manager!Spec
=============================================================================
