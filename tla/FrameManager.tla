---------------------------- MODULE FrameManager ----------------------------
(***************************************************************************)
(* fb_bufmgr5.v: the five-buffer frame manager between the capture of the  *)
(* machine's picture and the HDMI reader.  One step is one clock edge with *)
(* its two inputs: frame_done (the capture closed the frame it writes) and *)
(* frame_kick (HDMI blanking: latch the pair to show); both may come in    *)
(* the same cycle.                                                         *)
(*                                                                         *)
(* Two ghosts say what the buffers hold: frames counts the frames closed   *)
(* since reset, fid[b] is the number of the whole frame in buffer b, 0 if  *)
(* b holds garbage or is being written.                                    *)
(***************************************************************************)
EXTENDS Naturals

CONSTANTS NBUF,       \* number of frame buffers, 5 in the code
          MaxFrames   \* bound on the frames of a behaviour

ASSUME FrameManagerAssumption ==
    /\ NBUF \in Nat /\ NBUF >= 5
    /\ MaxFrames \in Nat

VARIABLES wr, ready, older, disp, dprev,   \* the five roles
          nfr, pok,                        \* frames since reset (sat. 2), pair valid
          frames, fid                      \* ghosts

regs == <<wr, ready, older, disp, dprev, nfr, pok>>
vars == <<wr, ready, older, disp, dprev, nfr, pok, frames, fid>>

bit(condition) == IF condition THEN 1 ELSE 0

Buf == 0 .. NBUF - 1

\* The lowest buffer outside the busy ones; 0 when there is none.
pick_free(busy) ==
    IF Buf \ busy = {} THEN 0
    ELSE CHOOSE b \in Buf \ busy : \A c \in Buf \ busy : b <= c

InitRegs ==
    /\ wr = 0 /\ ready = 1 /\ older = 2 /\ disp = 3 /\ dprev = 4
    /\ nfr = 0 /\ pok = 0

\* Three ways to get the edge wrong: the counter not saturated, the roles of
\* the next cycle taken before the blanking moves them, the pair called good
\* one frame too early.
ClockRegsUnsaturated(frame_done, frame_kick) ==
    LET disp_n  == IF frame_kick THEN ready ELSE disp
        dprev_n == IF frame_kick THEN older ELSE dprev
    IN  /\ older' = IF frame_done THEN ready ELSE older
        /\ ready' = IF frame_done THEN wr ELSE ready
        /\ wr'    = IF frame_done THEN pick_free({disp_n, dprev_n, wr, ready}) ELSE wr
        /\ nfr'   = IF frame_done THEN nfr + 1 ELSE nfr
        /\ disp'  = disp_n
        /\ dprev' = dprev_n
        /\ pok'   = IF frame_kick THEN bit(nfr = 2) ELSE pok

ClockRegsOldPair(frame_done, frame_kick) ==
    /\ older' = IF frame_done THEN ready ELSE older
    /\ ready' = IF frame_done THEN wr ELSE ready
    /\ wr'    = IF frame_done THEN pick_free({disp, dprev, wr, ready}) ELSE wr
    /\ nfr'   = IF frame_done /\ nfr # 2 THEN nfr + 1 ELSE nfr
    /\ disp'  = IF frame_kick THEN ready ELSE disp
    /\ dprev' = IF frame_kick THEN older ELSE dprev
    /\ pok'   = IF frame_kick THEN bit(nfr = 2) ELSE pok

ClockRegsEarlyPair(frame_done, frame_kick) ==
    LET disp_n  == IF frame_kick THEN ready ELSE disp
        dprev_n == IF frame_kick THEN older ELSE dprev
    IN  /\ older' = IF frame_done THEN ready ELSE older
        /\ ready' = IF frame_done THEN wr ELSE ready
        /\ wr'    = IF frame_done THEN pick_free({disp_n, dprev_n, wr, ready}) ELSE wr
        /\ nfr'   = IF frame_done /\ nfr # 2 THEN nfr + 1 ELSE nfr
        /\ disp'  = disp_n
        /\ dprev' = dprev_n
        /\ pok'   = IF frame_kick THEN bit(nfr >= 1) ELSE pok

\* A reader that holds a single buffer: the manager forgets the shown frame.
ClockRegsForgetShown(frame_done, frame_kick) ==
    /\ older' = IF frame_done THEN ready ELSE older
    /\ ready' = IF frame_done THEN wr ELSE ready
    /\ wr'    = IF frame_done THEN pick_free({wr, ready}) ELSE wr
    /\ nfr'   = IF frame_done /\ nfr # 2 THEN nfr + 1 ELSE nfr
    /\ disp'  = IF frame_kick THEN ready ELSE disp
    /\ dprev' = IF frame_kick THEN older ELSE dprev
    /\ pok'   = IF frame_kick THEN bit(nfr = 2) ELSE pok

\* One clock edge of the manager's registers.
ClockRegs(frame_done, frame_kick) ==
    LET disp_n  == IF frame_kick THEN ready ELSE disp
        dprev_n == IF frame_kick THEN older ELSE dprev
    IN  /\ older' = IF frame_done THEN ready ELSE older
        /\ ready' = IF frame_done THEN wr ELSE ready
        /\ wr'    = IF frame_done THEN pick_free({disp_n, dprev_n, wr, ready}) ELSE wr
        /\ nfr'   = IF frame_done /\ nfr # 2 THEN nfr + 1 ELSE nfr
        /\ disp'  = disp_n
        /\ dprev' = dprev_n
        /\ pok'   = IF frame_kick THEN bit(nfr = 2) ELSE pok

-----------------------------------------------------------------------------
Init ==
    /\ InitRegs
    /\ frames = 0
    /\ fid = [b \in Buf |-> 0]

\* The buffer just closed holds the next frame; the one taken for writing
\* holds nothing whole any more.
CloseFrame ==
    /\ frames < MaxFrames
    /\ frames' = frames + 1
    /\ fid' = [fid EXCEPT ![wr] = frames + 1, ![wr'] = 0]

Done     == ClockRegs(TRUE, FALSE) /\ CloseFrame
Kick     == ClockRegs(FALSE, TRUE) /\ UNCHANGED <<frames, fid>>
DoneKick == ClockRegs(TRUE, TRUE) /\ CloseFrame

Next == Done \/ Kick \/ DoneKick

Spec == Init /\ [][Next]_vars

-----------------------------------------------------------------------------
TypeOK ==
    /\ {wr, ready, older, disp, dprev} \subseteq Buf
    /\ nfr \in 0 .. 2 /\ pok \in {0, 1}
    /\ frames \in 0 .. MaxFrames
    /\ fid \in [Buf -> 0 .. MaxFrames]

\* The capture cannot be stopped, so the buffer it writes must be none of the
\* four that are shown now or will be shown at the next blanking, even when
\* the machine closes two frames within one HDMI frame.
WriterIsolated == wr \notin {ready, older, disp, dprev}

\* While prev_ok is up the pair on the screen is two whole frames the machine
\* drew one right after the other: blending two frames of the same phase would
\* make gigascreen demos flicker.
PairAdjacent ==
    pok = 1 => fid[disp] > 1 /\ fid[dprev] = fid[disp] - 1

\* The picture never steps back to an earlier machine frame, and never to a
\* buffer that holds none, once a whole frame has been shown.
NeverBackwards == [][fid'[disp'] >= fid[disp]]_vars
=============================================================================
