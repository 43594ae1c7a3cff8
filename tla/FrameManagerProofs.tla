------------------------- MODULE FrameManagerProofs -------------------------
(***************************************************************************)
(* FrameManager for every NBUF >= 5 and every number of frames: the writer *)
(* never gets a buffer on the screen, and the pair shown is adjacent.      *)
(***************************************************************************)
EXTENDS FrameManager, TLAPS

\* What the ghosts know of the ready pair.
ReadyPair ==
    /\ frames >= 1 => fid[ready] = frames
    /\ frames >= 2 => fid[older] = frames - 1
    /\ nfr = IF frames >= 2 THEN 2 ELSE frames

NothingNewer == \A b \in Buf : fid[b] <= frames

\* The inductive invariant: PairAdjacent alone says nothing of the pair that
\* the next blanking will latch, so the ready pair has to be known too.
IInv ==
    /\ TypeOK
    /\ WriterIsolated
    /\ ready # older
    /\ ReadyPair
    /\ NothingNewer
    /\ PairAdjacent

\* Five buffers leave one free whichever four are busy, and pick_free finds it.
LEMMA PickFree ==
    ASSUME NEW a \in Buf, NEW b \in Buf, NEW c \in Buf, NEW d \in Buf
    PROVE  pick_free({a, b, c, d}) \in Buf \ {a, b, c, d}
<1> DEFINE T == Buf \ {a, b, c, d}
<1>1. \E m \in T : \A n \in T : m <= n
  <2>1. {0, 1, 2, 3, 4} \subseteq Buf
    BY FrameManagerAssumption DEF Buf
  <2>2. T \subseteq Nat
    BY FrameManagerAssumption DEF Buf
  <2>3. 0 \in T \/ 1 \in T \/ 2 \in T \/ 3 \in T \/ 4 \in T
    BY <2>1
  <2>4. CASE 0 \in T
    BY <2>2, <2>4
  <2>5. CASE 0 \notin T /\ 1 \in T
    BY <2>2, <2>5
  <2>6. CASE 0 \notin T /\ 1 \notin T /\ 2 \in T
    BY <2>2, <2>6
  <2>7. CASE 0 \notin T /\ 1 \notin T /\ 2 \notin T /\ 3 \in T
    BY <2>2, <2>7
  <2>8. CASE 0 \notin T /\ 1 \notin T /\ 2 \notin T /\ 3 \notin T /\ 4 \in T
    BY <2>2, <2>8
  <2> QED BY <2>3, <2>4, <2>5, <2>6, <2>7, <2>8
<1>2. T # {}
  BY <1>1
<1>3. (CHOOSE m \in T : \A n \in T : m <= n) \in T
  BY <1>1
<1> QED BY <1>2, <1>3 DEF pick_free

LEMMA InitIInv == Init => IInv
<1> SUFFICES ASSUME Init PROVE IInv
  OBVIOUS
<1>1. /\ wr = 0 /\ ready = 1 /\ older = 2 /\ disp = 3 /\ dprev = 4
      /\ nfr = 0 /\ pok = 0 /\ frames = 0 /\ fid = [b \in Buf |-> 0]
  BY DEF Init, InitRegs
<1>2. /\ {0, 1, 2, 3, 4} \subseteq Buf /\ MaxFrames \in Nat
      /\ 0 \in 0 .. MaxFrames
  BY FrameManagerAssumption DEF Buf
<1>3. TypeOK
  BY <1>1, <1>2 DEF TypeOK
<1>4. ReadyPair /\ NothingNewer /\ PairAdjacent /\ WriterIsolated /\ ready # older
  BY <1>1 DEF ReadyPair, NothingNewer, PairAdjacent, WriterIsolated
<1> QED BY <1>3, <1>4 DEF IInv

\* A frame closed, with or without a blanking in the same cycle.
LEMMA CloseStep ==
    ASSUME IInv, NEW kick \in BOOLEAN, ClockRegs(TRUE, kick), CloseFrame
    PROVE  IInv' /\ fid'[disp'] >= fid[disp]
<1> DEFINE dn == IF kick THEN ready ELSE disp
           pn == IF kick THEN older ELSE dprev
<1>0. /\ TypeOK /\ WriterIsolated /\ ready # older
      /\ ReadyPair /\ NothingNewer /\ PairAdjacent
  BY DEF IInv
<1>1. /\ wr \in Buf /\ ready \in Buf /\ older \in Buf /\ disp \in Buf /\ dprev \in Buf
      /\ frames \in Nat /\ MaxFrames \in Nat /\ frames < MaxFrames
      /\ fid \in [Buf -> 0 .. MaxFrames]
  BY <1>0, FrameManagerAssumption DEF TypeOK, CloseFrame
<1>2. /\ ready' = wr /\ older' = ready /\ disp' = dn /\ dprev' = pn
      /\ wr' \in Buf \ {dn, pn, wr, ready}
  BY <1>1, PickFree DEF ClockRegs
<1>3. /\ nfr' = IF nfr # 2 THEN nfr + 1 ELSE nfr
      /\ pok' = IF kick THEN bit(nfr = 2) ELSE pok
      /\ frames' = frames + 1
      /\ fid' = [fid EXCEPT ![wr] = frames + 1, ![wr'] = 0]
  BY DEF ClockRegs, CloseFrame
<1>4. /\ wr' # wr
      /\ fid'[wr] = frames + 1 /\ fid'[wr'] = 0
      /\ \A b \in Buf : b # wr /\ b # wr' => fid'[b] = fid[b]
  BY <1>1, <1>2, <1>3
<1>5. TypeOK'
  <2>1. frames' \in 0 .. MaxFrames /\ frames + 1 \in 0 .. MaxFrames /\ 0 \in 0 .. MaxFrames
    BY <1>1, <1>3
  <2>2. fid' \in [Buf -> 0 .. MaxFrames]
    BY <1>1, <1>3, <2>1
  <2>3. nfr' \in 0 .. 2 /\ pok' \in {0, 1}
    BY <1>0, <1>3 DEF TypeOK, bit
  <2>4. {wr', ready', older', disp', dprev'} \subseteq Buf
    BY <1>1, <1>2
  <2> QED BY <2>1, <2>2, <2>3, <2>4 DEF TypeOK
<1>6. WriterIsolated' /\ (ready # older)'
  BY <1>0, <1>2 DEF WriterIsolated
<1>7. ReadyPair'
  BY <1>0, <1>1, <1>2, <1>3, <1>4 DEF ReadyPair, WriterIsolated
<1>8. NothingNewer'
  BY <1>0, <1>1, <1>3, <1>4 DEF NothingNewer
<1>9. dn # wr /\ pn # wr /\ fid'[dn] = fid[dn] /\ fid'[pn] = fid[pn]
  BY <1>0, <1>1, <1>2, <1>4 DEF WriterIsolated
<1>10. PairAdjacent'
  BY <1>0, <1>1, <1>2, <1>3, <1>9 DEF PairAdjacent, ReadyPair, bit
<1>11. fid'[disp'] >= fid[disp]
  BY <1>0, <1>1, <1>2, <1>9 DEF ReadyPair, NothingNewer
<1> QED BY <1>5, <1>6, <1>7, <1>8, <1>10, <1>11 DEF IInv

\* A blanking alone.
LEMMA KickStep ==
    ASSUME IInv, Kick
    PROVE  IInv' /\ fid'[disp'] >= fid[disp]
<1>0. /\ TypeOK /\ WriterIsolated /\ ready # older
      /\ ReadyPair /\ NothingNewer /\ PairAdjacent
  BY DEF IInv
<1>1. /\ wr' = wr /\ ready' = ready /\ older' = older
      /\ disp' = ready /\ dprev' = older /\ nfr' = nfr /\ pok' = bit(nfr = 2)
      /\ frames' = frames /\ fid' = fid
  BY DEF Kick, ClockRegs
<1>2. /\ wr \in Buf /\ ready \in Buf /\ older \in Buf /\ disp \in Buf
      /\ frames \in Nat /\ MaxFrames \in Nat /\ fid \in [Buf -> 0 .. MaxFrames]
  BY <1>0, FrameManagerAssumption DEF TypeOK
<1>3. TypeOK'
  BY <1>0, <1>1 DEF TypeOK, bit
<1>4. (WriterIsolated /\ ready # older /\ ReadyPair /\ NothingNewer)'
  BY <1>0, <1>1 DEF WriterIsolated, ReadyPair, NothingNewer
<1>5. PairAdjacent'
  BY <1>0, <1>1, <1>2 DEF PairAdjacent, ReadyPair, bit
<1>6. fid'[disp'] >= fid[disp]
  BY <1>0, <1>1, <1>2 DEF ReadyPair, NothingNewer
<1> QED BY <1>3, <1>4, <1>5, <1>6 DEF IInv

LEMMA NextIInv == IInv /\ [Next]_vars => IInv' /\ fid'[disp'] >= fid[disp]
<1> SUFFICES ASSUME IInv, [Next]_vars
             PROVE  IInv' /\ fid'[disp'] >= fid[disp]
  OBVIOUS
<1>1. CASE Done
  BY <1>1, CloseStep DEF Done
<1>2. CASE Kick
  BY <1>2, KickStep
<1>3. CASE DoneKick
  BY <1>3, CloseStep DEF DoneKick
<1>4. CASE UNCHANGED vars
  BY <1>4 DEF IInv, TypeOK, WriterIsolated, ReadyPair, NothingNewer,
              PairAdjacent, vars, Buf
<1> QED BY <1>1, <1>2, <1>3, <1>4 DEF Next

-----------------------------------------------------------------------------
\* The roles stay buffers and the ghosts stay in range (fb_bufmgr5.v's registers).
THEOREM TypeCorrect == Spec => []TypeOK
<1>1. IInv => TypeOK
  BY DEF IInv
<1>2. IInv /\ [Next]_vars => IInv'
  BY NextIInv
<1> QED BY InitIInv, <1>1, <1>2, PTL DEF Spec

\* The capture never writes a buffer that is shown or about to be shown.
THEOREM WriterIsolatedAlways == Spec => []WriterIsolated
<1>1. IInv => WriterIsolated
  BY DEF IInv
<1>2. IInv /\ [Next]_vars => IInv'
  BY NextIInv
<1> QED BY InitIInv, <1>1, <1>2, PTL DEF Spec

\* While prev_ok is up the shown pair is two adjacent machine frames.
THEOREM PairAdjacentAlways == Spec => []PairAdjacent
<1>1. IInv => PairAdjacent
  BY DEF IInv
<1>2. IInv /\ [Next]_vars => IInv'
  BY NextIInv
<1> QED BY InitIInv, <1>1, <1>2, PTL DEF Spec

\* The picture never goes back in time.
THEOREM NeverBackwardsAlways == Spec => NeverBackwards
<1>1. IInv /\ [Next]_vars => IInv'
  BY NextIInv
<1>2. IInv /\ [Next]_vars => [fid'[disp'] >= fid[disp]]_vars
  BY NextIInv
<1> QED BY InitIInv, <1>1, <1>2, PTL DEF Spec, NeverBackwards
=============================================================================
