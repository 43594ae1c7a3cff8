-------------------------- MODULE CardSystemProofs --------------------------
(***************************************************************************)
(* What the driver is told of its writes is the truth, nothing else ever   *)
(* changes the volume, and what it reads is the sector it asked for, for   *)
(* any sizes, any driver and any number of commands, though the card is    *)
(* changed at any moment.                                                  *)
(*                                                                         *)
(* The invariant says of every state of the card's protocol where the      *)
(* driver is, and of every place of the ARM which request it serves.       *)
(***************************************************************************)
EXTENDS CardSystem, Integers, TLAPS

-----------------------------------------------------------------------------
(* Registers *)

Regs == {"attached", "state", "fcnt", "rcnt", "after", "wcnt", "resp", "dbase", "dcnt", "dlen",
         "lba", "multi", "stopnext", "idle_st", "spi_md", "app", "a41", "rq_rd", "rq_wr",
         "rq_seq", "rd_rdy", "rd_err", "wr_rdy", "wr_err", "rbuf", "wp", "out", "mem"}

\* d has the registers of c, but for those of F.
Same(c, d, F) == DOMAIN d = Regs /\ \A r \in Regs \ F : d[r] = c[r]

Memory == [RDA : Block, RDB : Block, WR : Block, CSD : {CSD}]

DataByte == {Byte("00"), Byte("csd"), Dat("p"), Dat("q")}
OutByte  == DataByte \cup {Byte(t) : t \in {"FF", "FE", "ERR", "E5", "ED"}}
            \cup {R1(v) : v \in {"ok", "idle", "bad"}}

ReadBuffers == {"RDA", "RDB"}
Buffers     == ReadBuffers \cup {"CSD"}

\* The states in which the card answers a command, and sends.
Reply == {"S_NCR", "S_RESP"}
Flow  == {"S_NAC", "S_TOKEN", "S_TX", "S_TXCRC", "S_MBGAP"}

Quiet(c) == [c EXCEPT !.out = Idle]

LEMMA Sizes ==
  /\ {FRAME, BLK, CSDLEN, NCR, NAC, WBUSY, SEQMOD, CAP, IMG} \subseteq Nat \ {0}
  /\ FRAME > 1 /\ CSDLEN <= BLK /\ IMG <= CAP
  BY CardAssumption, SystemAssumption DEF CardAssumption, SystemAssumption

LEMMA QuietIs ==
  ASSUME NEW c, DOMAIN c = Regs
  PROVE  Same(c, Quiet(c), {"out"}) /\ Quiet(c).out = Idle
  BY DEF Quiet, Same, Regs

\* A card that is out sees nothing.
LEMMA StepOut ==
  ASSUME NEW c, NEW b, DOMAIN c = Regs, ~c.attached
  PROVE  ByteStep(c, b) = Quiet(c)
  BY DEF ByteStep, Quiet

\* One byte to a card that is in, state by state; first those that take no
\* part in a stream.
LEMMA Dispatch ==
  ASSUME NEW c, NEW b, DOMAIN c = Regs, c.attached
  PROVE  LET q == Quiet(c)  d == ByteStep(c, b) IN
         /\ c.state \in {"S_IDLE", "S_ARG"} => d = Collect(q, b)
         /\ c.state = "S_NCR"    => d = S_NCR(q)
         /\ c.state = "S_RESP"   => d = S_RESP(q)
         /\ c.state = "S_RXWAIT" => d = S_RXWAIT(q, b)
         /\ c.state = "S_RX"     => d = S_RX(q, b)
         /\ c.state = "S_RXCRC"  => d = S_RXCRC(q)
         /\ c.state = "S_RXACK"  => d = S_RXACK(q)
         /\ c.state = "S_RXRESP" => d = S_RXRESP(q)
         /\ c.state = "S_BUSY"   => d = S_BUSY(q)
<1> DEFINE q == Quiet(c)  d == ByteStep(c, b)
<1>1. c.state = "S_IDLE" => d = Collect(q, b)
  BY DEF ByteStep, Sniff, sniff, Quiet, Regs
<1>2. c.state = "S_ARG" => d = Collect(q, b)
  BY DEF ByteStep, Sniff, sniff, Quiet, Regs
<1>3. c.state = "S_NCR" => d = S_NCR(q)
  BY DEF ByteStep, Sniff, sniff, Quiet, Regs
<1>4. c.state = "S_RESP" => d = S_RESP(q)
  BY DEF ByteStep, Sniff, sniff, Quiet, Regs
<1>5. c.state = "S_RXWAIT" => d = S_RXWAIT(q, b)
  BY DEF ByteStep, Sniff, sniff, Quiet, Regs
<1>6. c.state = "S_RX" => d = S_RX(q, b)
  BY DEF ByteStep, Sniff, sniff, Quiet, Regs
<1>7. c.state = "S_RXCRC" => d = S_RXCRC(q)
  BY DEF ByteStep, Sniff, sniff, Quiet, Regs
<1>8. c.state = "S_RXACK" => d = S_RXACK(q)
  BY DEF ByteStep, Sniff, sniff, Quiet, Regs
<1>9. c.state = "S_RXRESP" => d = S_RXRESP(q)
  BY DEF ByteStep, Sniff, sniff, Quiet, Regs
<1>10. c.state = "S_BUSY" => d = S_BUSY(q)
  BY DEF ByteStep, Sniff, sniff, Quiet, Regs
<1> QED BY <1>1, <1>2, <1>3, <1>4, <1>5, <1>6, <1>7, <1>8, <1>9, <1>10

\* A frame's bytes are counted, from the first one that begins a frame; the
\* last one is executed.
LEMMA StepCollect ==
  ASSUME NEW c, NEW b, DOMAIN c = Regs, c.attached, c.state \in {"S_IDLE", "S_ARG"},
         c.fcnt \in 0 .. FRAME - 1
  PROVE  LET d == ByteStep(c, b) IN
         \/ c.fcnt = 0 /\ ~starts(b) /\ d = Quiet(c)
         \/ /\ c.fcnt = 0 /\ starts(b) /\ d.fcnt = 1 /\ d.state = "S_ARG" /\ d.out = Idle
            /\ Same(c, d, {"out", "fcnt", "state"})
         \/ /\ c.fcnt # 0 /\ c.fcnt < FRAME - 1 /\ d.fcnt = c.fcnt + 1 /\ d.out = Idle
            /\ Same(c, d, {"out", "fcnt"})
         \/ c.fcnt = FRAME - 1 /\ d = Execute(Quiet(c), OpOf(b), ArgOf(b))
<1> DEFINE q == Quiet(c)  d == ByteStep(c, b)
<1>1. Same(c, q, {"out"}) /\ q.out = Idle BY QuietIs
<1>2. ByteStep(c, b) = Collect(q, b) BY Dispatch
<1>3. q.fcnt = c.fcnt BY <1>1 DEF Same, Regs
<1> HIDE DEF q
<1>4. CASE c.fcnt = 0 /\ ~starts(b)
  <2>1. Collect(q, b) = q BY <1>3, <1>4 DEF Collect
  <2> QED BY <2>1, <1>2, <1>4 DEF q
<1>5. CASE c.fcnt = 0 /\ starts(b)
  <2>1. d = [q EXCEPT !.fcnt = 1, !.state = "S_ARG"] BY <1>2, <1>3, <1>5 DEF Collect
  <2>2. d.fcnt = 1 /\ d.state = "S_ARG" /\ d.out = Idle BY <2>1, <1>1 DEF Same, Regs
  <2>3. Same(c, d, {"out", "fcnt", "state"}) BY <2>1, <1>1 DEF Same, Regs
  <2> QED BY <2>2, <2>3, <1>5
<1>6. CASE c.fcnt # 0 /\ c.fcnt < FRAME - 1
  <2>1. d = [q EXCEPT !.fcnt = q.fcnt + 1] BY <1>2, <1>3, <1>6 DEF Collect
  <2>2. d.fcnt = c.fcnt + 1 /\ d.out = Idle BY <2>1, <1>1, <1>3 DEF Same, Regs
  <2>3. Same(c, d, {"out", "fcnt"}) BY <2>1, <1>1 DEF Same, Regs
  <2> QED BY <2>2, <2>3, <1>6
<1>7. CASE c.fcnt # 0 /\ ~(c.fcnt < FRAME - 1)
  <2>1. Collect(q, b) = Execute(q, OpOf(b), ArgOf(b)) BY <1>3, <1>7 DEF Collect
  <2>2. c.fcnt = FRAME - 1 BY <1>7, Sizes
  <2> QED BY <2>1, <2>2, <1>2 DEF q
<1> QED BY <1>4, <1>5, <1>6, <1>7

LEMMA StepNcr ==
  ASSUME NEW c, NEW b, DOMAIN c = Regs, c.attached, c.state = "S_NCR"
  PROVE  LET d == ByteStep(c, b) IN
         /\ Same(c, d, {"state", "out", "wcnt"})
         /\ \/ d.state = "S_NCR" /\ d.out = Idle
            \/ d.state = "S_RESP" /\ d.out = R1(c.resp)
<1> DEFINE q == Quiet(c)  d == ByteStep(c, b)  n == [q EXCEPT !.wcnt = q.wcnt - 1]
<1>1. Same(c, q, {"out"}) /\ q.out = Idle BY QuietIs
<1>2. d = S_NCR(q) BY Dispatch
<1> HIDE DEF q
<1>3. Same(c, n, {"out", "wcnt"}) /\ n.out = Idle BY <1>1 DEF Same, Regs
<1>4. d = IF q.wcnt <= 1 THEN [n EXCEPT !.state = "S_RESP", !.out = R1(q.resp)] ELSE n
  BY <1>2 DEF S_NCR
<1>5. q.resp = c.resp BY <1>1 DEF Same, Regs
<1> HIDE DEF n
<1>6. CASE q.wcnt <= 1
  <2>1. d = [n EXCEPT !.state = "S_RESP", !.out = R1(q.resp)] BY <1>4, <1>6
  <2>2. d.state = "S_RESP" /\ d.out = R1(c.resp) BY <2>1, <1>3, <1>5 DEF Same, Regs
  <2>3. Same(c, d, {"state", "out", "wcnt"}) BY <2>1, <1>3 DEF Same, Regs
  <2> QED BY <2>2, <2>3
<1>7. CASE ~(q.wcnt <= 1)
  <2>1. d = n BY <1>4, <1>7
  <2>2. d.state = "S_NCR" /\ d.out = Idle BY <2>1, <1>3 DEF Same, Regs
  <2>3. Same(c, d, {"state", "out", "wcnt"}) BY <2>1, <1>3 DEF Same, Regs
  <2> QED BY <2>2, <2>3
<1> QED BY <1>6, <1>7

\* R1 is out: the state that the command asked for.
LEMMA StepResp ==
  ASSUME NEW c, NEW b, DOMAIN c = Regs, c.attached, c.state = "S_RESP"
  PROVE  LET d == ByteStep(c, b) IN
         /\ Same(c, d, {"state", "out", "wcnt", "dcnt", "dlen", "fcnt"})
         /\ d.state = c.after
         /\ c.after \in {"S_IDLE", "S_NAC", "S_RXWAIT"} => d.out = Idle
         /\ c.after = "S_IDLE" => d.fcnt = 0
         /\ c.after # "S_IDLE" => d.fcnt = c.fcnt
         /\ c.after = "S_NAC" => d.dcnt = 0 /\ d.dlen = BLK
         /\ c.after = "S_TOKEN" => d.dcnt = 0 /\ d.dlen = CSDLEN /\ d.out = Byte("FE")
         /\ c.after = "S_BUSY" => d.out = Busy
         /\ c.after \notin {"S_NAC", "S_TOKEN"} => d.dcnt = c.dcnt /\ d.dlen = c.dlen
<1> DEFINE q == Quiet(c)  d == ByteStep(c, b)
<1>1. Same(c, q, {"out"}) /\ q.out = Idle BY QuietIs
<1>2. ByteStep(c, b) = S_RESP(q) BY Dispatch
<1>3. q.after = c.after BY <1>1 DEF Same, Regs
<1> HIDE DEF q
<1>4. CASE c.after = "S_NAC"
  <2>1. d = [q EXCEPT !.dcnt = 0, !.dlen = BLK, !.wcnt = NAC, !.state = "S_NAC"]
    BY <1>2, <1>3, <1>4 DEF S_RESP
  <2>2. /\ d.state = "S_NAC" /\ d.out = Idle /\ d.fcnt = c.fcnt
        /\ d.dcnt = 0 /\ d.dlen = BLK
    BY <2>1, <1>1 DEF Same, Regs
  <2>3. Same(c, d, {"state", "out", "wcnt", "dcnt", "dlen", "fcnt"}) BY <2>1, <1>1 DEF Same, Regs
  <2> QED BY <2>2, <2>3, <1>4
<1>5. CASE c.after = "S_TOKEN"
  <2>1. d = [q EXCEPT !.dcnt = 0, !.dlen = CSDLEN, !.state = "S_TOKEN", !.out = Byte("FE")]
    BY <1>2, <1>3, <1>5 DEF S_RESP
  <2>2. /\ d.state = "S_TOKEN" /\ d.out = Byte("FE") /\ d.fcnt = c.fcnt
        /\ d.dcnt = 0 /\ d.dlen = CSDLEN
    BY <2>1, <1>1 DEF Same, Regs
  <2>3. Same(c, d, {"state", "out", "wcnt", "dcnt", "dlen", "fcnt"}) BY <2>1, <1>1 DEF Same, Regs
  <2> QED BY <2>2, <2>3, <1>5
<1>6. CASE c.after = "S_BUSY"
  <2>1. d = [q EXCEPT !.wcnt = WBUSY, !.state = "S_BUSY", !.out = Busy]
    BY <1>2, <1>3, <1>6 DEF S_RESP
  <2>2. /\ d.state = "S_BUSY" /\ d.out = Busy /\ d.fcnt = c.fcnt
        /\ d.dcnt = c.dcnt /\ d.dlen = c.dlen
    BY <2>1, <1>1 DEF Same, Regs
  <2>3. Same(c, d, {"state", "out", "wcnt", "dcnt", "dlen", "fcnt"}) BY <2>1, <1>1 DEF Same, Regs
  <2> QED BY <2>2, <2>3, <1>6
<1>7. CASE c.after = "S_IDLE"
  <2>1. d = [q EXCEPT !.state = "S_IDLE", !.fcnt = 0] BY <1>2, <1>3, <1>7 DEF S_RESP
  <2>2. /\ d.state = "S_IDLE" /\ d.out = Idle /\ d.fcnt = 0
        /\ d.dcnt = c.dcnt /\ d.dlen = c.dlen
    BY <2>1, <1>1 DEF Same, Regs
  <2>3. Same(c, d, {"state", "out", "wcnt", "dcnt", "dlen", "fcnt"}) BY <2>1, <1>1 DEF Same, Regs
  <2> QED BY <2>2, <2>3, <1>7
<1>8. CASE c.after \notin {"S_NAC", "S_TOKEN", "S_BUSY", "S_IDLE"}
  <2>1. d = [q EXCEPT !.state = c.after] BY <1>2, <1>3, <1>8 DEF S_RESP
  <2>2. /\ d.state = c.after /\ d.out = Idle /\ d.fcnt = c.fcnt
        /\ d.dcnt = c.dcnt /\ d.dlen = c.dlen
    BY <2>1, <1>1 DEF Same, Regs
  <2>3. Same(c, d, {"state", "out", "wcnt", "dcnt", "dlen", "fcnt"}) BY <2>1, <1>1 DEF Same, Regs
  <2> QED BY <2>2, <2>3, <1>8
<1> QED BY <1>4, <1>5, <1>6, <1>7, <1>8

LEMMA StepRxWait ==
  ASSUME NEW c, NEW b, DOMAIN c = Regs, c.attached, c.state = "S_RXWAIT"
  PROVE  LET d == ByteStep(c, b) IN
         \/ /\ b.t \in {"FE", "FC"} /\ d.dcnt = 0 /\ d.state = "S_RX" /\ d.out = Idle
            /\ Same(c, d, {"out", "dcnt", "state"})
         \/ /\ b.t = "FD" /\ ~d.multi /\ d.state = "S_BUSY" /\ d.out = Busy
            /\ Same(c, d, {"out", "multi", "wcnt", "state"})
         \/ b.t \notin {"FE", "FC", "FD"} /\ d = Quiet(c)
<1> DEFINE q == Quiet(c)  d == ByteStep(c, b)
<1>1. Same(c, q, {"out"}) /\ q.out = Idle BY QuietIs
<1>2. ByteStep(c, b) = S_RXWAIT(q, b) BY Dispatch
<1> HIDE DEF q
<1>3. CASE b.t \in {"FE", "FC"}
  <2>1. d = [q EXCEPT !.dcnt = 0, !.state = "S_RX"] BY <1>2, <1>3 DEF S_RXWAIT
  <2>2. d.dcnt = 0 /\ d.state = "S_RX" /\ d.out = Idle BY <2>1, <1>1 DEF Same, Regs
  <2>3. Same(c, d, {"out", "dcnt", "state"}) BY <2>1, <1>1 DEF Same, Regs
  <2> QED BY <2>2, <2>3, <1>3
<1>4. CASE b.t = "FD"
  <2>1. d = [q EXCEPT !.multi = FALSE, !.wcnt = WBUSY, !.state = "S_BUSY", !.out = Busy]
    BY <1>2, <1>4 DEF S_RXWAIT
  <2>2. ~d.multi /\ d.state = "S_BUSY" /\ d.out = Busy BY <2>1, <1>1 DEF Same, Regs
  <2>3. Same(c, d, {"out", "multi", "wcnt", "state"}) BY <2>1, <1>1 DEF Same, Regs
  <2> QED BY <2>2, <2>3, <1>4
<1>5. CASE b.t \notin {"FE", "FC", "FD"}
  <2>1. S_RXWAIT(q, b) = q BY <1>5 DEF S_RXWAIT
  <2> QED BY <2>1, <1>2, <1>5 DEF q
<1> QED BY <1>3, <1>4, <1>5

\* A byte of the block; the last one raises the request.
LEMMA StepRx ==
  ASSUME NEW c, NEW b, DOMAIN c = Regs, c.attached, c.state = "S_RX",
         c.dcnt \in 0 .. BLK - 1
  PROVE  LET d == ByteStep(c, b) IN
         /\ Same(c, d, {"state", "out", "dcnt", "mem", "rq_wr", "rq_seq", "wr_rdy", "wr_err"})
         /\ d.out = Idle /\ d.mem = [c.mem EXCEPT !.WR[c.dcnt] = b]
         /\ \/ /\ c.dcnt + 1 < BLK /\ d.dcnt = c.dcnt + 1
               /\ Same(c, d, {"out", "dcnt", "mem"})
            \/ /\ c.dcnt + 1 = BLK /\ d.state = "S_RXCRC" /\ d.dcnt = 0
               /\ IF c.wp THEN Same(c, d, {"out", "state", "dcnt", "mem"})
                  ELSE d.rq_wr /\ d.rq_seq = nextseq(c) /\ ~d.wr_rdy /\ ~d.wr_err
<1> DEFINE q == Quiet(c)  d == ByteStep(c, b)  n == [q EXCEPT !.mem.WR[q.dcnt] = b]
<1>1. Same(c, q, {"out"}) /\ q.out = Idle BY QuietIs
<1>2. d = S_RX(q, b) BY Dispatch
<1>3. Same(c, n, {"out", "mem"}) /\ n.out = Idle /\ n.mem = [c.mem EXCEPT !.WR[c.dcnt] = b]
  <2>1. q.dcnt = c.dcnt /\ q.mem = c.mem BY <1>1 DEF Same, Regs
  <2> HIDE DEF q
  <2> QED BY <1>1, <2>1 DEF Same, Regs
<1>4. q.dcnt = c.dcnt /\ q.wp = c.wp /\ nextseq(q) = nextseq(c) BY <1>1 DEF Same, Regs, nextseq
<1> HIDE DEF q
<1>5. S_RX(q, b) =
        IF q.dcnt + 1 >= BLK
        THEN IF q.wp THEN [n EXCEPT !.dcnt = 0, !.state = "S_RXCRC"]
             ELSE [n EXCEPT !.dcnt = 0, !.state = "S_RXCRC", !.rq_wr = TRUE, !.rq_seq = nextseq(q),
                            !.wr_rdy = FALSE, !.wr_err = FALSE]
        ELSE [n EXCEPT !.dcnt = n.dcnt + 1]
  BY DEF S_RX
<1> HIDE DEF n, d
<1>6. CASE c.dcnt + 1 < BLK
  <2>1. d = [n EXCEPT !.dcnt = n.dcnt + 1] BY <1>2, <1>4, <1>5, <1>6, Sizes
  <2>2. Same(c, d, {"out", "dcnt", "mem"}) /\ d.dcnt = c.dcnt + 1 /\ d.mem = n.mem /\ d.out = n.out
    BY <2>1, <1>3 DEF Same, Regs
  <2> QED BY <2>2, <1>3, <1>6 DEF Same, Regs, d
<1>7. CASE ~(c.dcnt + 1 < BLK) /\ c.wp
  <2>1. d = [n EXCEPT !.dcnt = 0, !.state = "S_RXCRC"] BY <1>2, <1>4, <1>5, <1>7, Sizes
  <2>2. /\ Same(c, d, {"out", "state", "dcnt", "mem"}) /\ d.dcnt = 0 /\ d.state = "S_RXCRC"
        /\ d.mem = n.mem /\ d.out = n.out
    BY <2>1, <1>3 DEF Same, Regs
  <2>3. c.dcnt + 1 = BLK BY <1>7, Sizes
  <2> QED BY <2>2, <2>3, <1>3, <1>7 DEF Same, Regs, d
<1>8. CASE ~(c.dcnt + 1 < BLK) /\ ~c.wp
  <2>1. d = [n EXCEPT !.dcnt = 0, !.state = "S_RXCRC", !.rq_wr = TRUE, !.rq_seq = nextseq(q),
                      !.wr_rdy = FALSE, !.wr_err = FALSE]
    BY <1>2, <1>4, <1>5, <1>8, Sizes
  <2>2. /\ Same(c, d, {"out", "state", "dcnt", "mem", "rq_wr", "rq_seq", "wr_rdy", "wr_err"})
        /\ d.dcnt = 0 /\ d.state = "S_RXCRC" /\ d.mem = n.mem /\ d.out = n.out
    BY <2>1, <1>3 DEF Same, Regs
  <2>3. d.rq_wr /\ d.rq_seq = nextseq(q) /\ ~d.wr_rdy /\ ~d.wr_err
    BY <2>1, <1>3 DEF Same, Regs
  <2>4. c.dcnt + 1 = BLK BY <1>8, Sizes
  <2> QED BY <2>2, <2>3, <2>4, <1>3, <1>4, <1>8 DEF d
<1> QED BY <1>6, <1>7, <1>8

LEMMA VerdictIs ==
  ASSUME NEW c, DOMAIN c = Regs
  PROVE  LET d == Verdict(c) IN
         /\ Same(c, d, {"state", "out"}) /\ d.state = "S_RXRESP"
         /\ d.out = Byte(IF c.wp \/ c.wr_err THEN "ED" ELSE "E5")
  BY DEF Verdict, Same, Regs

\* The data response is given when the answer is there, or none was asked for.
LEMMA StepRxCrc ==
  ASSUME NEW c, NEW b, DOMAIN c = Regs, c.attached, c.state \in {"S_RXCRC", "S_RXACK"}
  PROVE  LET d == ByteStep(c, b) IN
         /\ Same(c, d, {"state", "out", "dcnt"}) /\ d.dcnt \in {0, 1, c.dcnt}
         /\ \/ c.state = "S_RXCRC" /\ c.dcnt = 0 /\ d.dcnt = 1 /\ d.state = c.state /\ d.out = Idle
            \/ c.state = "S_RXCRC" /\ c.dcnt # 0 /\ d.dcnt = 0 /\ d.state = "S_RXACK" /\ d.out = Idle
            \/ c.state = "S_RXACK" /\ d.state = "S_RXACK" /\ d.out = Idle
            \/ /\ c.wp \/ c.wr_rdy
               /\ c.state = "S_RXCRC" => c.dcnt # 0
               /\ d.state = "S_RXRESP" /\ d.out = Byte(IF c.wp \/ c.wr_err THEN "ED" ELSE "E5")
<1> DEFINE q == Quiet(c)  d == ByteStep(c, b)
<1>1. Same(c, q, {"out"}) /\ q.out = Idle BY QuietIs
<1>2. CASE c.state = "S_RXACK"
  <2>1. ByteStep(c, b) = IF q.wr_rdy THEN Verdict(q) ELSE q BY <1>2, Dispatch DEF S_RXACK
  <2>2. CASE q.wr_rdy
    <3>1. ByteStep(c, b) = Verdict(q) BY <2>1, <2>2
    <3>2. Verdict(q).dcnt = c.dcnt BY <1>1, VerdictIs DEF Same, Regs
    <3> QED BY <3>2, <3>1, <2>2, <1>1, <1>2, VerdictIs DEF Same, Regs
  <2>3. CASE ~q.wr_rdy
    <3>1. ByteStep(c, b) = q BY <2>1, <2>3
    <3> HIDE DEF q
    <3> QED BY <3>1, <1>1, <1>2 DEF Same, Regs
  <2> QED BY <2>2, <2>3
<1>3. CASE c.state = "S_RXCRC"
  <2>1. ByteStep(c, b) = S_RXCRC(q) BY <1>3, Dispatch
  <2>2. q.dcnt = c.dcnt /\ q.wp = c.wp /\ q.wr_rdy = c.wr_rdy BY <1>1 DEF Same, Regs
  <2> HIDE DEF q
  <2>3. CASE c.dcnt = 0
    <3>1. S_RXCRC(q) = [q EXCEPT !.dcnt = 1] BY <2>2, <2>3 DEF S_RXCRC
    <3> QED BY <3>1, <2>1, <2>3, <1>1, <1>3 DEF Same, Regs
  <2>4. CASE c.dcnt # 0 /\ (c.wp \/ c.wr_rdy)
    <3> DEFINE n == [q EXCEPT !.dcnt = 0]
    <3>1. S_RXCRC(q) = Verdict(n) BY <2>2, <2>4 DEF S_RXCRC
    <3>2. Same(c, n, {"out", "dcnt"}) BY <1>1 DEF Same, Regs
    <3> HIDE DEF n
    <3>3. /\ Same(n, Verdict(n), {"state", "out"}) /\ Verdict(n).state = "S_RXRESP"
          /\ Verdict(n).out = Byte(IF n.wp \/ n.wr_err THEN "ED" ELSE "E5")
      BY <3>2, VerdictIs DEF Same
    <3>4. n.wp = c.wp /\ n.wr_err = c.wr_err BY <3>2 DEF Same, Regs
    <3>6. Verdict(n).dcnt = 0
      <4>1. n.dcnt = 0 BY <1>1 DEF n, Same, Regs
      <4> QED BY <4>1, <3>2, <3>3 DEF Same, Regs
    <3>5. Same(c, Verdict(n), {"state", "out", "dcnt"}) BY <3>2, <3>3 DEF Same
    <3> QED BY <3>1, <3>3, <3>4, <3>5, <3>6, <2>1, <2>4, <1>3
  <2>5. CASE c.dcnt # 0 /\ ~(c.wp \/ c.wr_rdy)
    <3>1. d = [q EXCEPT !.dcnt = 0, !.state = "S_RXACK"] BY <2>1, <2>2, <2>5 DEF S_RXCRC
    <3>2. d.dcnt = 0 /\ d.state = "S_RXACK" /\ d.out = Idle BY <3>1, <1>1 DEF Same, Regs
    <3>3. Same(c, d, {"state", "out", "dcnt"}) BY <3>1, <1>1 DEF Same, Regs
    <3> QED BY <3>2, <3>3, <2>5, <1>3
  <2> QED BY <2>3, <2>4, <2>5
<1> QED BY <1>2, <1>3

LEMMA StepRxResp ==
  ASSUME NEW c, NEW b, DOMAIN c = Regs, c.attached, c.state = "S_RXRESP"
  PROVE  LET d == ByteStep(c, b) IN
         Same(c, d, {"state", "out", "wcnt"}) /\ d.state = "S_BUSY" /\ d.out = Busy
<1> DEFINE q == Quiet(c)
<1>1. Same(c, q, {"out"}) BY QuietIs
<1>2. ByteStep(c, b) = S_RXRESP(q) BY Dispatch
<1> HIDE DEF q
<1> QED BY <1>1, <1>2 DEF S_RXRESP, Same, Regs

LEMMA StepBusy ==
  ASSUME NEW c, NEW b, DOMAIN c = Regs, c.attached, c.state = "S_BUSY"
  PROVE  LET d == ByteStep(c, b) IN
         /\ Same(c, d, {"state", "out", "wcnt", "lba", "fcnt"})
         /\ \/ d.state = "S_BUSY" /\ d.out = Busy /\ d.lba = c.lba /\ d.fcnt = c.fcnt
            \/ c.multi /\ d.state = "S_RXWAIT" /\ d.out = Idle /\ d.lba = c.lba + 1 /\ d.fcnt = c.fcnt
            \/ d.state = "S_IDLE" /\ d.out = Idle /\ d.lba = c.lba /\ d.fcnt = 0
<1> DEFINE q == Quiet(c)  d == ByteStep(c, b)  n == [q EXCEPT !.wcnt = q.wcnt - 1]
<1>1. Same(c, q, {"out"}) /\ q.out = Idle BY QuietIs
<1>2. d = S_BUSY(q) BY Dispatch
<1> HIDE DEF q
<1>3. Same(c, n, {"out", "wcnt"}) /\ n.out = Idle BY <1>1 DEF Same, Regs
<1>4. q.multi = c.multi BY <1>1 DEF Same, Regs
<1>5. \/ d = [n EXCEPT !.out = Busy]
      \/ q.multi /\ d = [n EXCEPT !.lba = n.lba + 1, !.state = "S_RXWAIT"]
      \/ d = [n EXCEPT !.state = "S_IDLE", !.fcnt = 0]
  BY <1>2 DEF S_BUSY
<1> HIDE DEF n
<1>6. CASE d = [n EXCEPT !.out = Busy]
  <2>1. d.state = "S_BUSY" /\ d.out = Busy /\ d.lba = c.lba /\ d.fcnt = c.fcnt
    BY <1>6, <1>3 DEF Same, Regs
  <2>2. Same(c, d, {"state", "out", "wcnt", "lba", "fcnt"}) BY <1>6, <1>3 DEF Same, Regs
  <2> QED BY <2>1, <2>2
<1>7. CASE q.multi /\ d = [n EXCEPT !.lba = n.lba + 1, !.state = "S_RXWAIT"]
  <2>1. d.state = "S_RXWAIT" /\ d.out = Idle /\ d.lba = c.lba + 1 /\ d.fcnt = c.fcnt
    BY <1>7, <1>3 DEF Same, Regs
  <2>2. Same(c, d, {"state", "out", "wcnt", "lba", "fcnt"}) BY <1>7, <1>3 DEF Same, Regs
  <2> QED BY <2>1, <2>2, <1>4, <1>7
<1>8. CASE d = [n EXCEPT !.state = "S_IDLE", !.fcnt = 0]
  <2>1. d.state = "S_IDLE" /\ d.out = Idle /\ d.lba = c.lba /\ d.fcnt = 0
    BY <1>8, <1>3 DEF Same, Regs
  <2>2. Same(c, d, {"state", "out", "wcnt", "lba", "fcnt"}) BY <1>8, <1>3 DEF Same, Regs
  <2> QED BY <2>1, <2>2
<1> QED BY <1>5, <1>6, <1>7, <1>8

-----------------------------------------------------------------------------
(* Commands, and the stream *)

LEMMA AnswerIs ==
  ASSUME NEW c, NEW v, NEW after, DOMAIN c = Regs
  PROVE  LET d == Answer(c, v, after) IN
         /\ Same(c, d, {"resp", "after", "wcnt", "state"})
         /\ d.resp = v /\ d.after = after /\ d.state = "S_NCR"
  BY DEF Answer, Same, Regs

LEMMA AskReadIs ==
  ASSUME NEW c, NEW l, DOMAIN c = Regs
  PROVE  LET d == AskRead(c, l) IN
         /\ Same(c, d, {"lba", "rq_rd", "rq_seq", "rd_rdy", "rd_err"})
         /\ d.lba = l /\ d.rq_rd /\ d.rq_seq = nextseq(c) /\ ~d.rd_rdy /\ ~d.rd_err
  BY DEF AskRead, Same, Regs

CmdRegs == {"state", "fcnt", "after", "resp", "wcnt", "app", "idle_st", "spi_md", "a41",
            "multi", "stopnext", "dbase"}
AskRegs == {"lba", "rq_rd", "rq_seq", "rd_rdy", "rd_err"}

\* What a command leaves behind: an answer only, the CSD to send, a sector to
\* ask the shell for, or a block to wait for.
Executed(c, d, op, argv) ==
    /\ DOMAIN d = Regs /\ d.state = "S_NCR" /\ d.fcnt = 0 /\ d.resp \in {"ok", "idle", "bad"}
    /\ \/ /\ d.after = "S_IDLE" /\ d.dbase = c.dbase
          /\ Same(c, d, CmdRegs)
       \/ /\ op = "CMD9" /\ d.after = "S_TOKEN" /\ d.resp = "ok" /\ ~d.multi /\ d.dbase = "CSD"
          /\ Same(c, d, CmdRegs)
       \/ /\ op \in {"CMD17", "CMD18"} /\ d.after = "S_NAC" /\ d.resp = "ok" /\ d.dbase = c.dbase
          /\ ~d.stopnext /\ (d.multi <=> op = "CMD18")
          /\ d.lba = argv /\ d.rq_rd /\ d.rq_seq = nextseq(c) /\ ~d.rd_rdy /\ ~d.rd_err
          /\ Same(c, d, CmdRegs \cup AskRegs)
       \/ /\ op \in WriteOps /\ d.after = "S_RXWAIT" /\ d.resp = "ok" /\ d.dbase = c.dbase
          /\ d.lba = argv /\ (d.multi <=> op = "CMD25")
          /\ Same(c, d, CmdRegs \cup {"lba"})

LEMMA AnswerOnly ==
  ASSUME NEW c, NEW x, NEW v \in {"ok", "idle", "bad"}, NEW op, NEW argv,
         Same(c, x, CmdRegs), x.fcnt = 0, x.dbase = c.dbase
  PROVE  Executed(c, Answer(x, v, "S_IDLE"), op, argv)
<1> DEFINE d == Answer(x, v, "S_IDLE")
<1>1. /\ Same(x, d, {"resp", "after", "wcnt", "state"})
      /\ d.resp = v /\ d.after = "S_IDLE" /\ d.state = "S_NCR"
  BY AnswerIs DEF Same
<1> HIDE DEF d
<1>2. d.fcnt = 0 /\ d.dbase = c.dbase BY <1>1 DEF Same, Regs
<1>3. Same(c, d, CmdRegs) BY <1>1 DEF Same, CmdRegs
<1>4. Executed(c, d, op, argv) BY <1>1, <1>2, <1>3 DEF Executed, Same
<1> QED BY <1>4 DEF d

LEMMA ExecuteIs ==
  ASSUME NEW c, NEW op, NEW argv, DOMAIN c = Regs
  PROVE  Executed(c, Execute(c, op, argv), op, argv)
<1> DEFINE e == [c EXCEPT !.fcnt = 0, !.app = FALSE]
           d == Execute(c, op, argv)
<1>1. Same(c, e, {"fcnt", "app"}) /\ e.fcnt = 0 BY DEF Same, Regs
<1>2. nextseq(e) = nextseq(c) /\ r1b(e) \in {"ok", "idle"} BY <1>1 DEF Same, Regs, nextseq, r1b
<1>3. d = IF ~e.spi_md /\ op # "CMD0" THEN Answer(e, "bad", "S_IDLE") ELSE
          CASE op = "CMD0" ->
                Answer([e EXCEPT !.spi_md = TRUE, !.idle_st = TRUE, !.a41 = A41], "idle", "S_IDLE")
          [] op = "CMD1" \/ (c.app /\ op = "CMD41") ->
                IF e.a41 # 0 THEN Answer([e EXCEPT !.a41 = e.a41 - 1], "idle", "S_IDLE")
                             ELSE Answer([e EXCEPT !.idle_st = FALSE], "ok", "S_IDLE")
          [] op = "CMD9" ->
                IF e.idle_st THEN Answer(e, r1b(e), "S_IDLE")
                ELSE Answer([e EXCEPT !.multi = FALSE, !.dbase = "CSD"], "ok", "S_TOKEN")
          [] op = "CMD12" -> Answer([e EXCEPT !.multi = FALSE, !.stopnext = FALSE], r1b(e), "S_IDLE")
          [] op \in {"CMD17", "CMD18"} ->
                IF e.idle_st \/ argv >= CAP THEN Answer(e, "bad", "S_IDLE")
                ELSE Answer(AskRead([e EXCEPT !.multi = (op = "CMD18"), !.stopnext = FALSE], argv),
                            "ok", "S_NAC")
          [] op \in {"CMD24", "CMD25"} ->
                IF e.idle_st \/ argv >= CAP THEN Answer(e, "bad", "S_IDLE")
                ELSE Answer([e EXCEPT !.lba = argv, !.multi = (op = "CMD25")], "ok", "S_RXWAIT")
          [] op = "CMD41" /\ ~c.app -> Answer(e, "bad", "S_IDLE")
          [] op = "CMD55" -> Answer([e EXCEPT !.app = TRUE], r1b(e), "S_IDLE")
          [] OTHER -> Answer(e, r1b(e), "S_IDLE")
  BY DEF Execute
<1> HIDE DEF e, d
<1>4. \/ d = Answer(e, "bad", "S_IDLE")
      \/ d = Answer([e EXCEPT !.spi_md = TRUE, !.idle_st = TRUE, !.a41 = A41], "idle", "S_IDLE")
      \/ d = Answer([e EXCEPT !.a41 = e.a41 - 1], "idle", "S_IDLE")
      \/ d = Answer([e EXCEPT !.idle_st = FALSE], "ok", "S_IDLE")
      \/ d = Answer(e, r1b(e), "S_IDLE")
      \/ op = "CMD9" /\ d = Answer([e EXCEPT !.multi = FALSE, !.dbase = "CSD"], "ok", "S_TOKEN")
      \/ d = Answer([e EXCEPT !.multi = FALSE, !.stopnext = FALSE], r1b(e), "S_IDLE")
      \/ /\ op \in {"CMD17", "CMD18"}
         /\ d = Answer(AskRead([e EXCEPT !.multi = (op = "CMD18"), !.stopnext = FALSE], argv),
                       "ok", "S_NAC")
      \/ /\ op \in WriteOps
         /\ d = Answer([e EXCEPT !.lba = argv, !.multi = (op = "CMD25")], "ok", "S_RXWAIT")
      \/ d = Answer([e EXCEPT !.app = TRUE], r1b(e), "S_IDLE")
  <2> DEFINE bad == Answer(e, "bad", "S_IDLE")
             reset == Answer([e EXCEPT !.spi_md = TRUE, !.idle_st = TRUE, !.a41 = A41], "idle", "S_IDLE")
             later == Answer([e EXCEPT !.a41 = e.a41 - 1], "idle", "S_IDLE")
             ready == Answer([e EXCEPT !.idle_st = FALSE], "ok", "S_IDLE")
             plain == Answer(e, r1b(e), "S_IDLE")
             csd   == Answer([e EXCEPT !.multi = FALSE, !.dbase = "CSD"], "ok", "S_TOKEN")
             stop  == Answer([e EXCEPT !.multi = FALSE, !.stopnext = FALSE], r1b(e), "S_IDLE")
             read  == Answer(AskRead([e EXCEPT !.multi = (op = "CMD18"), !.stopnext = FALSE], argv),
                             "ok", "S_NAC")
             write == Answer([e EXCEPT !.lba = argv, !.multi = (op = "CMD25")], "ok", "S_RXWAIT")
             app   == Answer([e EXCEPT !.app = TRUE], r1b(e), "S_IDLE")
  <2> HIDE DEF bad, reset, later, ready, plain, csd, stop, read, write, app
  <2>1. d = IF ~e.spi_md /\ op # "CMD0" THEN bad ELSE
          CASE op = "CMD0" -> reset
          [] op = "CMD1" \/ (c.app /\ op = "CMD41") -> IF e.a41 # 0 THEN later ELSE ready
          [] op = "CMD9" -> IF e.idle_st THEN plain ELSE csd
          [] op = "CMD12" -> stop
          [] op \in {"CMD17", "CMD18"} -> IF e.idle_st \/ argv >= CAP THEN bad ELSE read
          [] op \in {"CMD24", "CMD25"} -> IF e.idle_st \/ argv >= CAP THEN bad ELSE write
          [] op = "CMD41" /\ ~c.app -> bad
          [] op = "CMD55" -> app
          [] OTHER -> plain
    BY <1>3 DEF bad, reset, later, ready, plain, csd, stop, read, write, app
  <2>2. \/ d \in {bad, reset, later, ready, plain, stop, app}
        \/ op = "CMD9" /\ d = csd
        \/ op \in {"CMD17", "CMD18"} /\ d = read
        \/ op \in {"CMD24", "CMD25"} /\ d = write
    BY <2>1
  <2> QED BY <2>2 DEF bad, reset, later, ready, plain, csd, stop, read, write, app, WriteOps
<1> SUFFICES Executed(c, d, op, argv) BY DEF d
<1>5. Same(c, e, CmdRegs) /\ e.fcnt = 0 /\ e.dbase = c.dbase BY <1>1 DEF Same, CmdRegs, Regs
<1>6. CASE \/ d = Answer(e, "bad", "S_IDLE")
           \/ d = Answer(e, r1b(e), "S_IDLE")
  BY <1>2, <1>5, <1>6, AnswerOnly
<1>7. CASE d = Answer([e EXCEPT !.spi_md = TRUE, !.idle_st = TRUE, !.a41 = A41], "idle", "S_IDLE")
  <2> DEFINE x == [e EXCEPT !.spi_md = TRUE, !.idle_st = TRUE, !.a41 = A41]
  <2>1. Same(c, x, CmdRegs) /\ x.fcnt = 0 /\ x.dbase = c.dbase BY <1>5 DEF Same, CmdRegs, Regs
  <2> HIDE DEF x
  <2>2. Executed(c, Answer(x, "idle", "S_IDLE"), op, argv) BY <2>1, AnswerOnly
  <2> QED BY <2>2, <1>7 DEF x
<1>8. CASE d = Answer([e EXCEPT !.a41 = e.a41 - 1], "idle", "S_IDLE")
  <2> DEFINE x == [e EXCEPT !.a41 = e.a41 - 1]
  <2>1. Same(c, x, CmdRegs) /\ x.fcnt = 0 /\ x.dbase = c.dbase BY <1>5 DEF Same, CmdRegs, Regs
  <2> HIDE DEF x
  <2>2. Executed(c, Answer(x, "idle", "S_IDLE"), op, argv) BY <2>1, AnswerOnly
  <2> QED BY <2>2, <1>8 DEF x
<1>9. CASE d = Answer([e EXCEPT !.idle_st = FALSE], "ok", "S_IDLE")
  <2> DEFINE x == [e EXCEPT !.idle_st = FALSE]
  <2>1. Same(c, x, CmdRegs) /\ x.fcnt = 0 /\ x.dbase = c.dbase BY <1>5 DEF Same, CmdRegs, Regs
  <2> HIDE DEF x
  <2>2. Executed(c, Answer(x, "ok", "S_IDLE"), op, argv) BY <2>1, AnswerOnly
  <2> QED BY <2>2, <1>9 DEF x
<1>10. CASE d = Answer([e EXCEPT !.multi = FALSE, !.stopnext = FALSE], r1b(e), "S_IDLE")
  <2> DEFINE x == [e EXCEPT !.multi = FALSE, !.stopnext = FALSE]
  <2>1. Same(c, x, CmdRegs) /\ x.fcnt = 0 /\ x.dbase = c.dbase BY <1>5 DEF Same, CmdRegs, Regs
  <2> HIDE DEF x
  <2>2. Executed(c, Answer(x, r1b(e), "S_IDLE"), op, argv) BY <2>1, <1>2, AnswerOnly
  <2> QED BY <2>2, <1>10 DEF x
<1>11. CASE d = Answer([e EXCEPT !.app = TRUE], r1b(e), "S_IDLE")
  <2> DEFINE x == [e EXCEPT !.app = TRUE]
  <2>1. Same(c, x, CmdRegs) /\ x.fcnt = 0 /\ x.dbase = c.dbase BY <1>5 DEF Same, CmdRegs, Regs
  <2> HIDE DEF x
  <2>2. Executed(c, Answer(x, r1b(e), "S_IDLE"), op, argv) BY <2>1, <1>2, AnswerOnly
  <2> QED BY <2>2, <1>11 DEF x
<1>12. CASE op = "CMD9" /\ d = Answer([e EXCEPT !.multi = FALSE, !.dbase = "CSD"], "ok", "S_TOKEN")
  <2> DEFINE x == [e EXCEPT !.multi = FALSE, !.dbase = "CSD"]
  <2>1. /\ Same(c, x, CmdRegs) /\ x.fcnt = 0
        /\ ~x.multi /\ x.dbase = "CSD"
    BY <1>5 DEF Same, CmdRegs, Regs
  <2>9. d = Answer(x, "ok", "S_TOKEN") BY <1>12
  <2> HIDE DEF x
  <2>2. /\ Same(x, d, {"resp", "after", "wcnt", "state"})
        /\ d.resp = "ok" /\ d.after = "S_TOKEN" /\ d.state = "S_NCR"
    BY <2>1, <2>9, AnswerIs DEF Same
  <2>3. d.fcnt = 0 /\ ~d.multi /\ d.dbase = "CSD" BY <2>1, <2>2 DEF Same, Regs
  <2>4. Same(c, d, CmdRegs) BY <2>1, <2>2 DEF Same, CmdRegs
  <2> QED BY <2>2, <2>3, <2>4, <1>12 DEF Executed, Same
<1>13. CASE /\ op \in {"CMD17", "CMD18"}
            /\ d = Answer(AskRead([e EXCEPT !.multi = (op = "CMD18"), !.stopnext = FALSE], argv),
                          "ok", "S_NAC")
  <2> DEFINE x == [e EXCEPT !.multi = (op = "CMD18"), !.stopnext = FALSE]
             y == AskRead(x, argv)
  <2>1. /\ Same(c, x, CmdRegs) /\ x.fcnt = 0 /\ x.dbase = c.dbase
        /\ (x.multi <=> op = "CMD18") /\ ~x.stopnext
    BY <1>5 DEF Same, CmdRegs, Regs
  <2>2. nextseq(x) = nextseq(c) BY <2>1 DEF Same, CmdRegs, Regs, nextseq
  <2> HIDE DEF x
  <2>3. /\ Same(x, y, {"lba", "rq_rd", "rq_seq", "rd_rdy", "rd_err"})
        /\ y.lba = argv /\ y.rq_rd /\ y.rq_seq = nextseq(c) /\ ~y.rd_rdy /\ ~y.rd_err
    BY <2>1, <2>2, AskReadIs DEF Same
  <2> HIDE DEF y
  <2>4. /\ Same(y, d, {"resp", "after", "wcnt", "state"})
        /\ d.resp = "ok" /\ d.after = "S_NAC" /\ d.state = "S_NCR"
    BY <2>3, <1>13, AnswerIs DEF Same, x, y
  <2>5. /\ d.lba = argv /\ d.rq_rd /\ d.rq_seq = nextseq(c) /\ ~d.rd_rdy /\ ~d.rd_err
    BY <2>3, <2>4 DEF Same, Regs
  <2>6. d.fcnt = 0 /\ (d.multi <=> op = "CMD18") /\ ~d.stopnext /\ d.dbase = c.dbase
    BY <2>1, <2>3, <2>4 DEF Same, Regs
  <2>7. Same(c, d, CmdRegs \cup AskRegs) BY <2>1, <2>3, <2>4 DEF Same, CmdRegs, AskRegs
  <2> QED BY <2>4, <2>5, <2>6, <2>7, <1>13 DEF Executed, Same
<1>14. CASE /\ op \in WriteOps
            /\ d = Answer([e EXCEPT !.lba = argv, !.multi = (op = "CMD25")], "ok", "S_RXWAIT")
  <2> DEFINE x == [e EXCEPT !.lba = argv, !.multi = (op = "CMD25")]
  <2>1. /\ Same(c, x, CmdRegs \cup {"lba"}) /\ x.fcnt = 0 /\ x.dbase = c.dbase
        /\ (x.multi <=> op = "CMD25") /\ x.lba = argv
    BY <1>5 DEF Same, CmdRegs, Regs
  <2>9. d = Answer(x, "ok", "S_RXWAIT") BY <1>14
  <2> HIDE DEF x
  <2>2. /\ Same(x, d, {"resp", "after", "wcnt", "state"})
        /\ d.resp = "ok" /\ d.after = "S_RXWAIT" /\ d.state = "S_NCR"
    BY <2>1, <2>9, AnswerIs DEF Same
  <2>3. d.fcnt = 0 /\ (d.multi <=> op = "CMD25") /\ d.lba = argv /\ d.dbase = c.dbase
    BY <2>1, <2>2 DEF Same, Regs
  <2>4. Same(c, d, CmdRegs \cup {"lba"}) BY <2>1, <2>2 DEF Same, CmdRegs
  <2> QED BY <2>2, <2>3, <2>4, <1>14 DEF Executed, Same
<1> QED BY <1>4, <1>6, <1>7, <1>8, <1>9, <1>10, <1>11, <1>12, <1>13, <1>14

\* One byte of a stream, but for what the receiver hears meanwhile.
Flowed(c, d) ==
    /\ DOMAIN d = Regs
    /\ \/ /\ c.state \in {"S_NAC", "S_MBGAP"} /\ d.out = Idle
          /\ Same(c, d, {"out", "wcnt"})
       \/ /\ c.state \in {"S_NAC", "S_MBGAP"} /\ c.rd_rdy /\ c.rd_err
          /\ d.state = "S_IDLE" /\ d.fcnt = 0 /\ ~d.multi /\ d.out = Byte("ERR")
          /\ Same(c, d, {"out", "wcnt", "state", "fcnt", "multi"})
       \/ /\ c.state \in {"S_NAC", "S_MBGAP"} /\ c.rd_rdy /\ ~c.rd_err
          /\ d.state = "S_TOKEN" /\ d.dcnt = 0 /\ d.dlen = BLK /\ d.out = Byte("FE")
          /\ Same(c, d, {"out", "wcnt", "state", "dcnt", "dlen"})
       \/ /\ c.state = "S_TOKEN" /\ d.state = "S_TX" /\ d.dcnt = 0 /\ d.out = c.mem[c.dbase][0]
          /\ Same(c, d, {"out", "state", "dcnt"})
       \/ /\ c.state = "S_TX" /\ c.dcnt + 1 >= c.dlen
          /\ d.state = "S_TXCRC" /\ d.dcnt = 0 /\ d.out = Idle
          /\ Same(c, d, {"out", "state", "dcnt"})
       \/ /\ c.state = "S_TX" /\ ~(c.dcnt + 1 >= c.dlen)
          /\ d.dcnt = c.dcnt + 1 /\ d.out = c.mem[c.dbase][c.dcnt + 1]
          /\ Same(c, d, {"out", "dcnt"})
       \/ /\ c.state = "S_TXCRC" /\ c.dcnt = 0 /\ d.dcnt = 1 /\ d.out = Idle
          /\ Same(c, d, {"out", "dcnt"})
       \/ /\ c.state = "S_TXCRC" /\ c.dcnt # 0 /\ c.multi
          /\ d.state = "S_MBGAP" /\ d.dcnt = 0 /\ d.out = Idle
          /\ d.lba = c.lba + 1 /\ d.rq_rd /\ d.rq_seq = nextseq(c) /\ ~d.rd_rdy /\ ~d.rd_err
          /\ Same(c, d, {"out", "dcnt", "wcnt", "state"} \cup AskRegs)
       \/ /\ c.state = "S_TXCRC" /\ c.dcnt # 0 /\ ~c.multi
          /\ d.state = "S_IDLE" /\ d.fcnt = 0 /\ d.dcnt = 0 /\ ~d.stopnext /\ d.out = Idle
          /\ Same(c, d, {"out", "dcnt", "stopnext", "fcnt", "state"})

OwnStep(q) ==
    CASE q.state \in {"S_NAC", "S_MBGAP"} -> Wait(q)
      [] q.state = "S_TOKEN" -> S_TOKEN(q)
      [] q.state = "S_TX"    -> S_TX(q)
      [] q.state = "S_TXCRC" -> S_TXCRC(q)

LEMMA WaitIs ==
  ASSUME NEW c, DOMAIN c = Regs, c.state \in {"S_NAC", "S_MBGAP"}
  PROVE  Flowed(c, Wait(Quiet(c)))
<1> DEFINE q == Quiet(c)
           n == [q EXCEPT !.wcnt = IF q.wcnt > 0 THEN q.wcnt - 1 ELSE 0]
           d == Wait(q)
<1>1. Same(c, q, {"out"}) /\ q.out = Idle BY QuietIs
<1> HIDE DEF q
<1>2. Same(c, n, {"out", "wcnt"}) /\ n.out = Idle
  <2> DEFINE w == IF q.wcnt > 0 THEN q.wcnt - 1 ELSE 0
  <2> HIDE DEF w
  <2>1. n = [q EXCEPT !.wcnt = w] BY DEF w
  <2> QED BY <2>1, <1>1 DEF Same, Regs
<1>3. d = IF q.wcnt <= 1 /\ q.rd_rdy THEN BlockOrError(n) ELSE n BY DEF Wait
<1>4. q.rd_rdy = c.rd_rdy /\ n.rd_err = c.rd_err BY <1>1, <1>2 DEF Same, Regs
<1> HIDE DEF n, d
<1> SUFFICES Flowed(c, d) BY DEF d, q
<1>5. CASE ~(q.wcnt <= 1 /\ q.rd_rdy)
  <2>1. d = n BY <1>3, <1>5
  <2> QED BY <2>1, <1>2 DEF Flowed, Same
<1>6. CASE q.wcnt <= 1 /\ q.rd_rdy /\ c.rd_err
  <2>1. d = [n EXCEPT !.state = "S_IDLE", !.fcnt = 0, !.multi = FALSE, !.out = Byte("ERR")]
    BY <1>3, <1>4, <1>6 DEF BlockOrError
  <2>2. d.state = "S_IDLE" /\ d.fcnt = 0 /\ ~d.multi /\ d.out = Byte("ERR")
    BY <2>1, <1>2 DEF Same, Regs
  <2>3. Same(c, d, {"out", "wcnt", "state", "fcnt", "multi"}) BY <2>1, <1>2 DEF Same, Regs
  <2> QED BY <2>2, <2>3, <1>4, <1>6 DEF Flowed, Same
<1>7. CASE q.wcnt <= 1 /\ q.rd_rdy /\ ~c.rd_err
  <2>1. d = [n EXCEPT !.state = "S_TOKEN", !.dcnt = 0, !.dlen = BLK, !.out = Byte("FE")]
    BY <1>3, <1>4, <1>7 DEF BlockOrError
  <2>2. d.state = "S_TOKEN" /\ d.dcnt = 0 /\ d.dlen = BLK /\ d.out = Byte("FE")
    BY <2>1, <1>2 DEF Same, Regs
  <2>3. Same(c, d, {"out", "wcnt", "state", "dcnt", "dlen"}) BY <2>1, <1>2 DEF Same, Regs
  <2> QED BY <2>2, <2>3, <1>4, <1>7 DEF Flowed, Same
<1> QED BY <1>5, <1>6, <1>7

LEMMA SendIs ==
  ASSUME NEW c, DOMAIN c = Regs
  PROVE  /\ c.state = "S_TOKEN" => Flowed(c, S_TOKEN(Quiet(c)))
         /\ c.state = "S_TX" => Flowed(c, S_TX(Quiet(c)))
         /\ c.state = "S_TXCRC" => Flowed(c, S_TXCRC(Quiet(c)))
<1> DEFINE q == Quiet(c)
<1>1. Same(c, q, {"out"}) /\ q.out = Idle BY QuietIs
<1>2. /\ q.mem = c.mem /\ q.dbase = c.dbase /\ q.dcnt = c.dcnt /\ q.dlen = c.dlen
      /\ q.multi = c.multi /\ q.lba = c.lba /\ nextseq(q) = nextseq(c)
  BY <1>1 DEF Same, Regs, nextseq
<1> HIDE DEF q
<1>3. ASSUME c.state = "S_TOKEN" PROVE Flowed(c, S_TOKEN(q))
  <2> DEFINE d == S_TOKEN(q)
  <2>1. d = [q EXCEPT !.state = "S_TX", !.dcnt = 0, !.out = c.mem[c.dbase][0]] BY <1>2 DEF S_TOKEN
  <2> HIDE DEF d
  <2>2. d.state = "S_TX" /\ d.dcnt = 0 /\ d.out = c.mem[c.dbase][0] BY <2>1, <1>1 DEF Same, Regs
  <2>3. Same(c, d, {"out", "state", "dcnt"}) BY <2>1, <1>1 DEF Same, Regs
  <2>4. Flowed(c, d) BY <2>2, <2>3, <1>3 DEF Flowed, Same
  <2> QED BY <2>4 DEF d
<1>4. ASSUME c.state = "S_TX" PROVE Flowed(c, S_TX(q))
  <2> DEFINE d == S_TX(q)
  <2>1. d = IF c.dcnt + 1 >= c.dlen THEN [q EXCEPT !.state = "S_TXCRC", !.dcnt = 0]
            ELSE [q EXCEPT !.dcnt = q.dcnt + 1, !.out = c.mem[c.dbase][c.dcnt + 1]]
    BY <1>2 DEF S_TX
  <2> HIDE DEF d
  <2>2. CASE c.dcnt + 1 >= c.dlen
    <3>1. d = [q EXCEPT !.state = "S_TXCRC", !.dcnt = 0] BY <2>1, <2>2
    <3>2. d.state = "S_TXCRC" /\ d.dcnt = 0 /\ d.out = Idle BY <3>1, <1>1 DEF Same, Regs
    <3>3. Same(c, d, {"out", "state", "dcnt"}) BY <3>1, <1>1 DEF Same, Regs
    <3>4. Flowed(c, d) BY <3>2, <3>3, <2>2, <1>4 DEF Flowed, Same
    <3> QED BY <3>4 DEF d
  <2>3. CASE ~(c.dcnt + 1 >= c.dlen)
    <3>1. d = [q EXCEPT !.dcnt = q.dcnt + 1, !.out = c.mem[c.dbase][c.dcnt + 1]] BY <2>1, <2>3
    <3>2. d.dcnt = c.dcnt + 1 /\ d.out = c.mem[c.dbase][c.dcnt + 1]
      BY <3>1, <1>1, <1>2 DEF Same, Regs
    <3>3. Same(c, d, {"out", "dcnt"}) BY <3>1, <1>1 DEF Same, Regs
    <3>4. Flowed(c, d) BY <3>2, <3>3, <2>3, <1>4 DEF Flowed, Same
    <3> QED BY <3>4 DEF d
  <2> QED BY <2>2, <2>3
<1>5. ASSUME c.state = "S_TXCRC" PROVE Flowed(c, S_TXCRC(q))
  <2> DEFINE d == S_TXCRC(q)
             y == [q EXCEPT !.dcnt = 0, !.wcnt = 1, !.state = "S_MBGAP"]
  <2>1. \/ c.dcnt = 0 /\ d = [q EXCEPT !.dcnt = 1]
        \/ c.dcnt # 0 /\ c.multi /\ d = AskRead(y, c.lba + 1)
        \/ /\ c.dcnt # 0 /\ ~c.multi
           /\ d = [q EXCEPT !.dcnt = 0, !.stopnext = FALSE, !.fcnt = 0, !.state = "S_IDLE"]
    BY <1>2 DEF S_TXCRC
  <2> HIDE DEF d
  <2>2. CASE c.dcnt = 0 /\ d = [q EXCEPT !.dcnt = 1]
    <3>1. d.dcnt = 1 /\ d.out = Idle BY <2>2, <1>1 DEF Same, Regs
    <3>2. Same(c, d, {"out", "dcnt"}) BY <2>2, <1>1 DEF Same, Regs
    <3>3. Flowed(c, d) BY <3>1, <3>2, <2>2, <1>5 DEF Flowed, Same
    <3> QED BY <3>3 DEF d
  <2>3. CASE c.dcnt # 0 /\ c.multi /\ d = AskRead(y, c.lba + 1)
    <3>1. /\ Same(c, y, {"out", "dcnt", "wcnt", "state"})
          /\ y.out = Idle /\ y.dcnt = 0 /\ y.state = "S_MBGAP"
      BY <1>1 DEF Same, Regs
    <3> HIDE DEF y
    <3>2. /\ Same(y, d, {"lba", "rq_rd", "rq_seq", "rd_rdy", "rd_err"})
          /\ d.lba = c.lba + 1 /\ d.rq_rd /\ d.rq_seq = nextseq(y) /\ ~d.rd_rdy /\ ~d.rd_err
      BY <3>1, <2>3, AskReadIs DEF Same
    <3>3. nextseq(y) = nextseq(c) BY <3>1 DEF Same, Regs, nextseq
    <3>4. d.state = "S_MBGAP" /\ d.dcnt = 0 /\ d.out = Idle BY <3>1, <3>2 DEF Same, Regs
    <3>5. Same(c, d, {"out", "dcnt", "wcnt", "state"} \cup AskRegs)
      BY <3>1, <3>2 DEF Same, AskRegs
    <3>6. Flowed(c, d) BY <3>2, <3>3, <3>4, <3>5, <2>3, <1>5 DEF Flowed, Same
    <3> QED BY <3>6 DEF d
  <2>4. CASE /\ c.dcnt # 0 /\ ~c.multi
             /\ d = [q EXCEPT !.dcnt = 0, !.stopnext = FALSE, !.fcnt = 0, !.state = "S_IDLE"]
    <3>1. d.state = "S_IDLE" /\ d.fcnt = 0 /\ d.dcnt = 0 /\ ~d.stopnext /\ d.out = Idle
      BY <2>4, <1>1 DEF Same, Regs
    <3>2. Same(c, d, {"out", "dcnt", "stopnext", "fcnt", "state"}) BY <2>4, <1>1 DEF Same, Regs
    <3>3. Flowed(c, d) BY <3>1, <3>2, <2>4, <1>5 DEF Flowed, Same
    <3> QED BY <3>3 DEF d
  <2> QED BY <2>1, <2>2, <2>3, <2>4
<1> QED BY <1>3, <1>4, <1>5 DEF q

\* In a stream the receiver counts the bytes of a frame, from one that begins
\* a frame; a stop command is taken at the frame's last byte ...
Heard(c, b, n, d) ==
    /\ Same(n, d, {"fcnt", "stopnext"})
    /\ c.multi /\ ~(c.fcnt = 0 /\ ~starts(b))
    /\ d.fcnt = (IF c.fcnt = FRAME - 1 THEN 0 ELSE c.fcnt + 1)
    /\ d.stopnext = (IF c.fcnt = FRAME - 1 /\ OpOf(b) = "CMD12" THEN TRUE ELSE n.stopnext)

LEMMA StepFlow ==
  ASSUME NEW c, NEW b, DOMAIN c = Regs, c.attached, c.state \in Flow,
         ~(c.multi /\ c.stopnext)
  PROVE  LET d == ByteStep(c, b) IN
         \/ (~c.multi \/ (c.fcnt = 0 /\ ~starts(b))) /\ Flowed(c, d)
         \/ \E n : Flowed(c, n) /\ Heard(c, b, n, d)
<1> DEFINE q == Quiet(c)  d == ByteStep(c, b)  n == OwnStep(q)
<1>1. Same(c, q, {"out"}) BY QuietIs
<1>2. /\ q.state = c.state /\ q.multi = c.multi /\ q.stopnext = c.stopnext /\ q.fcnt = c.fcnt
      /\ q.attached = c.attached
  BY <1>1 DEF Same, Regs
<1>3. Flowed(c, n)
  <2>1. c.state \in {"S_NAC", "S_MBGAP"} => n = Wait(q) BY <1>2 DEF OwnStep
  <2>2. c.state = "S_TOKEN" => n = S_TOKEN(q) BY <1>2 DEF OwnStep
  <2>3. c.state = "S_TX" => n = S_TX(q) BY <1>2 DEF OwnStep
  <2>4. c.state = "S_TXCRC" => n = S_TXCRC(q) BY <1>2 DEF OwnStep
  <2> HIDE DEF n
  <2> QED BY <2>1, <2>2, <2>3, <2>4, WaitIs, SendIs DEF Flow
<1>4. d = Sniff(q, b, n)
  <2>1. c.state = "S_NAC" => d = Sniff(q, b, Wait(q))
    BY <1>2 DEF ByteStep, sniff, Quiet
  <2>2. c.state = "S_MBGAP" => d = Sniff(q, b, Wait(q))
    BY <1>2 DEF ByteStep, sniff, Quiet
  <2>3. c.state = "S_TOKEN" => d = Sniff(q, b, S_TOKEN(q))
    BY <1>2 DEF ByteStep, sniff, Quiet
  <2>4. c.state = "S_TX" => d = Sniff(q, b, S_TX(q))
    BY <1>2 DEF ByteStep, sniff, Quiet
  <2>5. c.state = "S_TXCRC" => d = Sniff(q, b, S_TXCRC(q))
    BY <1>2 DEF ByteStep, sniff, Quiet
  <2> HIDE DEF d, q
  <2> QED BY <2>1, <2>2, <2>3, <2>4, <2>5, <1>2 DEF OwnStep, Flow
<1>5. DOMAIN n = Regs BY <1>3 DEF Flowed
<1> HIDE DEF q, n, d
<1> SUFFICES \/ (~c.multi \/ (c.fcnt = 0 /\ ~starts(b))) /\ Flowed(c, d)
             \/ \E m : Flowed(c, m) /\ Heard(c, b, m, d)
  BY DEF d
<1>6. CASE ~c.multi \/ (c.fcnt = 0 /\ ~starts(b))
  <2>1. d = n BY <1>2, <1>4, <1>6 DEF Sniff, sniff, Flow
  <2> QED BY <2>1, <1>3, <1>6
<1>7. CASE c.multi /\ ~(c.fcnt = 0 /\ ~starts(b))
  <2> DEFINE f == IF c.fcnt = FRAME - 1 THEN 0 ELSE c.fcnt + 1
             s == IF c.fcnt = FRAME - 1 /\ OpOf(b) = "CMD12" THEN TRUE ELSE n.stopnext
  <2>1. d = [n EXCEPT !.fcnt = f, !.stopnext = s]
    BY <1>2, <1>4, <1>7 DEF Sniff, sniff, Flow
  <2> HIDE DEF f, s
  <2>2. Same(n, d, {"fcnt", "stopnext"}) /\ d.fcnt = f /\ d.stopnext = s
    BY <2>1, <1>5 DEF Same, Regs
  <2>3. Heard(c, b, n, d) BY <2>2, <1>7 DEF Heard, f, s
  <2> QED BY <2>3, <1>3
<1> QED BY <1>6, <1>7

\* ... and executed with the next one.
LEMMA StepStop ==
  ASSUME NEW c, NEW b, DOMAIN c = Regs, c.attached, c.state \in Flow,
         c.multi, c.stopnext, c.fcnt = 0, ~starts(b)
  PROVE  LET d == ByteStep(c, b) IN
         /\ Same(c, d, {"out", "multi", "stopnext", "fcnt", "resp", "after", "wcnt", "state"})
         /\ d.state = "S_NCR" /\ d.after = "S_BUSY" /\ d.out = Idle /\ ~d.multi /\ d.fcnt = 0
         /\ d.resp \in {"ok", "idle"}
<1> DEFINE q == Quiet(c)  d == ByteStep(c, b)
           x == [q EXCEPT !.multi = FALSE, !.stopnext = FALSE, !.fcnt = 0]
<1>1. Same(c, q, {"out"}) /\ q.out = Idle BY QuietIs
<1>2. /\ q.state = c.state /\ q.multi = c.multi /\ q.stopnext = c.stopnext /\ q.fcnt = c.fcnt
  BY <1>1 DEF Same, Regs
<1>3. d = Sniff(q, b, StopNow(q))
  <2>1. q.stopnext /\ sniff(q) BY <1>2 DEF sniff, Flow
  <2> QED BY <2>1 DEF ByteStep, Quiet
<1> HIDE DEF q
<1>4. d = Answer(x, r1b(q), "S_BUSY") BY <1>2, <1>3 DEF Sniff, StopNow
<1>5. /\ Same(c, x, {"out", "multi", "stopnext", "fcnt"}) /\ x.out = Idle
      /\ ~x.multi /\ x.fcnt = 0
  BY <1>1 DEF Same, Regs
<1>6. r1b(q) \in {"ok", "idle"} BY DEF r1b
<1> HIDE DEF x, d
<1>7. /\ Same(x, d, {"resp", "after", "wcnt", "state"})
      /\ d.resp = r1b(q) /\ d.after = "S_BUSY" /\ d.state = "S_NCR"
  BY <1>4, <1>5, AnswerIs DEF Same
<1>8. d.out = Idle /\ ~d.multi /\ d.fcnt = 0 BY <1>5, <1>7 DEF Same, Regs
<1>9. Same(c, d, {"out", "multi", "stopnext", "fcnt", "resp", "after", "wcnt", "state"})
  BY <1>5, <1>7 DEF Same
<1> QED BY <1>6, <1>7, <1>8, <1>9 DEF d

-----------------------------------------------------------------------------
(* Where the driver is *)

CardStates == {"S_IDLE", "S_ARG", "S_BUSY"} \cup Reply \cup Flow
              \cup {"S_RXWAIT", "S_RX", "S_RXCRC", "S_RXACK", "S_RXRESP"}

HostRegs == {"ph", "init", "ops", "op", "arg", "dat", "i", "got", "ok"}

Kept(h, g, F) == DOMAIN g = HostRegs /\ \A f \in HostRegs \ F : g[f] = h[f]

\* A buffer's bytes.
Size(buf) == IF buf = "CSD" THEN CSDLEN ELSE BLK

CardShape(c) ==
    /\ DOMAIN c = Regs /\ c.state \in CardStates
    /\ c.fcnt \in 0 .. FRAME - 1 /\ c.dcnt \in Nat /\ c.lba \in Nat /\ c.rq_seq \in Nat
    /\ c.dbase \in Buffers /\ c.rbuf \in ReadBuffers
    /\ c.out \in OutByte /\ c.mem \in Memory

HostShape(h) ==
    /\ DOMAIN h = HostRegs
    /\ h.arg \in Nat /\ h.dat \in {Dat("p"), Dat("q")} /\ h.i \in Nat /\ h.got \in Seq(OutByte)
    /\ h.ph = "frame" => h.i \in 0 .. FRAME - 1

\* The byte on its way out tells the card's state.
OutSays(c) ==
    /\ c.out.t = "R1" => c.state = "S_RESP"
    /\ c.state = "S_RESP" => c.out = R1(c.resp)
    /\ c.out.t = "FE" <=> c.state = "S_TOKEN"
    /\ c.out.t = "ERR" => c.state = "S_IDLE"
    /\ c.out.t \in {"E5", "ED"} <=> c.state = "S_RXRESP"
    /\ c.state = "S_BUSY" => c.out = Busy

OutOfCard(c) == ~c.attached => c.state = "S_IDLE" /\ c.out = Idle /\ c.fcnt = 0

\* The card has never counted more of a frame than the driver has sent.
Collecting(c, h) ==
    c.state \in {"S_IDLE", "S_ARG"} =>
        \/ h.ph \in {"stuff", "r1"}
        \/ h.ph = "frame" /\ c.fcnt <= h.i
        \/ c.fcnt = 0

Writing(c, h) == h.op \in WriteOps /\ c.lba = h.arg /\ (c.multi <=> h.op = "CMD25")

Replying(c, h) ==
    c.state \in Reply =>
        /\ h.ph \in {"stuff", "r1"} /\ c.resp \in {"ok", "idle", "bad"}
        /\ \/ c.after = "S_IDLE"
           \/ c.after = "S_BUSY" /\ h.ph = "r1" /\ ~c.multi
           \/ /\ c.after = "S_TOKEN" /\ h.ph = "r1" /\ c.resp = "ok"
              /\ h.op = "CMD9" /\ ~c.multi /\ CSDLEN <= Size(c.dbase)
           \/ /\ c.after = "S_NAC" /\ h.ph = "r1" /\ c.resp = "ok"
              /\ h.op \in {"CMD17", "CMD18"} /\ c.lba = h.arg /\ (c.multi <=> h.op = "CMD18")
              /\ ~c.stopnext /\ c.fcnt = 0
           \/ /\ c.after = "S_RXWAIT" /\ h.ph = "r1" /\ c.resp = "ok"
              /\ Writing(c, h)

Receiving(c, h) ==
    /\ c.state = "S_RXWAIT" =>
           \/ h.ph = "put" /\ h.i = 0 /\ Writing(c, h)
           \/ /\ (h.ph = "busy" /\ c.out = Idle) \/ h.ph = "more"
              /\ h.op = "CMD25" /\ c.multi /\ c.lba = h.arg + 1
    /\ c.state = "S_RX" =>
           /\ Writing(c, h) /\ h.ph = "put" /\ c.dcnt < BLK /\ h.i = c.dcnt + 1
           /\ \A i \in 0 .. BLK - 1 : i < c.dcnt => c.mem.WR[i] = h.dat
    /\ c.state = "S_RXCRC" =>
           Writing(c, h) /\ h.ph = "put" /\ c.dcnt \in {0, 1} /\ h.i = BLK + 1 + c.dcnt
    /\ c.state \in {"S_RXACK", "S_RXRESP"} => Writing(c, h) /\ h.ph = "resp"
    /\ c.state \in {"S_RXCRC", "S_RXACK"} => c.mem.WR = Whole(h.dat)
    /\ c.state = "S_BUSY" /\ c.multi => h.ph = "busy" /\ h.op = "CMD25" /\ c.lba = h.arg

\* A stop command is on its way, while the stream flows on.
Stopping(c, h) ==
    /\ h.op = "CMD12" /\ c.multi
    /\ \/ h.ph = "frame" /\ ~c.stopnext /\ c.fcnt = h.i
       \/ h.ph = "stuff" /\ c.stopnext /\ c.fcnt = 0

LenOf(h) == IF h.op = "CMD9" THEN CSDLEN ELSE BLK

Reading(c, h) ==
    /\ h.op \in ReadOps /\ (c.multi <=> h.op = "CMD18")
    /\ c.multi => ~c.stopnext /\ c.fcnt = 0
    /\ h.op # "CMD9" => h.arg = c.lba
    /\ c.state = "S_NAC"   => h.ph = "token" /\ h.got = <<>> /\ h.op # "CMD9"
    /\ c.state = "S_MBGAP" => h.ph = "token" /\ h.op = "CMD18"
    /\ c.state = "S_TOKEN" => h.ph = "token" /\ c.dlen = LenOf(h)
    /\ c.state = "S_TX"    => h.ph = "data" /\ c.dcnt = Len(h.got) /\ c.dlen = LenOf(h)
    /\ c.state = "S_TXCRC" => h.ph = "crc" /\ h.i = c.dcnt

Awaiting(c) == c.state \in {"S_NAC", "S_MBGAP"} \/ (c.state \in Reply /\ c.after = "S_NAC")

Sending(c, h) ==
    /\ c.state \in Flow => Stopping(c, h) \/ Reading(c, h)
    /\ Awaiting(c) /\ c.rd_rdy => c.dbase \in ReadBuffers
    /\ c.state \in {"S_TOKEN", "S_TX"} => c.dlen \in 1 .. Size(c.dbase)
    /\ c.state = "S_TX"    => c.dcnt < c.dlen
    /\ c.state = "S_TXCRC" => c.dcnt \in {0, 1}
    /\ h.ph = "data" /\ c.attached => c.state = "S_TX"
    /\ h.ph = "crc" /\ c.attached  => c.state = "S_TXCRC"

Meets(c, h) ==
    /\ OutSays(c) /\ OutOfCard(c) /\ Collecting(c, h) /\ Replying(c, h)
    /\ Receiving(c, h) /\ Sending(c, h)

Rests(g) == HostShape(g) /\ g.ph = "idle"

\* The driver's side of one exchange: it sends b, looks at c.out, and goes on as g.
Turn(c, h, b, g) ==
    \/ /\ h.ph = "frame" /\ h.i < FRAME - 1 /\ b = Frag
       /\ Kept(h, g, {"i"}) /\ g.i = h.i + 1
    \/ /\ h.ph = "frame" /\ h.i >= FRAME - 1 /\ b = Cmd(h.op, h.arg)
       /\ Kept(h, g, {"ph", "i"}) /\ g.ph = (IF h.op = "CMD12" THEN "stuff" ELSE "r1") /\ g.i = 0
    \/ h.ph = "stuff" /\ b = Idle /\ Kept(h, g, {"ph", "i"}) /\ g.ph = "r1" /\ g.i = 0
    \/ h.ph = "r1" /\ b = Idle /\ c.out.t # "R1" /\ g = h
    \/ /\ h.ph = "r1" /\ b = Idle /\ c.out.t = "R1"
       /\ HostShape(g) /\ g.ph \in {"idle", "busy", "token", "put"}
       /\ g.ph = "busy" => g.op = "CMD12"
       /\ h.op \in ReadOps /\ c.out.v = "ok" =>
              Kept(h, g, {"ph", "i", "got"}) /\ g.ph = "token" /\ g.i = 0 /\ g.got = <<>>
       /\ h.op \in WriteOps /\ c.out.v = "ok" =>
              Kept(h, g, {"ph", "i"}) /\ g.ph = "put" /\ g.i = 0
    \/ /\ h.ph = "token" /\ b = Idle /\ c.out.t = "FE"
       /\ Kept(h, g, {"ph", "i", "got"}) /\ g.ph = "data" /\ g.i = 0 /\ g.got = <<>>
    \/ h.ph = "token" /\ b = Idle /\ c.out.t = "ERR" /\ Rests(g)
    \/ h.ph = "token" /\ b = Idle /\ c.out.t \notin {"FE", "ERR"} /\ g = h
    \/ /\ h.ph = "data" /\ b = Idle /\ g.got = Append(h.got, c.out)
       /\ \/ Len(g.got) = LenOf(h) /\ Kept(h, g, {"ph", "i", "got"}) /\ g.ph = "crc" /\ g.i = 0
          \/ Len(g.got) # LenOf(h) /\ Kept(h, g, {"got"})
    \/ h.ph = "crc" /\ b = Idle /\ h.i = 0 /\ Kept(h, g, {"i"}) /\ g.i = 1
    \/ /\ h.ph = "crc" /\ b = Idle /\ h.i # 0 /\ h.op = "CMD18"
       /\ Kept(h, g, {"ph", "i", "arg"}) /\ g.ph = "token" /\ g.i = 0 /\ g.arg = h.arg + 1
    \/ h.ph = "crc" /\ b = Idle /\ h.i # 0 /\ h.op # "CMD18" /\ Rests(g)
    \/ /\ h.ph = "put"
       /\ h.i = 0 => b = Byte(IF h.op = "CMD25" THEN "FC" ELSE "FE")
       /\ h.i \in 1 .. BLK => b = h.dat
       /\ h.i \notin 0 .. BLK => b = Idle
       /\ \/ h.i # BLK + 2 /\ Kept(h, g, {"i"}) /\ g.i = h.i + 1
          \/ h.i = BLK + 2 /\ Kept(h, g, {"ph", "i"}) /\ g.ph = "resp" /\ g.i = 0
    \/ h.ph = "resp" /\ b = Idle /\ c.out.t \notin {"E5", "ED"} /\ g = h
    \/ /\ h.ph = "resp" /\ b = Idle /\ c.out.t \in {"E5", "ED"}
       /\ Kept(h, g, {"ph", "i", "ok"}) /\ g.ph = "busy" /\ g.i = 0 /\ (g.ok <=> c.out.t = "E5")
    \/ h.ph = "busy" /\ b = Idle /\ c.out.t # "FF" /\ g = h
    \/ /\ h.ph = "busy" /\ b = Idle /\ c.out.t = "FF" /\ h.op = "CMD25"
       /\ Kept(h, g, {"ph", "i"}) /\ g.ph = "more" /\ g.i = 0
    \/ h.ph = "busy" /\ b = Idle /\ c.out.t = "FF" /\ h.op # "CMD25" /\ Rests(g)
    \/ /\ h.ph = "more" /\ b = Byte("FD")
       /\ Kept(h, g, {"ph", "i", "op"}) /\ g.ph = "busy" /\ g.i = 0 /\ g.op = "STOP"

Turned == \E b : card' = ByteStep(card, b) /\ Turn(card, host, b, host') /\ UNCHANGED <<flag, arm, disk>>

LEMMA EmptyGot == \A s : s = <<>> => s \in Seq(OutByte)
  OBVIOUS

LEMMA ToIs ==
  ASSUME DOMAIN host = HostRegs
  PROVE  /\ Rests(To("idle"))
         /\ \A ph : ph # "idle" => Kept(host, To(ph), {"ph", "i"}) /\ To(ph).ph = ph /\ To(ph).i = 0
<1>1. Rests(To("idle"))
  <2>1. To("idle") = HostIdle(host.init, host.ops) BY DEF To
  <2> DEFINE g == To("idle")
  <2>2. /\ DOMAIN g = HostRegs /\ g.ph = "idle" /\ g.arg = 0 /\ g.dat = Dat("p") /\ g.i = 0
        /\ g.got = <<>>
    BY <2>1 DEF HostIdle, HostRegs
  <2> HIDE DEF g
  <2>3. g.got \in Seq(OutByte) BY <2>2, EmptyGot
  <2>4. Rests(g) BY <2>2, <2>3 DEF Rests, HostShape
  <2> QED BY <2>4 DEF g
<1>2. ASSUME NEW ph, ph # "idle"
      PROVE  Kept(host, To(ph), {"ph", "i"}) /\ To(ph).ph = ph /\ To(ph).i = 0
  BY <1>2 DEF To, Kept, HostRegs
<1> QED BY <1>1, <1>2

\* Each exchange of the driver is a turn.
LEMMA Turns ==
  ASSUME HostShape(host),
         \/ HostByte
         \/ host.ph = "more" /\ Exchange(Byte("FD"), [To("busy") EXCEPT !.op = "STOP"])
  PROVE  Turned
<1>1. DOMAIN host = HostRegs /\ host.i \in Nat BY DEF HostShape
<1>2. CASE SendFrame
  <2>1. CASE host.i < FRAME - 1
    <3> DEFINE g == [host EXCEPT !.i = host.i + 1]
    <3>1. Kept(host, g, {"i"}) /\ g.i = host.i + 1 BY <1>1 DEF Kept, HostRegs
    <3> HIDE DEF g
    <3>2. card' = ByteStep(card, Frag) /\ host' = g /\ UNCHANGED <<flag, arm, disk>> /\ host.ph = "frame"
      BY <1>2, <2>1 DEF SendFrame, Exchange, g
    <3>3. Turn(card, host, Frag, g) BY <3>1, <3>2, <2>1 DEF Turn
    <3> QED BY <3>2, <3>3 DEF Turned
  <2>2. CASE ~(host.i < FRAME - 1)
    <3> DEFINE p == IF host.op = "CMD12" THEN "stuff" ELSE "r1"
               g == To(p)
    <3>1. Kept(host, g, {"ph", "i"}) /\ g.i = 0 /\ g.ph = p BY <1>1, ToIs
    <3>2. /\ card' = ByteStep(card, Cmd(host.op, host.arg)) /\ host' = g
          /\ UNCHANGED <<flag, arm, disk>> /\ host.ph = "frame"
      BY <1>2, <2>2 DEF SendFrame, Exchange
    <3> HIDE DEF g
    <3>3. Turn(card, host, Cmd(host.op, host.arg), g) BY <3>1, <3>2, <2>2, <1>1, Sizes DEF Turn
    <3> QED BY <3>2, <3>3 DEF Turned
  <2> QED BY <2>1, <2>2
<1>3. CASE StuffByte
  <2> DEFINE g == To("r1")
  <2>1. Kept(host, g, {"ph", "i"}) /\ g.i = 0 /\ g.ph = "r1" BY <1>1, ToIs
  <2>2. card' = ByteStep(card, Idle) /\ host' = g /\ UNCHANGED <<flag, arm, disk>> /\ host.ph = "stuff"
    BY <1>3 DEF StuffByte, Exchange
  <2> HIDE DEF g
  <2>3. Turn(card, host, Idle, g) BY <2>1, <2>2 DEF Turn
  <2> QED BY <2>2, <2>3 DEF Turned
<1>4. CASE AwaitR1
  <2> DEFINE g == IF card.out.t = "R1" THEN AfterR1(card.out.v) ELSE host
  <2>2. card' = ByteStep(card, Idle) /\ host' = g /\ UNCHANGED <<flag, arm, disk>> /\ host.ph = "r1"
    BY <1>4 DEF AwaitR1, Exchange
  <2>3. CASE card.out.t # "R1"
    <3> QED BY <2>2, <2>3 DEF Turned, Turn
  <2>4. CASE card.out.t = "R1"
    <3> DEFINE v == card.out.v
               n == AfterR1(v)
    <3>1. host.op \in {"CMD0", "CMD55", "CMD41"} => Rests(n)
      <4> DEFINE x == To("idle")
      <4>1. Rests(x) BY <1>1, ToIs
      <4> HIDE DEF x
      <4>2. \A w : Rests([x EXCEPT !.init = w]) BY <4>1 DEF Rests, HostShape, HostRegs
      <4>3. host.op = "CMD0" => n = [x EXCEPT !.init = "CMD55"] BY DEF AfterR1, ReadOps, WriteOps, x
      <4>4. host.op = "CMD55" => n = [x EXCEPT !.init = "CMD41"] BY DEF AfterR1, ReadOps, WriteOps, x
      <4>5. host.op = "CMD41" => n = [x EXCEPT !.init = IF v = "ok" THEN "ready" ELSE "CMD55"]
        BY DEF AfterR1, ReadOps, WriteOps, x
      <4> QED BY <4>2, <4>3, <4>4, <4>5
    <3>2. host.op = "CMD12" => n = To("busy") BY DEF AfterR1, ReadOps, WriteOps
    <3>3. host.op \in ReadOps /\ v = "ok" => n = [To("token") EXCEPT !.got = <<>>]
      BY DEF AfterR1, ReadOps, WriteOps
    <3>4. host.op \in WriteOps /\ v = "ok" => n = To("put") BY DEF AfterR1, ReadOps, WriteOps
    <3>5. /\ host.op \notin {"CMD0", "CMD55", "CMD41", "CMD12"}
          /\ ~(host.op \in ReadOps /\ v = "ok") /\ ~(host.op \in WriteOps /\ v = "ok")
          => n = To("idle")
      BY DEF AfterR1
    <3>6. host.op \in ReadOps /\ v = "ok" =>
             Kept(host, n, {"ph", "i", "got"}) /\ n.ph = "token" /\ n.i = 0 /\ n.got = <<>>
      <4> DEFINE x == To("token")
      <4>1. Kept(host, x, {"ph", "i"}) /\ x.i = 0 /\ x.ph = "token" BY <1>1, ToIs
      <4> HIDE DEF x, n
      <4>2. SUFFICES ASSUME n = [x EXCEPT !.got = <<>>]
                     PROVE  Kept(host, n, {"ph", "i", "got"}) /\ n.ph = "token" /\ n.i = 0 /\ n.got = <<>>
        BY <3>3 DEF x
      <4> QED BY <4>1, <4>2 DEF Kept, HostRegs
    <3> HIDE DEF n
    <3>7. host.op \in WriteOps /\ v = "ok" => Kept(host, n, {"ph", "i"}) /\ n.ph = "put" /\ n.i = 0
      BY <3>4, ToIs, <1>1
    <3>8. host.op = "CMD12" => n.ph = "busy" /\ n.op = "CMD12"
      BY <3>2, ToIs, <1>1 DEF Kept, HostRegs
    <3>9. n.ph \in {"idle", "busy", "token", "put"} /\ (n.ph = "busy" => n.op = "CMD12")
      BY <3>1, <3>5, <3>6, <3>7, <3>8, ToIs, <1>1 DEF Rests
    <3>12. HostShape(n)
      <4>1. HostShape(To("busy"))
        BY ToIs, <1>1 DEF Kept, HostRegs, HostShape
      <4>2. host.op \in ReadOps /\ v = "ok" => HostShape(n)
        <5> SUFFICES ASSUME host.op \in ReadOps, v = "ok" PROVE HostShape(n)
          OBVIOUS
        <5>1. n.got \in Seq(OutByte) BY <3>6, EmptyGot
        <5> QED BY <5>1, <3>6 DEF Kept, HostRegs, HostShape
      <4>3. host.op \in WriteOps /\ v = "ok" => HostShape(n)
        BY <3>7 DEF Kept, HostRegs, HostShape
      <4> QED BY <3>1, <3>2, <3>5, <4>1, <4>2, <4>3, ToIs, <1>1 DEF Rests
    <3>10. host' = n BY <2>2, <2>4 DEF n
    <3>11. Turn(card, host, Idle, n) BY <2>2, <2>4, <3>6, <3>7, <3>9, <3>12 DEF Turn
    <3> QED BY <2>2, <3>10, <3>11 DEF Turned
  <2> QED BY <2>3, <2>4
<1>5. CASE AwaitToken
  <2> DEFINE x == To("data")
             g == [x EXCEPT !.got = <<>>]
  <2>1. Kept(host, x, {"ph", "i"}) /\ x.i = 0 /\ x.ph = "data" BY <1>1, ToIs
  <2>2. /\ card' = ByteStep(card, Idle) /\ UNCHANGED <<flag, arm, disk>> /\ host.ph = "token"
        /\ card.out.t = "FE" => host' = g
        /\ card.out.t = "ERR" => host' = To("idle")
        /\ card.out.t \notin {"FE", "ERR"} => host' = host
    BY <1>5 DEF AwaitToken, Exchange
  <2> HIDE DEF x
  <2>3. Kept(host, g, {"ph", "i", "got"}) /\ g.i = 0 /\ g.ph = "data" /\ g.got = <<>>
    BY <2>1 DEF Kept, HostRegs
  <2> HIDE DEF g
  <2>4. Rests(To("idle")) BY ToIs, <1>1
  <2> DEFINE z == To("idle")
  <2> HIDE DEF z
  <2>5. CASE card.out.t = "FE"
    <3>1. Turn(card, host, Idle, g) BY <2>2, <2>3, <2>5 DEF Turn
    <3> QED BY <3>1, <2>2, <2>5 DEF Turned
  <2>6. CASE card.out.t = "ERR"
    <3>1. Turn(card, host, Idle, z) BY <2>2, <2>4, <2>6 DEF Turn, z
    <3> QED BY <3>1, <2>2, <2>6 DEF Turned, z
  <2>7. CASE card.out.t \notin {"FE", "ERR"}
    <3>1. Turn(card, host, Idle, host) BY <2>2, <2>7 DEF Turn
    <3> QED BY <3>1, <2>2, <2>7 DEF Turned
  <2> QED BY <2>5, <2>6, <2>7
<1>6. CASE ReceiveData
  <2> DEFINE got == Append(host.got, card.out)
             x == To("crc")
             more == [host EXCEPT !.got = got]
             last == [x EXCEPT !.got = got]
  <2>1. Kept(host, x, {"ph", "i"}) /\ x.i = 0 /\ x.ph = "crc" BY <1>1, ToIs
  <2>2. /\ card' = ByteStep(card, Idle) /\ UNCHANGED <<flag, arm, disk>> /\ host.ph = "data"
        /\ Len(got) = LenOf(host) => host' = last
        /\ Len(got) # LenOf(host) => host' = more
    BY <1>6 DEF ReceiveData, Exchange, LenOf
  <2> HIDE DEF x, got
  <2>3. Kept(host, last, {"ph", "i", "got"}) /\ last.i = 0 /\ last.ph = "crc" /\ last.got = got
    BY <2>1 DEF Kept, HostRegs
  <2>4. Kept(host, more, {"got"}) /\ more.got = got BY <1>1 DEF Kept, HostRegs
  <2> HIDE DEF last, more
  <2>5. CASE Len(got) = LenOf(host)
    <3>1. Turn(card, host, Idle, last) BY <2>2, <2>3, <2>5 DEF Turn, got
    <3> QED BY <3>1, <2>2, <2>5 DEF Turned
  <2>6. CASE Len(got) # LenOf(host)
    <3>1. Turn(card, host, Idle, more) BY <2>2, <2>4, <2>6 DEF Turn, got
    <3> QED BY <3>1, <2>2, <2>6 DEF Turned
  <2> QED BY <2>5, <2>6
<1>7. CASE ReceiveCrc
  <2> DEFINE x == To("token")
             one == [host EXCEPT !.i = 1]
             next == [x EXCEPT !.arg = x.arg + 1]
             z == To("idle")
  <2>1. /\ Kept(host, x, {"ph", "i"}) /\ x.i = 0 /\ x.ph = "token" /\ x.arg = host.arg
        /\ Rests(z)
    BY <1>1, ToIs DEF Kept, HostRegs
  <2>2. /\ card' = ByteStep(card, Idle) /\ UNCHANGED <<flag, arm, disk>> /\ host.ph = "crc"
        /\ host.i = 0 => host' = one
        /\ host.i # 0 /\ host.op = "CMD18" => host' = next
        /\ host.i # 0 /\ host.op # "CMD18" => host' = z
    BY <1>7 DEF ReceiveCrc, Exchange
  <2> HIDE DEF x, z
  <2>3. Kept(host, next, {"ph", "i", "arg"}) /\ next.i = 0 /\ next.ph = "token" /\ next.arg = host.arg + 1
    BY <2>1 DEF Kept, HostRegs
  <2>4. Kept(host, one, {"i"}) /\ one.i = 1 BY <1>1 DEF Kept, HostRegs
  <2> HIDE DEF next, one
  <2>5. CASE host.i = 0
    <3>1. Turn(card, host, Idle, one) BY <2>2, <2>4, <2>5 DEF Turn
    <3> QED BY <3>1, <2>2, <2>5 DEF Turned
  <2>6. CASE host.i # 0 /\ host.op = "CMD18"
    <3>1. Turn(card, host, Idle, next) BY <2>2, <2>3, <2>6 DEF Turn
    <3> QED BY <3>1, <2>2, <2>6 DEF Turned
  <2>7. CASE host.i # 0 /\ host.op # "CMD18"
    <3>1. Turn(card, host, Idle, z) BY <2>1, <2>2, <2>7 DEF Turn
    <3> QED BY <3>1, <2>2, <2>7 DEF Turned
  <2> QED BY <2>5, <2>6, <2>7
<1>8. CASE PutBlock
  <2> DEFINE tx == CASE host.i = 0 -> Byte(IF host.op = "CMD25" THEN "FC" ELSE "FE")
                     [] host.i \in 1 .. BLK -> host.dat
                     [] OTHER -> Idle
             last == To("resp")
             more == [host EXCEPT !.i = host.i + 1]
  <2>1. Kept(host, last, {"ph", "i"}) /\ last.i = 0 /\ last.ph = "resp" BY <1>1, ToIs
  <2>2. Kept(host, more, {"i"}) /\ more.i = host.i + 1 BY <1>1 DEF Kept, HostRegs
  <2>3. /\ card' = ByteStep(card, tx) /\ UNCHANGED <<flag, arm, disk>> /\ host.ph = "put"
        /\ host.i = BLK + 2 => host' = last
        /\ host.i # BLK + 2 => host' = more
    BY <1>8 DEF PutBlock, Exchange
  <2>4. /\ host.i = 0 => tx = Byte(IF host.op = "CMD25" THEN "FC" ELSE "FE")
        /\ host.i \in 1 .. BLK => tx = host.dat
        /\ host.i \notin 0 .. BLK => tx = Idle
    BY <1>1, Sizes
  <2> HIDE DEF tx, last, more
  <2>5. CASE host.i = BLK + 2
    <3>1. Turn(card, host, tx, last) BY <2>1, <2>3, <2>4, <2>5 DEF Turn
    <3> QED BY <3>1, <2>3, <2>5 DEF Turned
  <2>6. CASE host.i # BLK + 2
    <3>1. Turn(card, host, tx, more) BY <2>2, <2>3, <2>4, <2>6 DEF Turn
    <3> QED BY <3>1, <2>3, <2>6 DEF Turned
  <2> QED BY <2>5, <2>6
<1>9. CASE AwaitResponse
  <2> DEFINE x == To("busy")
             g == [x EXCEPT !.ok = (card.out.t = "E5")]
  <2>1. Kept(host, x, {"ph", "i"}) /\ x.i = 0 /\ x.ph = "busy" BY <1>1, ToIs
  <2>2. /\ card' = ByteStep(card, Idle) /\ UNCHANGED <<flag, arm, disk>> /\ host.ph = "resp"
        /\ card.out.t \in {"E5", "ED"} => host' = g
        /\ card.out.t \notin {"E5", "ED"} => host' = host
    BY <1>9 DEF AwaitResponse, Exchange
  <2> HIDE DEF x
  <2>3. Kept(host, g, {"ph", "i", "ok"}) /\ g.i = 0 /\ g.ph = "busy" /\ (g.ok <=> card.out.t = "E5")
    BY <2>1 DEF Kept, HostRegs
  <2> HIDE DEF g
  <2>4. CASE card.out.t \in {"E5", "ED"}
    <3>1. Turn(card, host, Idle, g) BY <2>2, <2>3, <2>4 DEF Turn
    <3> QED BY <3>1, <2>2, <2>4 DEF Turned
  <2>5. CASE card.out.t \notin {"E5", "ED"}
    <3>1. Turn(card, host, Idle, host) BY <2>2, <2>5 DEF Turn
    <3> QED BY <3>1, <2>2, <2>5 DEF Turned
  <2> QED BY <2>4, <2>5
<1>10. CASE AwaitReady
  <2> DEFINE x == To("more")
             z == To("idle")
  <2>1. Kept(host, x, {"ph", "i"}) /\ x.i = 0 /\ x.ph = "more" /\ Rests(z) BY <1>1, ToIs
  <2>2. /\ card' = ByteStep(card, Idle) /\ UNCHANGED <<flag, arm, disk>> /\ host.ph = "busy"
        /\ card.out.t # "FF" => host' = host
        /\ card.out.t = "FF" /\ host.op = "CMD25" => host' = x
        /\ card.out.t = "FF" /\ host.op # "CMD25" => host' = z
    BY <1>10 DEF AwaitReady, Exchange
  <2> HIDE DEF x, z
  <2>3. CASE card.out.t # "FF"
    <3>1. Turn(card, host, Idle, host) BY <2>2, <2>3 DEF Turn
    <3> QED BY <3>1, <2>2, <2>3 DEF Turned
  <2>4. CASE card.out.t = "FF" /\ host.op = "CMD25"
    <3>1. Turn(card, host, Idle, x) BY <2>1, <2>2, <2>4 DEF Turn
    <3> QED BY <3>1, <2>2, <2>4 DEF Turned
  <2>5. CASE card.out.t = "FF" /\ host.op # "CMD25"
    <3>1. Turn(card, host, Idle, z) BY <2>1, <2>2, <2>5 DEF Turn
    <3> QED BY <3>1, <2>2, <2>5 DEF Turned
  <2> QED BY <2>3, <2>4, <2>5
<1>11. CASE host.ph = "more" /\ Exchange(Byte("FD"), [To("busy") EXCEPT !.op = "STOP"])
  <2> DEFINE x == To("busy")
             g == [x EXCEPT !.op = "STOP"]
  <2>1. Kept(host, x, {"ph", "i"}) /\ x.i = 0 /\ x.ph = "busy" BY <1>1, ToIs
  <2>2. card' = ByteStep(card, Byte("FD")) /\ host' = g /\ UNCHANGED <<flag, arm, disk>>
    BY <1>11 DEF Exchange
  <2> HIDE DEF x
  <2>3. Kept(host, g, {"ph", "i", "op"}) /\ g.i = 0 /\ g.ph = "busy" /\ g.op = "STOP"
    BY <2>1 DEF Kept, HostRegs
  <2> HIDE DEF g
  <2>4. Turn(card, host, Byte("FD"), g) BY <1>11, <2>3 DEF Turn
  <2> QED BY <2>2, <2>4 DEF Turned
<1> QED BY <1>2, <1>3, <1>4, <1>5, <1>6, <1>7, <1>8, <1>9, <1>10, <1>11 DEF HostByte

LEMMA TurnShape ==
  ASSUME NEW c, NEW h, NEW b, NEW g, HostShape(h), c.out \in OutByte, Turn(c, h, b, g)
  PROVE  HostShape(g)
<1>1. <<>> \in Seq(OutByte) /\ Append(h.got, c.out) \in Seq(OutByte) BY DEF HostShape
<1>2. h.i + 1 \in Nat /\ h.arg + 1 \in Nat BY DEF HostShape
<1>3. CASE h.ph = "frame" BY <1>2, <1>3, Sizes DEF Turn, Kept, HostRegs, HostShape
<1>4. CASE h.ph \in {"stuff", "r1"} BY <1>1, <1>4 DEF Turn, Kept, HostRegs, HostShape
<1>5. CASE h.ph = "token"
  <2>1. CASE c.out.t = "FE"
    <3>1. g.got \in Seq(OutByte) BY <1>5, <2>1, EmptyGot DEF Turn
    <3> QED BY <1>5, <2>1, <3>1 DEF Turn, Kept, HostRegs, HostShape
  <2>2. CASE c.out.t # "FE" BY <1>5, <2>2 DEF Turn, Rests
  <2> QED BY <2>1, <2>2
<1>6. CASE h.ph = "data" BY <1>1, <1>6 DEF Turn, Kept, HostRegs, HostShape
<1>7. CASE h.ph = "crc" BY <1>2, <1>7 DEF Turn, Kept, HostRegs, HostShape, Rests
<1>8. CASE h.ph = "put" BY <1>2, <1>8 DEF Turn, Kept, HostRegs, HostShape
<1>9. CASE h.ph = "resp" BY <1>9 DEF Turn, Kept, HostRegs, HostShape
<1>10. CASE h.ph = "busy" BY <1>10 DEF Turn, Kept, HostRegs, HostShape, Rests
<1>11. CASE h.ph = "more" BY <1>11 DEF Turn, Kept, HostRegs, HostShape
<1> QED BY <1>3, <1>4, <1>5, <1>6, <1>7, <1>8, <1>9, <1>10, <1>11 DEF Turn

-----------------------------------------------------------------------------
(* One turn after another, by the card's state *)

Turning(c, h, b, g) ==
    CardShape(c) /\ HostShape(h) /\ Meets(c, h) /\ c.attached /\ Turn(c, h, b, g)

\* The driver leaves its place only where the card's byte lets it.
LEMMA Places ==
  ASSUME NEW c, NEW h, NEW b, NEW g, Turning(c, h, b, g)
  PROVE  /\ g.ph = "data" => c.state \in {"S_TOKEN", "S_TX"}
         /\ g.ph = "crc" => c.state \in {"S_TX", "S_TXCRC"}
         /\ b.t = "frag" => h.ph = "frame" /\ h.i < FRAME - 1 /\ g.ph = "frame" /\ g.i = h.i + 1
<1> USE DEF Turning
<1>1. /\ h.ph = "data" => c.state = "S_TX"
      /\ h.ph = "crc" => c.state = "S_TXCRC"
      /\ c.out.t = "FE" => c.state = "S_TOKEN"
      /\ h.dat.t = "dat"
  BY DEF Meets, Sending, OutSays, HostShape, Dat
<1>2. g.ph = "data" => c.state \in {"S_TOKEN", "S_TX"}
  BY <1>1 DEF Turn, Kept, HostRegs, Rests
<1>3. g.ph = "crc" => c.state \in {"S_TX", "S_TXCRC"}
  BY <1>1 DEF Turn, Kept, HostRegs, Rests
<1>4. b.t = "frag" => h.ph = "frame" /\ h.i < FRAME - 1 /\ g.ph = "frame" /\ g.i = h.i + 1
  <2>1. Idle.t # "frag" /\ Byte("FC").t # "frag" /\ Byte("FE").t # "frag" /\ Byte("FD").t # "frag"
        /\ Cmd(h.op, h.arg).t # "frag"
    BY DEF Idle, Byte, Cmd
  <2>2. CASE h.ph = "frame" BY <2>1, <2>2 DEF Turn, Kept, HostRegs
  <2>3. CASE h.ph = "put" BY <2>1, <2>3, <1>1 DEF Turn, HostShape
  <2>4. CASE h.ph \notin {"frame", "put"} BY <2>1, <2>4 DEF Turn
  <2> QED BY <2>2, <2>3, <2>4
<1> QED BY <1>2, <1>3, <1>4

\* A card that collects, or has done with a command.
LEMMA MetIdle ==
  ASSUME NEW d, NEW g, d.state \in {"S_IDLE", "S_ARG"}, d.attached, d.out = Idle,
         Collecting(d, g), g.ph \notin {"data", "crc"}
  PROVE  Meets(d, g)
<1>1. OutSays(d) BY DEF OutSays, Idle, Byte
<1>2. OutOfCard(d) BY DEF OutOfCard
<1>3. Replying(d, g) BY DEF Replying, Reply
<1>4. Receiving(d, g) BY DEF Receiving
<1>5. Sending(d, g) BY DEF Sending, Flow, Awaiting, Reply
<1> QED BY <1>1, <1>2, <1>3, <1>4, <1>5 DEF Meets

\* A card that answers.
LEMMA MetReply ==
  ASSUME NEW d, NEW g, d.state \in Reply, d.attached,
         \/ d.state = "S_NCR" /\ d.out = Idle
         \/ d.state = "S_RESP" /\ d.out = R1(d.resp),
         Replying(d, g), Awaiting(d) /\ d.rd_rdy => d.dbase \in ReadBuffers
  PROVE  Meets(d, g)
<1>1. OutSays(d) BY DEF OutSays, Idle, Byte, R1, Reply
<1>2. OutOfCard(d) BY DEF OutOfCard
<1>3. Collecting(d, g) BY DEF Collecting, Reply
<1>4. Receiving(d, g) BY DEF Receiving, Reply
<1>5. g.ph \in {"stuff", "r1"} BY DEF Replying
<1>6. Sending(d, g) BY <1>5 DEF Sending, Flow, Reply
<1> QED BY <1>1, <1>2, <1>3, <1>4, <1>6 DEF Meets

LEMMA OutBytes ==
  /\ \A t \in {"FF", "FE", "ERR", "E5", "ED", "00"} : Byte(t) \in OutByte
  /\ \A v \in {"ok", "idle", "bad"} : R1(v) \in OutByte
  /\ Idle \in OutByte /\ Busy \in OutByte
  BY DEF OutByte, DataByte, Idle, Busy

\* The registers of a command's answer are those of a card.
LEMMA ExecutedShape ==
  ASSUME NEW c, NEW d, NEW op, NEW argv \in Nat, CardShape(c), Executed(Quiet(c), d, op, argv)
  PROVE  CardShape(d) /\ d.out = Idle /\ (d.attached <=> c.attached)
<1>1. Same(c, Quiet(c), {"out"}) /\ Quiet(c).out = Idle BY QuietIs DEF CardShape
<1> DEFINE q == Quiet(c)
<1> HIDE DEF q
<1>2. DOMAIN d = Regs /\ d.state = "S_NCR" /\ d.fcnt = 0 BY DEF Executed
<1>3. Same(q, d, CmdRegs \cup AskRegs)
  <2>1. \/ Same(q, d, CmdRegs) \/ Same(q, d, CmdRegs \cup AskRegs) \/ Same(q, d, CmdRegs \cup {"lba"})
    BY DEF Executed, q
  <2>2. "lba" \in AskRegs BY DEF AskRegs
  <2> QED BY <2>1, <2>2 DEF Same
<1>4. /\ d.dcnt = c.dcnt /\ d.rbuf = c.rbuf /\ d.mem = c.mem /\ d.out = Idle
      /\ d.attached = c.attached
  BY <1>1, <1>3 DEF Same, Regs, CmdRegs, AskRegs, q
<1>5. d.dbase = c.dbase \/ d.dbase = "CSD" BY <1>1 DEF Executed, Same, Regs
<1>6. d.lba = c.lba \/ d.lba = argv BY <1>1 DEF Executed, Same, Regs, CmdRegs, q
<1>7. d.rq_seq = c.rq_seq \/ d.rq_seq = nextseq(c)
  BY <1>1 DEF Executed, Same, Regs, CmdRegs, q, nextseq
<1>8. nextseq(c) \in Nat BY Sizes DEF nextseq, CardShape
<1>9. 0 \in 0 .. FRAME - 1 BY Sizes
<1> QED BY <1>2, <1>4, <1>5, <1>6, <1>7, <1>8, <1>9, OutBytes DEF CardShape, CardStates, Reply, Buffers

\* The byte that ends a frame is the driver's command.
LEMMA CommandIs ==
  ASSUME NEW c, NEW h, NEW b, NEW g, Turning(c, h, b, g), c.state \in {"S_IDLE", "S_ARG"},
         c.fcnt = FRAME - 1
  PROVE  \/ /\ h.ph \in {"stuff", "r1"} /\ g.ph = "r1" /\ OpOf(b) = "OTHER" /\ ArgOf(b) = 0
         \/ /\ h.ph = "frame" /\ b = Cmd(h.op, h.arg) /\ Kept(h, g, {"ph", "i"})
            /\ g.ph = (IF h.op = "CMD12" THEN "stuff" ELSE "r1")
<1>1. CardShape(c) /\ HostShape(h) /\ Turn(c, h, b, g) BY DEF Turning
<1>2. Collecting(c, h) /\ c.out.t # "R1" BY DEF Turning, Meets, OutSays
<1>3. CASE h.ph \in {"stuff", "r1"}
  <2>1. b = Idle /\ g.ph = "r1" BY <1>1, <1>2, <1>3 DEF Turn
  <2> QED BY <2>1, <1>3 DEF OpOf, ArgOf, Idle, Byte
<1>4. CASE h.ph = "frame" /\ c.fcnt <= h.i
  <2>1. ~(h.i < FRAME - 1) BY <1>1, <1>4, Sizes DEF HostShape
  <2> QED BY <2>1, <1>1, <1>4 DEF Turn
<1>5. c.fcnt # 0 BY Sizes
<1> QED BY <1>2, <1>3, <1>4, <1>5 DEF Collecting

LEMMA AtIdle ==
  ASSUME NEW c, NEW h, NEW b, NEW g, Turning(c, h, b, g), c.state \in {"S_IDLE", "S_ARG"}
  PROVE  CardShape(ByteStep(c, b)) /\ Meets(ByteStep(c, b), g)
<1> DEFINE d == ByteStep(c, b)  q == Quiet(c)
<1>1. CardShape(c) /\ HostShape(h) /\ c.attached /\ Turn(c, h, b, g) BY DEF Turning
<1>2. g.ph \notin {"data", "crc"} BY Places
<1>3. Same(c, q, {"out"}) /\ q.out = Idle BY <1>1, QuietIs DEF CardShape
<1>4. Collecting(c, h) /\ c.out.t # "R1" BY DEF Turning, Meets, OutSays
<1>5. DOMAIN c = Regs /\ c.fcnt \in 0 .. FRAME - 1 BY <1>1 DEF CardShape
<1>6. \/ c.fcnt = 0 /\ ~starts(b) /\ d = q
      \/ /\ c.fcnt = 0 /\ starts(b) /\ d.fcnt = 1 /\ d.state = "S_ARG" /\ d.out = Idle
         /\ Same(c, d, {"out", "fcnt", "state"})
      \/ /\ c.fcnt # 0 /\ c.fcnt < FRAME - 1 /\ d.fcnt = c.fcnt + 1 /\ d.out = Idle
         /\ Same(c, d, {"out", "fcnt"})
      \/ c.fcnt = FRAME - 1 /\ d = Execute(q, OpOf(b), ArgOf(b))
  BY <1>1, <1>5, StepCollect
<1> HIDE DEF d, q
<1> SUFFICES CardShape(d) /\ Meets(d, g) BY DEF d
<1>7. CASE c.fcnt = 0 /\ ~starts(b) /\ d = q
  <2>1. /\ d.state = c.state /\ d.fcnt = 0 /\ d.attached /\ d.out = Idle
    BY <1>1, <1>3, <1>7 DEF Same, Regs
  <2>2. CardShape(d) BY <1>1, <1>3, <1>7, OutBytes DEF CardShape, Same, Regs
  <2>3. Collecting(d, g) BY <2>1 DEF Collecting
  <2> QED BY <2>1, <2>2, <2>3, <1>2, MetIdle
<1>8. CASE /\ c.fcnt = 0 /\ starts(b) /\ d.fcnt = 1 /\ d.state = "S_ARG" /\ d.out = Idle
           /\ Same(c, d, {"out", "fcnt", "state"})
  <2>1. d.attached BY <1>1, <1>8 DEF Same, Regs
  <2>2. 1 \in 0 .. FRAME - 1 BY Sizes
  <2>3. CardShape(d) BY <1>1, <1>8, <2>2, OutBytes DEF CardShape, CardStates, Same, Regs
  <2>4. g.ph = "frame" /\ g.i = h.i + 1 BY <1>8, Places DEF starts
  <2>5. Collecting(d, g) BY <2>4, <1>8, <1>1 DEF Collecting, HostShape
  <2> QED BY <2>1, <2>3, <2>5, <1>2, <1>8, MetIdle
<1>9. CASE /\ c.fcnt # 0 /\ c.fcnt < FRAME - 1 /\ d.fcnt = c.fcnt + 1 /\ d.out = Idle
           /\ Same(c, d, {"out", "fcnt"})
  <2>1. d.attached /\ d.state = c.state BY <1>1, <1>9 DEF Same, Regs
  <2>2. c.fcnt + 1 \in 0 .. FRAME - 1 BY <1>5, <1>9, Sizes
  <2>3. CardShape(d) BY <1>1, <1>9, <2>2, OutBytes DEF CardShape, Same, Regs
  <2>4. CASE h.ph \in {"stuff", "r1"}
    <3>1. g.ph = "r1" BY <2>4, <1>1, <1>4 DEF Turn
    <3>2. Collecting(d, g) BY <3>1 DEF Collecting
    <3> QED BY <2>1, <2>3, <3>2, <1>2, <1>9, MetIdle
  <2>5. CASE h.ph = "frame" /\ c.fcnt <= h.i
    <3>1. \/ g.ph = "frame" /\ g.i = h.i + 1
          \/ g.ph \in {"stuff", "r1"}
      BY <2>5, <1>1 DEF Turn, Kept, HostRegs
    <3>2. Collecting(d, g) BY <3>1, <2>5, <1>9, <1>5, <1>1 DEF Collecting, HostShape
    <3> QED BY <2>1, <2>3, <3>2, <1>2, <1>9, MetIdle
  <2> QED BY <2>4, <2>5, <1>4, <1>9 DEF Collecting
<1>10. CASE c.fcnt = FRAME - 1 /\ d = Execute(q, OpOf(b), ArgOf(b))
  <2>1. Executed(q, d, OpOf(b), ArgOf(b))
    <3>1. DOMAIN q = Regs BY <1>3 DEF Same
    <3> QED BY <3>1, <1>10, ExecuteIs
  <2>2. \/ /\ h.ph \in {"stuff", "r1"} /\ g.ph = "r1" /\ OpOf(b) = "OTHER" /\ ArgOf(b) = 0
        \/ /\ h.ph = "frame" /\ b = Cmd(h.op, h.arg) /\ Kept(h, g, {"ph", "i"})
           /\ g.ph = (IF h.op = "CMD12" THEN "stuff" ELSE "r1")
    <3>1. Turning(c, h, b, g) OBVIOUS
    <3> QED BY <3>1, <1>10, CommandIs
  <2>3. ArgOf(b) \in Nat
    <3>1. h.arg \in Nat BY <1>1 DEF HostShape
    <3>2. ArgOf(Cmd(h.op, h.arg)) = h.arg BY DEF ArgOf, Cmd
    <3> QED BY <2>2, <3>1, <3>2
  <2>4. CardShape(d) /\ d.out = Idle /\ d.attached BY <2>1, <2>3, <1>1, ExecutedShape DEF q
  <2>5. d.state = "S_NCR" /\ d.resp \in {"ok", "idle", "bad"} /\ d.fcnt = 0 BY <2>1 DEF Executed
  <2>6. g.ph \in {"stuff", "r1"} BY <2>2
  <2>7. Replying(d, g)
    <3>1. CASE d.after = "S_IDLE" BY <3>1, <2>5, <2>6 DEF Replying
    <3>2. CASE d.after # "S_IDLE"
      <4>1. OpOf(b) # "OTHER" BY <3>2, <2>1 DEF Executed, WriteOps
      <4>2. /\ b = Cmd(h.op, h.arg) /\ Kept(h, g, {"ph", "i"})
            /\ g.ph = (IF h.op = "CMD12" THEN "stuff" ELSE "r1")
        BY <4>1, <2>2
      <4>3. OpOf(b) = h.op /\ ArgOf(b) = h.arg BY <4>2 DEF OpOf, ArgOf, Cmd
      <4>4. g.op = h.op /\ g.arg = h.arg BY <4>2 DEF Kept, HostRegs
      <4>5. h.op # "CMD12" BY <2>1, <3>2, <4>3 DEF Executed, WriteOps
      <4>6. g.ph = "r1" BY <4>2, <4>5
      <4>7. CSDLEN <= Size("CSD") BY Sizes DEF Size
      <4> QED BY <2>1, <2>5, <3>2, <4>3, <4>4, <4>6, <4>7 DEF Executed, Replying, Writing
    <3> QED BY <3>1, <3>2
  <2>8. Awaiting(d) => ~d.rd_rdy
    BY <2>1, <2>5 DEF Awaiting, Executed, Reply
  <2> QED BY <2>4, <2>5, <2>7, <2>8, MetReply DEF Reply
<1> QED BY <1>6, <1>7, <1>8, <1>9, <1>10

LEMMA MetReceive ==
  ASSUME NEW d, NEW g,
         d.state \in {"S_RXWAIT", "S_RX", "S_RXCRC", "S_RXACK", "S_RXRESP", "S_BUSY"},
         d.attached, OutSays(d), Receiving(d, g), g.ph \notin {"data", "crc"}
  PROVE  Meets(d, g)
<1>1. OutOfCard(d) BY DEF OutOfCard
<1>2. Collecting(d, g) /\ Replying(d, g) BY DEF Collecting, Replying, Reply
<1>3. Sending(d, g) BY DEF Sending, Flow, Awaiting, Reply
<1> QED BY <1>1, <1>2, <1>3 DEF Meets

LEMMA MetFlow ==
  ASSUME NEW d, NEW g, d.state \in Flow, d.attached, OutSays(d), Sending(d, g)
  PROVE  Meets(d, g)
<1>1. OutOfCard(d) BY DEF OutOfCard
<1>2. Collecting(d, g) /\ Replying(d, g) BY DEF Collecting, Replying, Reply, Flow
<1>3. Receiving(d, g) BY DEF Receiving, Flow
<1> QED BY <1>1, <1>2, <1>3 DEF Meets

LEMMA AtNcr ==
  ASSUME NEW c, NEW h, NEW b, NEW g, Turning(c, h, b, g), c.state = "S_NCR"
  PROVE  CardShape(ByteStep(c, b)) /\ Meets(ByteStep(c, b), g)
<1> DEFINE d == ByteStep(c, b)
<1>1. CardShape(c) /\ HostShape(h) /\ c.attached /\ Turn(c, h, b, g) BY DEF Turning
<1>2. Replying(c, h) /\ Sending(c, h) /\ c.out.t # "R1" BY DEF Turning, Meets, OutSays
<1>3. /\ Same(c, d, {"state", "out", "wcnt"})
      /\ \/ d.state = "S_NCR" /\ d.out = Idle
         \/ d.state = "S_RESP" /\ d.out = R1(c.resp)
  BY <1>1, StepNcr DEF CardShape
<1> HIDE DEF d
<1>4. /\ d.attached /\ d.resp = c.resp /\ d.after = c.after /\ d.multi = c.multi /\ d.lba = c.lba
      /\ d.dbase = c.dbase /\ d.rd_rdy = c.rd_rdy /\ d.stopnext = c.stopnext /\ d.fcnt = c.fcnt
  BY <1>1, <1>3 DEF Same, Regs
<1>5. h.ph \in {"stuff", "r1"} /\ c.resp \in {"ok", "idle", "bad"} BY <1>2 DEF Replying, Reply
<1>6. g.ph = "r1" /\ (h.ph = "r1" => g = h) BY <1>1, <1>2, <1>5 DEF Turn
<1>7. CardShape(d)
  <2>1. d.out \in OutByte /\ d.state \in CardStates BY <1>3, <1>5, OutBytes DEF CardStates, Reply
  <2> QED BY <2>1, <1>1, <1>3 DEF CardShape, Same, Regs
<1>8. Replying(d, g)
  <2>1. CASE c.after = "S_IDLE" BY <2>1, <1>4, <1>5, <1>6 DEF Replying
  <2>2. CASE c.after # "S_IDLE"
    <3>1. g = h BY <2>2, <1>2, <1>6 DEF Replying, Reply
    <3> QED BY <3>1, <1>2, <1>4 DEF Replying, Reply, Writing
  <2> QED BY <2>1, <2>2
<1>9. Awaiting(d) /\ d.rd_rdy => d.dbase \in ReadBuffers
  BY <1>2, <1>3, <1>4 DEF Sending, Awaiting, Reply
<1>10. d.state \in Reply BY <1>3 DEF Reply
<1>11. \/ d.state = "S_NCR" /\ d.out = Idle
       \/ d.state = "S_RESP" /\ d.out = R1(d.resp)
  BY <1>3, <1>4
<1>12. Meets(d, g) BY <1>4, <1>8, <1>9, <1>10, <1>11, MetReply
<1> QED BY <1>7, <1>12 DEF d

LEMMA AtResp ==
  ASSUME NEW c, NEW h, NEW b, NEW g, Turning(c, h, b, g), c.state = "S_RESP"
  PROVE  CardShape(ByteStep(c, b)) /\ Meets(ByteStep(c, b), g)
<1> DEFINE d == ByteStep(c, b)
<1>1. CardShape(c) /\ HostShape(h) /\ c.attached /\ Turn(c, h, b, g) BY DEF Turning
<1>2. Replying(c, h) /\ Sending(c, h) /\ c.out = R1(c.resp) BY DEF Turning, Meets, OutSays
<1>3. /\ Same(c, d, {"state", "out", "wcnt", "dcnt", "dlen", "fcnt"})
      /\ d.state = c.after
      /\ c.after \in {"S_IDLE", "S_NAC", "S_RXWAIT"} => d.out = Idle
      /\ c.after = "S_IDLE" => d.fcnt = 0
      /\ c.after # "S_IDLE" => d.fcnt = c.fcnt
      /\ c.after = "S_NAC" => d.dcnt = 0 /\ d.dlen = BLK
      /\ c.after = "S_TOKEN" => d.dcnt = 0 /\ d.dlen = CSDLEN /\ d.out = Byte("FE")
      /\ c.after = "S_BUSY" => d.out = Busy
      /\ c.after \notin {"S_NAC", "S_TOKEN"} => d.dcnt = c.dcnt /\ d.dlen = c.dlen
  BY <1>1, StepResp DEF CardShape
<1> HIDE DEF d
<1>4. /\ d.attached /\ d.multi = c.multi /\ d.lba = c.lba /\ d.dbase = c.dbase
      /\ d.rd_rdy = c.rd_rdy /\ d.stopnext = c.stopnext
  BY <1>1, <1>3 DEF Same, Regs
<1>5. c.after \in {"S_IDLE", "S_BUSY", "S_TOKEN", "S_NAC", "S_RXWAIT"} BY <1>2 DEF Replying, Reply
<1>6. g.ph \notin {"data", "crc"} BY Places
<1>7. CardShape(d)
  <2>1. d.state \in CardStates BY <1>3, <1>5 DEF CardStates, Flow
  <2>2. d.out \in OutByte BY <1>3, <1>5, OutBytes
  <2>3. d.fcnt \in 0 .. FRAME - 1 /\ d.dcnt \in Nat BY <1>1, <1>3, <1>5, Sizes DEF CardShape
  <2> QED BY <2>1, <2>2, <2>3, <1>1, <1>3 DEF CardShape, Same, Regs
<1> SUFFICES Meets(d, g) BY <1>7 DEF d
<1>8. CASE c.after = "S_IDLE"
  <2>1. Collecting(d, g) BY <1>3, <1>8 DEF Collecting
  <2> QED BY <2>1, <1>3, <1>4, <1>6, <1>8, MetIdle
<1>9. CASE c.after = "S_BUSY"
  <2>1. ~d.multi BY <1>2, <1>4, <1>9 DEF Replying, Reply
  <2>2. d.state = "S_BUSY" /\ d.out = Busy BY <1>3, <1>9
  <2>3. OutSays(d) BY <2>2 DEF OutSays, Busy, Byte
  <2>4. Receiving(d, g) BY <2>1, <2>2 DEF Receiving
  <2> QED BY <2>2, <2>3, <2>4, <1>4, <1>6, MetReceive
<1>10. CASE c.after \in {"S_TOKEN", "S_NAC", "S_RXWAIT"}
  <2>1. h.ph = "r1" /\ c.out.t = "R1" /\ c.out.v = "ok"
    BY <1>2, <1>10 DEF Replying, Reply, R1
  <2>2. /\ h.op \in ReadOps =>
              Kept(h, g, {"ph", "i", "got"}) /\ g.ph = "token" /\ g.i = 0 /\ g.got = <<>>
        /\ h.op \in WriteOps => Kept(h, g, {"ph", "i"}) /\ g.ph = "put" /\ g.i = 0
    BY <2>1, <1>1 DEF Turn
  <2>3. CASE c.after = "S_TOKEN"
    <3>1. h.op = "CMD9" /\ ~d.multi /\ CSDLEN <= Size(d.dbase)
      BY <2>3, <1>2, <1>4 DEF Replying, Reply
    <3>2. g.ph = "token" /\ g.op = "CMD9" BY <3>1, <2>2 DEF ReadOps, Kept, HostRegs
    <3>3. d.state = "S_TOKEN" /\ d.out = Byte("FE") /\ d.dlen = CSDLEN BY <1>3, <2>3
    <3>4. OutSays(d) BY <3>3 DEF OutSays, Byte
    <3>5. Reading(d, g) BY <3>1, <3>2, <3>3 DEF Reading, ReadOps, LenOf
    <3>6. Size(d.dbase) \in Nat /\ CSDLEN \in Nat \ {0} BY Sizes DEF Size
    <3>7. d.dlen \in 1 .. Size(d.dbase) BY <3>1, <3>3, <3>6
    <3>8. Sending(d, g) BY <3>2, <3>3, <3>5, <3>7 DEF Sending, Awaiting, Reply
    <3> QED BY <3>3, <3>4, <3>8, <1>4, MetFlow DEF Flow
  <2>4. CASE c.after = "S_NAC"
    <3>1. /\ h.op \in {"CMD17", "CMD18"} /\ d.lba = h.arg /\ (d.multi <=> h.op = "CMD18")
          /\ ~d.stopnext /\ d.fcnt = 0
      BY <2>4, <1>2, <1>3, <1>4 DEF Replying, Reply
    <3>2. g.ph = "token" /\ g.op = h.op /\ g.arg = h.arg /\ g.got = <<>>
      BY <3>1, <2>2 DEF ReadOps, Kept, HostRegs
    <3>3. d.state = "S_NAC" /\ d.out = Idle BY <1>3, <2>4
    <3>4. OutSays(d) BY <3>3 DEF OutSays, Idle, Byte
    <3>5. Reading(d, g) BY <3>1, <3>2, <3>3 DEF Reading, ReadOps
    <3>6. d.rd_rdy => d.dbase \in ReadBuffers
      BY <1>2, <1>4, <2>4 DEF Sending, Awaiting, Reply
    <3>7. Sending(d, g) BY <3>2, <3>3, <3>5, <3>6 DEF Sending
    <3> QED BY <3>3, <3>4, <3>7, <1>4, MetFlow DEF Flow
  <2>5. CASE c.after = "S_RXWAIT"
    <3>1. h.op \in WriteOps /\ d.lba = h.arg /\ (d.multi <=> h.op = "CMD25")
      BY <2>5, <1>2, <1>4 DEF Replying, Reply, Writing
    <3>2. g.ph = "put" /\ g.i = 0 /\ g.op = h.op /\ g.arg = h.arg
      BY <3>1, <2>2 DEF Kept, HostRegs
    <3>3. d.state = "S_RXWAIT" /\ d.out = Idle BY <1>3, <2>5
    <3>4. OutSays(d) BY <3>3 DEF OutSays, Idle, Byte
    <3>5. Receiving(d, g) BY <3>1, <3>2, <3>3 DEF Receiving, Writing
    <3> QED BY <3>3, <3>4, <3>5, <1>4, <1>6, MetReceive
  <2> QED BY <2>3, <2>4, <2>5, <1>10
<1> QED BY <1>5, <1>8, <1>9, <1>10

LEMMA AtRxWait ==
  ASSUME NEW c, NEW h, NEW b, NEW g, Turning(c, h, b, g), c.state = "S_RXWAIT"
  PROVE  CardShape(ByteStep(c, b)) /\ Meets(ByteStep(c, b), g)
<1> DEFINE d == ByteStep(c, b)
<1>1. CardShape(c) /\ HostShape(h) /\ c.attached /\ Turn(c, h, b, g) BY DEF Turning
<1>2. \/ h.ph = "put" /\ h.i = 0 /\ Writing(c, h)
      \/ /\ (h.ph = "busy" /\ c.out = Idle) \/ h.ph = "more"
         /\ h.op = "CMD25" /\ c.multi /\ c.lba = h.arg + 1
  BY DEF Turning, Meets, Receiving
<1>3. /\ Same(c, Quiet(c), {"out"}) /\ Quiet(c).out = Idle
      /\ \/ /\ b.t \in {"FE", "FC"} /\ d.dcnt = 0 /\ d.state = "S_RX" /\ d.out = Idle
            /\ Same(c, d, {"out", "dcnt", "state"})
         \/ /\ b.t = "FD" /\ ~d.multi /\ d.state = "S_BUSY" /\ d.out = Busy
            /\ Same(c, d, {"out", "multi", "wcnt", "state"})
         \/ b.t \notin {"FE", "FC", "FD"} /\ d = Quiet(c)
  BY <1>1, StepRxWait, QuietIs DEF CardShape
<1> HIDE DEF d
<1>6. g.ph \notin {"data", "crc"} BY Places
<1> SUFFICES CardShape(d) /\ Meets(d, g) BY DEF d
<1>7. CASE h.ph = "put" /\ h.i = 0 /\ Writing(c, h)
  <2>1. /\ b = Byte(IF h.op = "CMD25" THEN "FC" ELSE "FE")
        /\ Kept(h, g, {"i"}) /\ g.i = 1
    BY <1>7, <1>1, Sizes DEF Turn
  <2>2. /\ d.dcnt = 0 /\ d.state = "S_RX" /\ d.out = Idle
        /\ Same(c, d, {"out", "dcnt", "state"})
    BY <2>1, <1>3 DEF Byte
  <2>3. d.attached /\ d.lba = c.lba /\ d.multi = c.multi BY <2>2, <1>1 DEF Same, Regs
  <2>4. CardShape(d) BY <2>2, <1>1, OutBytes DEF CardShape, Same, Regs, CardStates
  <2>5. OutSays(d) BY <2>2 DEF OutSays, Idle, Byte
  <2>6. g.ph = "put" /\ g.op = h.op /\ g.arg = h.arg /\ g.dat = h.dat
    BY <2>1, <1>7 DEF Kept, HostRegs
  <2>7. Receiving(d, g) BY <2>1, <2>2, <2>3, <2>6, <1>7, Sizes DEF Receiving, Writing
  <2> QED BY <2>2, <2>3, <2>4, <2>5, <2>7, <1>6, MetReceive
<1>8. CASE h.ph = "busy" /\ c.out = Idle /\ h.op = "CMD25" /\ c.multi /\ c.lba = h.arg + 1
  <2>1. b = Idle /\ Kept(h, g, {"ph", "i"}) /\ g.ph = "more"
    BY <1>8, <1>1 DEF Turn, Idle, Byte
  <2>2. d = Quiet(c) BY <2>1, <1>3 DEF Idle, Byte
  <2>3. d.attached /\ d.state = c.state /\ d.lba = c.lba /\ d.multi = c.multi /\ d.out = Idle
    BY <2>2, <1>1, <1>3 DEF Same, Regs
  <2>4. CardShape(d) BY <2>2, <1>3, <1>1, OutBytes DEF CardShape, Same, Regs
  <2>5. OutSays(d) BY <2>3 DEF OutSays, Idle, Byte
  <2>6. g.op = h.op /\ g.arg = h.arg BY <2>1 DEF Kept, HostRegs
  <2>7. Receiving(d, g) BY <2>1, <2>3, <2>6, <1>8 DEF Receiving
  <2> QED BY <2>3, <2>4, <2>5, <2>7, <1>6, MetReceive
<1>9. CASE h.ph = "more"
  <2>1. b.t = "FD" BY <1>9, <1>1 DEF Turn, Byte
  <2>2. /\ ~d.multi /\ d.state = "S_BUSY" /\ d.out = Busy
        /\ Same(c, d, {"out", "multi", "wcnt", "state"})
    BY <2>1, <1>3
  <2>3. d.attached BY <2>2, <1>1 DEF Same, Regs
  <2>4. CardShape(d) BY <2>2, <1>1, OutBytes DEF CardShape, Same, Regs, CardStates
  <2>5. OutSays(d) BY <2>2 DEF OutSays, Busy, Byte
  <2>7. Receiving(d, g) BY <2>2 DEF Receiving
  <2> QED BY <2>2, <2>3, <2>4, <2>5, <2>7, <1>6, MetReceive
<1> QED BY <1>2, <1>7, <1>8, <1>9

LEMMA AtRx ==
  ASSUME NEW c, NEW h, NEW b, NEW g, Turning(c, h, b, g), c.state = "S_RX"
  PROVE  CardShape(ByteStep(c, b)) /\ Meets(ByteStep(c, b), g)
<1> DEFINE d == ByteStep(c, b)
<1>1. CardShape(c) /\ HostShape(h) /\ c.attached /\ Turn(c, h, b, g) BY DEF Turning
<1>2. /\ Writing(c, h) /\ h.ph = "put" /\ c.dcnt < BLK /\ h.i = c.dcnt + 1
      /\ \A i \in 0 .. BLK - 1 : i < c.dcnt => c.mem.WR[i] = h.dat
  BY DEF Turning, Meets, Receiving
<1>3. c.dcnt \in 0 .. BLK - 1 BY <1>1, <1>2, Sizes DEF CardShape
<1>4. /\ Same(c, d, {"state", "out", "dcnt", "mem", "rq_wr", "rq_seq", "wr_rdy", "wr_err"})
      /\ d.out = Idle /\ d.mem = [c.mem EXCEPT !.WR[c.dcnt] = b]
      /\ \/ /\ c.dcnt + 1 < BLK /\ d.dcnt = c.dcnt + 1
            /\ Same(c, d, {"out", "dcnt", "mem"})
         \/ /\ c.dcnt + 1 = BLK /\ d.state = "S_RXCRC" /\ d.dcnt = 0
            /\ IF c.wp THEN Same(c, d, {"out", "state", "dcnt", "mem"})
               ELSE d.rq_wr /\ d.rq_seq = nextseq(c) /\ ~d.wr_rdy /\ ~d.wr_err
  BY <1>1, <1>3, StepRx DEF CardShape
<1> HIDE DEF d
<1>5. b = h.dat /\ Kept(h, g, {"i"}) /\ g.i = h.i + 1
  BY <1>1, <1>2, <1>3, Sizes DEF Turn
<1>6. /\ g.ph = "put" /\ g.op = h.op /\ g.arg = h.arg /\ g.dat = h.dat
  BY <1>2, <1>5 DEF Kept, HostRegs
<1>7. d.attached /\ d.lba = c.lba /\ d.multi = c.multi BY <1>1, <1>4 DEF Same, Regs
<1>8. c.mem \in Memory /\ c.mem.WR \in Block BY <1>1 DEF CardShape, Memory
<1>9. /\ d.mem \in Memory /\ d.mem.WR = [c.mem.WR EXCEPT ![c.dcnt] = b]
  <2>1. b \in {Byte("00"), Dat("p"), Dat("q")} BY <1>5, <1>1 DEF HostShape
  <2> DEFINE w == [c.mem.WR EXCEPT ![c.dcnt] = b]
  <2>2. w \in Block BY <1>8, <2>1 DEF Block
  <2>3. d.mem = [c.mem EXCEPT !.WR = w] BY <1>4
  <2> HIDE DEF w
  <2>4. d.mem \in Memory /\ d.mem.WR = w BY <2>2, <2>3, <1>8 DEF Memory
  <2> QED BY <2>4 DEF w
<1>10. /\ \A i \in 0 .. BLK - 1 : i < c.dcnt + 1 => d.mem.WR[i] = h.dat
  <2> SUFFICES ASSUME NEW i \in 0 .. BLK - 1, i < c.dcnt + 1 PROVE d.mem.WR[i] = h.dat
    OBVIOUS
  <2>1. CASE i = c.dcnt BY <2>1, <1>5, <1>8, <1>9 DEF Block
  <2>2. CASE i # c.dcnt
    <3>1. i < c.dcnt BY <2>2, <1>3
    <3> QED BY <3>1, <2>2, <1>2, <1>8, <1>9 DEF Block
  <2> QED BY <2>1, <2>2
<1>11. /\ d.dcnt \in Nat /\ d.rq_seq \in Nat
       /\ \/ c.dcnt + 1 < BLK /\ d.dcnt = c.dcnt + 1 /\ d.state = "S_RX"
          \/ c.dcnt + 1 = BLK /\ d.dcnt = 0 /\ d.state = "S_RXCRC"
  <2>1. nextseq(c) \in Nat /\ c.rq_seq \in Nat BY <1>1, Sizes DEF nextseq, CardShape
  <2>2. CASE c.dcnt + 1 < BLK
    <3>1. d.dcnt = c.dcnt + 1 /\ d.state = c.state /\ d.rq_seq = c.rq_seq
      BY <2>2, <1>4, <1>3, Sizes DEF Same, Regs
    <3> QED BY <3>1, <2>1, <2>2, <1>3
  <2>3. CASE ~(c.dcnt + 1 < BLK)
    <3>1. /\ c.dcnt + 1 = BLK /\ d.state = "S_RXCRC" /\ d.dcnt = 0
          /\ d.rq_seq = c.rq_seq \/ d.rq_seq = nextseq(c)
      BY <2>3, <1>4 DEF Same, Regs
    <3> QED BY <3>1, <2>1
  <2> QED BY <2>2, <2>3
<1>12. CardShape(d)
  <2>1. d.state \in CardStates BY <1>11 DEF CardStates
  <2> QED BY <2>1, <1>1, <1>4, <1>9, <1>11, OutBytes DEF CardShape, Same, Regs
<1>13. OutSays(d) BY <1>4, <1>11 DEF OutSays, Idle, Byte
<1>14. Receiving(d, g)
  <2>1. CASE c.dcnt + 1 < BLK /\ d.dcnt = c.dcnt + 1 /\ d.state = "S_RX"
    BY <2>1, <1>2, <1>3, <1>5, <1>6, <1>7, <1>10 DEF Receiving, Writing
  <2>2. CASE c.dcnt + 1 = BLK /\ d.dcnt = 0 /\ d.state = "S_RXCRC"
    <3>1. \A i \in 0 .. BLK - 1 : d.mem.WR[i] = h.dat BY <2>2, <1>10, <1>3
    <3>2. d.mem.WR \in Block BY <1>9 DEF Memory
    <3>3. d.mem.WR = Whole(h.dat) BY <3>1, <3>2 DEF Block, Whole
    <3> QED BY <2>2, <3>3, <1>2, <1>3, <1>5, <1>6, <1>7, Sizes DEF Receiving, Writing
  <2> QED BY <2>1, <2>2, <1>11
<1>15. Meets(d, g) BY <1>6, <1>7, <1>11, <1>13, <1>14, MetReceive
<1> QED BY <1>12, <1>15 DEF d

LEMMA AtRxCrc ==
  ASSUME NEW c, NEW h, NEW b, NEW g, Turning(c, h, b, g), c.state \in {"S_RXCRC", "S_RXACK"}
  PROVE  CardShape(ByteStep(c, b)) /\ Meets(ByteStep(c, b), g)
<1> DEFINE d == ByteStep(c, b)
<1>1. CardShape(c) /\ HostShape(h) /\ c.attached /\ Turn(c, h, b, g) BY DEF Turning
<1>2. /\ Writing(c, h) /\ c.mem.WR = Whole(h.dat) /\ c.out.t \notin {"E5", "ED"}
      /\ c.state = "S_RXCRC" => h.ph = "put" /\ c.dcnt \in {0, 1} /\ h.i = BLK + 1 + c.dcnt
      /\ c.state = "S_RXACK" => h.ph = "resp"
  BY DEF Turning, Meets, Receiving, OutSays
<1>3. /\ Same(c, d, {"state", "out", "dcnt"}) /\ d.dcnt \in {0, 1, c.dcnt}
      /\ \/ c.state = "S_RXCRC" /\ c.dcnt = 0 /\ d.dcnt = 1 /\ d.state = c.state /\ d.out = Idle
         \/ c.state = "S_RXCRC" /\ c.dcnt # 0 /\ d.dcnt = 0 /\ d.state = "S_RXACK" /\ d.out = Idle
         \/ c.state = "S_RXACK" /\ d.state = "S_RXACK" /\ d.out = Idle
         \/ /\ c.wp \/ c.wr_rdy
            /\ c.state = "S_RXCRC" => c.dcnt # 0
            /\ d.state = "S_RXRESP" /\ d.out = Byte(IF c.wp \/ c.wr_err THEN "ED" ELSE "E5")
  BY <1>1, StepRxCrc DEF CardShape
<1>4. DOMAIN d = Regs /\ d.dcnt \in Nat BY <1>1, <1>3 DEF CardShape, Same
<1> HIDE DEF d
<1>5. d.attached /\ d.lba = c.lba /\ d.multi = c.multi /\ d.mem = c.mem BY <1>1, <1>3 DEF Same, Regs
<1>6. Byte("ED") \in OutByte /\ Byte("E5") \in OutByte /\ Idle \in OutByte BY OutBytes
<1>7. CardShape(d)
  <2>1. d.out \in OutByte /\ d.state \in CardStates BY <1>3, <1>6 DEF CardStates
  <2> QED BY <2>1, <1>1, <1>3, <1>4 DEF CardShape, Same, Regs
<1>8. OutSays(d) BY <1>3 DEF OutSays, Idle, Byte
<1>9. /\ Kept(h, g, {"ph", "i"})
      /\ \/ h.ph = "put" /\ h.i # BLK + 2 /\ g.ph = "put" /\ g.i = h.i + 1
         \/ h.ph = "put" /\ h.i = BLK + 2 /\ g.ph = "resp"
         \/ h.ph = "resp" /\ g = h
  BY <1>1, <1>2 DEF Turn, Kept, HostRegs, HostShape
<1>10. g.op = h.op /\ g.arg = h.arg /\ g.dat = h.dat BY <1>9 DEF Kept, HostRegs
<1>11. Receiving(d, g)
  BY <1>2, <1>3, <1>5, <1>9, <1>10, Sizes DEF Receiving, Writing
<1>12. d.state \in {"S_RXCRC", "S_RXACK", "S_RXRESP"} BY <1>3
<1>13. Meets(d, g) BY <1>5, <1>8, <1>9, <1>11, <1>12, MetReceive
<1> QED BY <1>7, <1>13 DEF d

LEMMA AtRxResp ==
  ASSUME NEW c, NEW h, NEW b, NEW g, Turning(c, h, b, g), c.state = "S_RXRESP"
  PROVE  /\ CardShape(ByteStep(c, b)) /\ Meets(ByteStep(c, b), g)
         /\ g.op = h.op /\ g.arg = h.arg /\ g.dat = h.dat /\ (g.ok <=> c.out.t = "E5")
<1> DEFINE d == ByteStep(c, b)
<1>1. CardShape(c) /\ HostShape(h) /\ c.attached /\ Turn(c, h, b, g) BY DEF Turning
<1>2. Writing(c, h) /\ h.ph = "resp" /\ c.out.t \in {"E5", "ED"}
  BY DEF Turning, Meets, Receiving, OutSays
<1>3. Same(c, d, {"state", "out", "wcnt"}) /\ d.state = "S_BUSY" /\ d.out = Busy
  BY <1>1, StepRxResp DEF CardShape
<1> HIDE DEF d
<1>4. d.attached /\ d.lba = c.lba /\ d.multi = c.multi BY <1>1, <1>3 DEF Same, Regs
<1>5. Kept(h, g, {"ph", "i", "ok"}) /\ g.ph = "busy" /\ (g.ok <=> c.out.t = "E5")
  BY <1>1, <1>2 DEF Turn
<1>6. g.op = h.op /\ g.arg = h.arg /\ g.dat = h.dat BY <1>5 DEF Kept, HostRegs
<1>7. CardShape(d) BY <1>1, <1>3, OutBytes DEF CardShape, CardStates, Same, Regs
<1>8. OutSays(d) BY <1>3 DEF OutSays, Busy, Byte
<1>9. Receiving(d, g) BY <1>2, <1>3, <1>4, <1>5, <1>6 DEF Receiving, Writing
<1>10. Meets(d, g) BY <1>3, <1>4, <1>5, <1>8, <1>9, MetReceive
<1> QED BY <1>5, <1>6, <1>7, <1>10 DEF d

LEMMA AtBusy ==
  ASSUME NEW c, NEW h, NEW b, NEW g, Turning(c, h, b, g), c.state = "S_BUSY"
  PROVE  CardShape(ByteStep(c, b)) /\ Meets(ByteStep(c, b), g)
<1> DEFINE d == ByteStep(c, b)
<1>1. CardShape(c) /\ HostShape(h) /\ c.attached /\ Turn(c, h, b, g) BY DEF Turning
<1>2. c.out = Busy /\ (c.multi => h.ph = "busy" /\ h.op = "CMD25" /\ c.lba = h.arg)
  BY DEF Turning, Meets, Receiving, OutSays
<1>3. /\ Same(c, d, {"state", "out", "wcnt", "lba", "fcnt"})
      /\ \/ d.state = "S_BUSY" /\ d.out = Busy /\ d.lba = c.lba /\ d.fcnt = c.fcnt
         \/ c.multi /\ d.state = "S_RXWAIT" /\ d.out = Idle /\ d.lba = c.lba + 1 /\ d.fcnt = c.fcnt
         \/ d.state = "S_IDLE" /\ d.out = Idle /\ d.lba = c.lba /\ d.fcnt = 0
  BY <1>1, StepBusy DEF CardShape
<1> HIDE DEF d
<1>4. d.attached /\ d.multi = c.multi BY <1>1, <1>3 DEF Same, Regs
<1>5. c.multi => g = h BY <1>1, <1>2 DEF Turn, Busy, Byte
<1>6. g.ph \notin {"data", "crc"} BY Places
<1>7. CardShape(d)
  <2>1. d.state \in CardStates /\ d.out \in OutByte BY <1>3, OutBytes DEF CardStates
  <2>2. d.lba \in Nat /\ d.fcnt \in 0 .. FRAME - 1 BY <1>1, <1>3, Sizes DEF CardShape
  <2> QED BY <2>1, <2>2, <1>1, <1>3 DEF CardShape, Same, Regs
<1> SUFFICES Meets(d, g) BY <1>7 DEF d
<1>8. CASE d.state = "S_BUSY" /\ d.out = Busy /\ d.lba = c.lba
  <2>1. OutSays(d) BY <1>8 DEF OutSays, Busy, Byte
  <2>2. Receiving(d, g) BY <1>2, <1>4, <1>5, <1>8 DEF Receiving
  <2> QED BY <2>1, <2>2, <1>4, <1>6, <1>8, MetReceive
<1>9. CASE c.multi /\ d.state = "S_RXWAIT" /\ d.out = Idle /\ d.lba = c.lba + 1
  <2>1. OutSays(d) BY <1>9 DEF OutSays, Idle, Byte
  <2>2. Receiving(d, g) BY <1>2, <1>4, <1>5, <1>9 DEF Receiving
  <2> QED BY <2>1, <2>2, <1>4, <1>6, <1>9, MetReceive
<1>10. CASE d.state = "S_IDLE" /\ d.out = Idle /\ d.fcnt = 0
  <2>1. Collecting(d, g) BY <1>10 DEF Collecting
  <2> QED BY <2>1, <1>4, <1>6, <1>10, MetIdle
<1> QED BY <1>3, <1>8, <1>9, <1>10

\* A byte of a buffer is a data byte.
LEMMA BufferBytes ==
  ASSUME NEW c, CardShape(c), NEW i \in Nat, i < Size(c.dbase)
  PROVE  c.mem[c.dbase][i] \in DataByte
<1>1. c.mem \in Memory /\ c.dbase \in Buffers BY DEF CardShape
<1>2. CASE c.dbase = "CSD"
  <2>1. i \in 0 .. CSDLEN - 1 BY <1>2, Sizes DEF Size
  <2>2. c.mem.CSD = CSD BY <1>1 DEF Memory
  <2> QED BY <2>1, <2>2, <1>2 DEF CSD, DataByte
<1>3. CASE c.dbase = "RDA"
  <2>1. i \in 0 .. BLK - 1 BY <1>3, Sizes DEF Size
  <2>2. c.mem.RDA \in Block BY <1>1 DEF Memory
  <2> QED BY <2>1, <2>2, <1>3 DEF Block, DataByte
<1>4. CASE c.dbase = "RDB"
  <2>1. i \in 0 .. BLK - 1 BY <1>4, Sizes DEF Size
  <2>2. c.mem.RDB \in Block BY <1>1 DEF Memory
  <2> QED BY <2>1, <2>2, <1>4 DEF Block, DataByte
<1> QED BY <1>1, <1>2, <1>3, <1>4 DEF Buffers, ReadBuffers

LEMMA DataBytes ==
  ASSUME NEW x \in DataByte
  PROVE  x \in OutByte /\ x.t \notin {"FF", "FE", "ERR", "E5", "ED", "R1"}
  BY DEF DataByte, OutByte, Byte, Dat

\* What the stream does, for its own part, to a card in it.
LEMMA FlowedShape ==
  ASSUME NEW c, NEW h, NEW d, CardShape(c), Meets(c, h), c.attached, Flowed(c, d)
  PROVE  /\ CardShape(d) /\ d.attached /\ OutSays(d)
         /\ d.state = "S_IDLE" \/ d.state \in Flow
         /\ d.state = "S_IDLE" => d.fcnt = 0
         /\ d.state # "S_IDLE" => d.multi = c.multi
         /\ c.multi /\ d.state = "S_IDLE" => d.out = Byte("ERR") /\ ~d.multi
         /\ Awaiting(d) /\ d.rd_rdy => d.dbase \in ReadBuffers
         /\ d.state \in {"S_TOKEN", "S_TX"} => d.dlen \in 1 .. Size(d.dbase)
         /\ d.state = "S_TX"    => d.dcnt < d.dlen
         /\ d.state = "S_TXCRC" => d.dcnt \in {0, 1}
<1>1. Sending(c, h) /\ OutSays(c) BY DEF Meets
<1>2. 0 \in 0 .. FRAME - 1 /\ 0 \in Nat /\ BLK \in Nat /\ BLK > 0 BY Sizes
<1>3. nextseq(c) \in Nat BY Sizes DEF CardShape, nextseq
<1>4. CASE c.state \in {"S_NAC", "S_MBGAP"}
  <2>1. /\ d.lba = c.lba /\ d.rq_seq = c.rq_seq /\ d.dbase = c.dbase /\ d.rbuf = c.rbuf
        /\ d.mem = c.mem /\ d.attached /\ d.rd_rdy = c.rd_rdy
    BY <1>4 DEF Flowed, Same, Regs
  <2>2. CASE d.out = Idle /\ Same(c, d, {"out", "wcnt"})
    <3>1. d.state = c.state /\ d.fcnt = c.fcnt /\ d.dcnt = c.dcnt /\ d.multi = c.multi
      BY <2>2 DEF Same, Regs
    <3>2. CardShape(d) BY <3>1, <2>1, <2>2, OutBytes DEF CardShape, Same
    <3>3. OutSays(d) BY <3>1, <2>2, <1>4 DEF OutSays, Idle, Byte
    <3> QED BY <3>1, <3>2, <3>3, <2>1, <1>1, <1>4 DEF Flow, Awaiting, Sending
  <2>3. CASE /\ d.state = "S_IDLE" /\ d.fcnt = 0 /\ ~d.multi /\ d.out = Byte("ERR")
             /\ Same(c, d, {"out", "wcnt", "state", "fcnt", "multi"})
    <3>1. d.dcnt = c.dcnt BY <2>3 DEF Same, Regs
    <3>2. CardShape(d) BY <3>1, <2>1, <2>3, <1>2, OutBytes DEF CardShape, CardStates, Same
    <3>3. OutSays(d) BY <2>3 DEF OutSays, Byte
    <3> QED BY <3>2, <3>3, <2>1, <2>3 DEF Awaiting, Reply
  <2>4. CASE /\ c.rd_rdy /\ d.state = "S_TOKEN" /\ d.dcnt = 0 /\ d.dlen = BLK /\ d.out = Byte("FE")
             /\ Same(c, d, {"out", "wcnt", "state", "dcnt", "dlen"})
    <3>1. d.fcnt = c.fcnt /\ d.multi = c.multi BY <2>4 DEF Same, Regs
    <3>2. CardShape(d) BY <3>1, <2>1, <2>4, <1>2, OutBytes DEF CardShape, CardStates, Flow, Same
    <3>3. OutSays(d) BY <2>4 DEF OutSays, Byte
    <3>4. d.dbase \in ReadBuffers BY <2>1, <2>4, <1>1, <1>4 DEF Sending, Awaiting
    <3>5. d.dlen \in 1 .. Size(d.dbase) BY <3>4, <2>4, <1>2 DEF Size, ReadBuffers
    <3> QED BY <3>1, <3>2, <3>3, <3>5, <2>1, <2>4 DEF Flow, Awaiting, Reply
  <2> QED BY <2>2, <2>3, <2>4, <1>4 DEF Flowed
<1>5. CASE c.state = "S_TOKEN"
  <2>1. /\ d.state = "S_TX" /\ d.dcnt = 0 /\ d.out = c.mem[c.dbase][0]
        /\ Same(c, d, {"out", "state", "dcnt"})
    BY <1>5 DEF Flowed
  <2>2. /\ d.lba = c.lba /\ d.rq_seq = c.rq_seq /\ d.dbase = c.dbase /\ d.rbuf = c.rbuf
        /\ d.mem = c.mem /\ d.attached /\ d.fcnt = c.fcnt /\ d.dlen = c.dlen /\ d.multi = c.multi
    BY <2>1 DEF Same, Regs
  <2>3. c.dlen \in 1 .. Size(c.dbase) /\ Size(c.dbase) \in Nat BY <1>1, <1>5, Sizes DEF Sending, Size
  <2>4. d.out \in DataByte BY <2>1, <2>3, BufferBytes
  <2>5. CardShape(d) BY <2>1, <2>2, <2>4, <1>2, DataBytes DEF CardShape, CardStates, Flow, Same
  <2>6. OutSays(d) BY <2>1, <2>4, DataBytes DEF OutSays
  <2> QED BY <2>1, <2>2, <2>3, <2>5, <2>6 DEF Flow, Awaiting, Reply
<1>6. CASE c.state = "S_TX" /\ c.dcnt + 1 >= c.dlen
  <2>1. d.state = "S_TXCRC" /\ d.dcnt = 0 /\ d.out = Idle /\ Same(c, d, {"out", "state", "dcnt"})
    BY <1>6 DEF Flowed
  <2>2. /\ d.lba = c.lba /\ d.rq_seq = c.rq_seq /\ d.dbase = c.dbase /\ d.rbuf = c.rbuf
        /\ d.mem = c.mem /\ d.attached /\ d.fcnt = c.fcnt /\ d.multi = c.multi
    BY <2>1 DEF Same, Regs
  <2>3. CardShape(d) BY <2>1, <2>2, <1>2, OutBytes DEF CardShape, CardStates, Flow, Same
  <2>4. OutSays(d) BY <2>1 DEF OutSays, Idle, Byte
  <2> QED BY <2>1, <2>2, <2>3, <2>4 DEF Flow, Awaiting, Reply
<1>7. CASE c.state = "S_TX" /\ ~(c.dcnt + 1 >= c.dlen)
  <2>1. /\ d.dcnt = c.dcnt + 1 /\ d.out = c.mem[c.dbase][c.dcnt + 1]
        /\ Same(c, d, {"out", "dcnt"})
    BY <1>7 DEF Flowed
  <2>2. /\ d.lba = c.lba /\ d.rq_seq = c.rq_seq /\ d.dbase = c.dbase /\ d.rbuf = c.rbuf
        /\ d.mem = c.mem /\ d.attached /\ d.fcnt = c.fcnt /\ d.dlen = c.dlen /\ d.multi = c.multi
        /\ d.state = "S_TX"
    BY <2>1, <1>7 DEF Same, Regs
  <2>3. /\ c.dlen \in 1 .. Size(c.dbase) /\ Size(c.dbase) \in Nat /\ c.dcnt \in Nat
        /\ c.dcnt + 1 \in Nat /\ c.dcnt + 1 < c.dlen /\ c.dcnt + 1 < Size(c.dbase)
    BY <1>1, <1>7, Sizes DEF Sending, Size, CardShape
  <2>4. d.out \in DataByte BY <2>1, <2>3, BufferBytes
  <2>5. CardShape(d) BY <2>1, <2>2, <2>3, <2>4, DataBytes DEF CardShape, CardStates, Flow, Same
  <2>6. OutSays(d) BY <2>2, <2>4, DataBytes DEF OutSays
  <2> QED BY <2>1, <2>2, <2>3, <2>5, <2>6 DEF Flow, Awaiting, Reply
<1>8. CASE c.state = "S_TXCRC" /\ c.dcnt = 0
  <2>1. d.dcnt = 1 /\ d.out = Idle /\ Same(c, d, {"out", "dcnt"}) BY <1>8 DEF Flowed
  <2>2. /\ d.lba = c.lba /\ d.rq_seq = c.rq_seq /\ d.dbase = c.dbase /\ d.rbuf = c.rbuf
        /\ d.mem = c.mem /\ d.attached /\ d.fcnt = c.fcnt /\ d.multi = c.multi /\ d.state = "S_TXCRC"
    BY <2>1, <1>8 DEF Same, Regs
  <2>3. CardShape(d) BY <2>1, <2>2, <1>2, OutBytes DEF CardShape, CardStates, Flow, Same
  <2>4. OutSays(d) BY <2>1, <2>2 DEF OutSays, Idle, Byte
  <2> QED BY <2>1, <2>2, <2>3, <2>4 DEF Flow, Awaiting, Reply
<1>9. CASE c.state = "S_TXCRC" /\ c.dcnt # 0 /\ c.multi
  <2>1. /\ d.state = "S_MBGAP" /\ d.dcnt = 0 /\ d.out = Idle
        /\ d.lba = c.lba + 1 /\ d.rq_rd /\ d.rq_seq = nextseq(c) /\ ~d.rd_rdy /\ ~d.rd_err
        /\ Same(c, d, {"out", "dcnt", "wcnt", "state"} \cup AskRegs)
    BY <1>9 DEF Flowed
  <2>2. /\ d.dbase = c.dbase /\ d.rbuf = c.rbuf /\ d.mem = c.mem /\ d.attached /\ d.fcnt = c.fcnt
        /\ d.multi = c.multi
    BY <2>1 DEF Same, Regs, AskRegs
  <2>3. CardShape(d)
    BY <2>1, <2>2, <1>2, <1>3, OutBytes DEF CardShape, CardStates, Flow, Same
  <2>4. OutSays(d) BY <2>1 DEF OutSays, Idle, Byte
  <2> QED BY <2>1, <2>2, <2>3, <2>4 DEF Flow
<1>10. CASE c.state = "S_TXCRC" /\ c.dcnt # 0 /\ ~c.multi
  <2>1. /\ d.state = "S_IDLE" /\ d.fcnt = 0 /\ d.dcnt = 0 /\ ~d.stopnext /\ d.out = Idle
        /\ Same(c, d, {"out", "dcnt", "stopnext", "fcnt", "state"})
    BY <1>10 DEF Flowed
  <2>2. /\ d.lba = c.lba /\ d.rq_seq = c.rq_seq /\ d.dbase = c.dbase /\ d.rbuf = c.rbuf
        /\ d.mem = c.mem /\ d.attached
    BY <2>1 DEF Same, Regs
  <2>3. CardShape(d) BY <2>1, <2>2, <1>2, OutBytes DEF CardShape, CardStates, Same
  <2>4. OutSays(d) BY <2>1 DEF OutSays, Idle, Byte
  <2> QED BY <2>1, <2>2, <2>3, <2>4, <1>10 DEF Awaiting, Reply
<1> QED BY <1>4, <1>5, <1>6, <1>7, <1>8, <1>9, <1>10 DEF Flowed

\* The stop command is executed: its answer comes after a byte, then busy.
LEMMA AtStop ==
  ASSUME NEW c, NEW h, NEW b, NEW g, Turning(c, h, b, g), c.state \in Flow,
         Stopping(c, h), h.ph = "stuff"
  PROVE  CardShape(ByteStep(c, b)) /\ Meets(ByteStep(c, b), g)
<1> DEFINE d == ByteStep(c, b)
<1>1. CardShape(c) /\ HostShape(h) /\ c.attached /\ Turn(c, h, b, g) BY DEF Turning
<1>2. b = Idle /\ g.ph = "r1" BY <1>1 DEF Turn
<1>3. c.multi /\ c.stopnext /\ c.fcnt = 0 /\ ~starts(b)
  BY <1>2 DEF Stopping, starts, Idle, Byte
<1>4. /\ Same(c, d, {"out", "multi", "stopnext", "fcnt", "resp", "after", "wcnt", "state"})
      /\ d.state = "S_NCR" /\ d.after = "S_BUSY" /\ d.out = Idle /\ ~d.multi /\ d.fcnt = 0
      /\ d.resp \in {"ok", "idle"}
  BY <1>1, <1>3, StepStop DEF CardShape
<1> HIDE DEF d
<1>5. d.attached BY <1>1, <1>4 DEF Same, Regs
<1>6. 0 \in 0 .. FRAME - 1 BY Sizes
<1>7. CardShape(d) BY <1>1, <1>4, <1>6, OutBytes DEF CardShape, CardStates, Reply, Same, Regs
<1>8. Replying(d, g) BY <1>2, <1>4 DEF Replying
<1>9. ~Awaiting(d) BY <1>4 DEF Awaiting
<1>10. Meets(d, g) BY <1>4, <1>5, <1>8, <1>9, MetReply DEF Reply
<1> QED BY <1>7, <1>10 DEF d

\* A stop command comes in under the stream, and is caught at its last byte.
LEMMA AtStopping ==
  ASSUME NEW c, NEW h, NEW b, NEW g, Turning(c, h, b, g), c.state \in Flow,
         Stopping(c, h), h.ph = "frame"
  PROVE  /\ CardShape(ByteStep(c, b)) /\ Meets(ByteStep(c, b), g)
         /\ \E n : Flowed(c, n) /\ Heard(c, b, n, ByteStep(c, b))
<1> DEFINE d == ByteStep(c, b)
<1>1. CardShape(c) /\ HostShape(h) /\ c.attached /\ Turn(c, h, b, g) /\ Meets(c, h) BY DEF Turning
<1>2. h.op = "CMD12" /\ c.multi /\ ~c.stopnext /\ c.fcnt = h.i BY DEF Stopping
<1>3. \/ /\ h.i < FRAME - 1 /\ b = Frag /\ Kept(h, g, {"i"}) /\ g.i = h.i + 1
      \/ /\ h.i >= FRAME - 1 /\ b = Cmd("CMD12", h.arg) /\ Kept(h, g, {"ph", "i"})
         /\ g.ph = "stuff"
  BY <1>1, <1>2 DEF Turn
<1>4. ~(c.fcnt = 0 /\ ~starts(b)) BY <1>2, <1>3, Sizes DEF starts, Frag, Byte
<1>5. PICK n : Flowed(c, n) /\ Heard(c, b, n, d)
  BY <1>1, <1>2, <1>4, StepFlow DEF CardShape
<1> HIDE DEF d
<1>6. /\ CardShape(n) /\ n.attached /\ OutSays(n)
      /\ n.state = "S_IDLE" \/ n.state \in Flow
      /\ n.state # "S_IDLE" => n.multi = c.multi
      /\ n.state = "S_IDLE" => n.out = Byte("ERR") /\ ~n.multi
      /\ Awaiting(n) /\ n.rd_rdy => n.dbase \in ReadBuffers
      /\ n.state \in {"S_TOKEN", "S_TX"} => n.dlen \in 1 .. Size(n.dbase)
      /\ n.state = "S_TX"    => n.dcnt < n.dlen
      /\ n.state = "S_TXCRC" => n.dcnt \in {0, 1}
  BY <1>1, <1>2, <1>5, FlowedShape
<1>7. /\ d.attached /\ d.state = n.state /\ d.multi = n.multi /\ d.out = n.out /\ d.rd_rdy = n.rd_rdy
      /\ d.dbase = n.dbase /\ d.dlen = n.dlen /\ d.dcnt = n.dcnt /\ d.after = n.after /\ d.resp = n.resp
  BY <1>5, <1>6 DEF Heard, Same, Regs
<1>8. /\ d.fcnt = (IF c.fcnt = FRAME - 1 THEN 0 ELSE c.fcnt + 1)
      /\ d.stopnext = (IF c.fcnt = FRAME - 1 /\ OpOf(b) = "CMD12" THEN TRUE ELSE n.stopnext)
  BY <1>5 DEF Heard
<1>9. n.stopnext = c.stopnext
  BY <1>2, <1>5 DEF Flowed, Same, Regs, AskRegs
<1>10. CardShape(d)
  <2>1. d.fcnt \in 0 .. FRAME - 1 BY <1>1, <1>8, Sizes DEF CardShape
  <2> QED BY <2>1, <1>5, <1>6 DEF Heard, CardShape, Same, Regs
<1>11. OutSays(d) BY <1>6, <1>7 DEF OutSays
<1>12. h.i \in 0 .. FRAME - 1 BY <1>1 DEF HostShape
<1>13. g.ph \notin {"data", "crc"} /\ g.op = "CMD12"
  BY <1>2, <1>3 DEF Kept, HostRegs
<1>14. CASE n.state = "S_IDLE"
  <2>1. OutOfCard(d) BY <1>7 DEF OutOfCard
  <2>2. Collecting(d, g)
    <3>1. CASE h.i < FRAME - 1
      <4>1. g.ph = "frame" /\ g.i = h.i + 1 BY <3>1, <1>3, <1>12, Sizes DEF Kept, HostRegs
      <4>2. d.fcnt = h.i + 1 BY <3>1, <1>2, <1>8, <1>12, Sizes
      <4> QED BY <4>1, <4>2, <1>12 DEF Collecting
    <3>2. CASE ~(h.i < FRAME - 1)
      <4>1. g.ph = "stuff" BY <3>2, <1>3
      <4> QED BY <4>1 DEF Collecting
    <3> QED BY <3>1, <3>2
  <2>3. Replying(d, g) BY <1>7, <1>14 DEF Replying, Reply
  <2>4. Receiving(d, g) BY <1>7, <1>14 DEF Receiving
  <2>5. Sending(d, g) BY <1>7, <1>13, <1>14 DEF Sending, Flow, Awaiting, Reply
  <2>6. Meets(d, g) BY <2>1, <2>2, <2>3, <2>4, <2>5, <1>11 DEF Meets
  <2> QED BY <2>6, <1>5, <1>10 DEF d
<1>15. CASE n.state \in Flow
  <2>1. d.multi BY <1>2, <1>6, <1>7, <1>15 DEF Flow
  <2>2. Stopping(d, g)
    <3>1. CASE h.i < FRAME - 1
      <4>1. g.ph = "frame" /\ g.i = h.i + 1 BY <3>1, <1>3, <1>12, Sizes DEF Kept, HostRegs
      <4>2. d.fcnt = h.i + 1 /\ ~d.stopnext BY <3>1, <1>2, <1>8, <1>9, <1>12, Sizes
      <4> QED BY <4>1, <4>2, <2>1, <1>13 DEF Stopping
    <3>2. CASE ~(h.i < FRAME - 1)
      <4>1. g.ph = "stuff" /\ b = Cmd("CMD12", h.arg) BY <3>2, <1>3
      <4>2. OpOf(b) = "CMD12" BY <4>1 DEF OpOf, Cmd
      <4>3. c.fcnt = FRAME - 1 BY <3>2, <1>2, <1>12, Sizes
      <4> QED BY <4>1, <4>2, <4>3, <2>1, <1>8, <1>13 DEF Stopping
    <3> QED BY <3>1, <3>2
  <2>3. Awaiting(d) /\ d.rd_rdy => d.dbase \in ReadBuffers BY <1>6, <1>7 DEF Awaiting
  <2>4. Sending(d, g) BY <2>2, <2>3, <1>6, <1>7, <1>13 DEF Sending
  <2>5. Meets(d, g) BY <2>4, <1>7, <1>11, <1>15, MetFlow
  <2> QED BY <2>5, <1>5, <1>10 DEF d
<1> QED BY <1>6, <1>14, <1>15

\* The driver takes what the card sends.
LEMMA AtReading ==
  ASSUME NEW c, NEW h, NEW b, NEW g, Turning(c, h, b, g), c.state \in Flow, Reading(c, h)
  PROVE  /\ CardShape(ByteStep(c, b)) /\ Meets(ByteStep(c, b), g)
         /\ Flowed(c, ByteStep(c, b))
<1> DEFINE d == ByteStep(c, b)
<1>1. CardShape(c) /\ HostShape(h) /\ c.attached /\ Turn(c, h, b, g) /\ Meets(c, h) BY DEF Turning
<1>2. h.ph \in {"token", "data", "crc"} BY DEF Reading, Flow
<1>3. b = Idle BY <1>1, <1>2 DEF Turn
<1>4. ~starts(b) /\ OpOf(b) = "OTHER" BY <1>3 DEF starts, Idle, Byte, OpOf
<1>5. c.multi => ~c.stopnext /\ c.fcnt = 0 BY DEF Reading
<1>6. Flowed(c, d)
  BY <1>1, <1>4, <1>5, StepFlow DEF CardShape, Heard
<1> HIDE DEF d
<1>7. /\ CardShape(d) /\ d.attached /\ OutSays(d)
      /\ d.state = "S_IDLE" \/ d.state \in Flow
      /\ d.state = "S_IDLE" => d.fcnt = 0
      /\ d.state # "S_IDLE" => d.multi = c.multi
      /\ Awaiting(d) /\ d.rd_rdy => d.dbase \in ReadBuffers
      /\ d.state \in {"S_TOKEN", "S_TX"} => d.dlen \in 1 .. Size(d.dbase)
      /\ d.state = "S_TX"    => d.dcnt < d.dlen
      /\ d.state = "S_TXCRC" => d.dcnt \in {0, 1}
  BY <1>1, <1>6, FlowedShape
<1>8. OutSays(c) /\ Sending(c, h) BY <1>1 DEF Meets
<1>9. h.op \in ReadOps /\ (c.multi <=> h.op = "CMD18") /\ (h.op # "CMD9" => h.arg = c.lba)
  BY DEF Reading
<1> SUFFICES Meets(d, g) BY <1>6, <1>7 DEF d
<1>10. ASSUME d.state = "S_IDLE", g.ph \notin {"data", "crc"} PROVE Meets(d, g)
  <2>1. Collecting(d, g) BY <1>7, <1>10 DEF Collecting
  <2>2. OutOfCard(d) BY <1>7 DEF OutOfCard
  <2>3. Replying(d, g) BY <1>10 DEF Replying, Reply
  <2>4. Receiving(d, g) BY <1>10 DEF Receiving
  <2>5. Sending(d, g) BY <1>7, <1>10 DEF Sending, Flow
  <2> QED BY <2>1, <2>2, <2>3, <2>4, <2>5, <1>7 DEF Meets
<1>11. ASSUME d.state \in Flow, Reading(d, g), g.ph = "data" => d.state = "S_TX",
              g.ph = "crc" => d.state = "S_TXCRC"
       PROVE  Meets(d, g)
  <2>1. Sending(d, g) BY <1>7, <1>11 DEF Sending
  <2> QED BY <2>1, <1>7, <1>11, MetFlow
<1>12. CASE c.state \in {"S_NAC", "S_MBGAP"}
  <2>1. h.ph = "token" /\ h.op # "CMD9" /\ c.out.t # "FE"
    BY <1>8, <1>12 DEF Reading, OutSays
  <2>2. c.out.t # "ERR" BY <1>8, <1>12 DEF OutSays
  <2>3. g = h BY <2>1, <2>2, <1>1 DEF Turn
  <2>4. d.lba = c.lba /\ (d.stopnext = c.stopnext) BY <1>6, <1>12 DEF Flowed, Same, Regs
  <2>5. CASE d.state = "S_IDLE" BY <2>1, <2>3, <2>5, <1>10
  <2>6. CASE d.state # "S_IDLE"
    <3>1. \/ Same(c, d, {"out", "wcnt"})
          \/ /\ d.state = "S_TOKEN" /\ d.dlen = BLK
             /\ Same(c, d, {"out", "wcnt", "state", "dcnt", "dlen"})
      BY <2>6, <1>12, <1>6 DEF Flowed
    <3>2. d.fcnt = c.fcnt BY <3>1 DEF Same, Regs
    <3>3. d.state = c.state \/ (d.state = "S_TOKEN" /\ d.dlen = BLK) BY <3>1 DEF Same, Regs
    <3>4. Reading(d, g)
      BY <3>2, <3>3, <2>1, <2>3, <2>4, <2>6, <1>5, <1>7, <1>9, <1>12 DEF Reading, LenOf
    <3> QED BY <3>4, <2>1, <2>3, <2>6, <1>7, <1>11
  <2> QED BY <2>5, <2>6
<1>13. CASE c.state = "S_TOKEN"
  <2>1. h.ph = "token" /\ c.out.t = "FE" /\ c.dlen = LenOf(h) BY <1>8, <1>13 DEF Reading, OutSays
  <2>2. Kept(h, g, {"ph", "i", "got"}) /\ g.ph = "data" /\ g.got = <<>>
    BY <2>1, <1>1 DEF Turn
  <2>3. d.state = "S_TX" /\ d.dcnt = 0 /\ Same(c, d, {"out", "state", "dcnt"}) BY <1>6, <1>13 DEF Flowed
  <2>4. d.lba = c.lba /\ (d.stopnext = c.stopnext) /\ d.fcnt = c.fcnt /\ d.dlen = c.dlen
    BY <2>3 DEF Same, Regs
  <2>5. g.op = h.op /\ g.arg = h.arg BY <2>2 DEF Kept, HostRegs
  <2>6. Len(g.got) = 0 BY <2>2
  <2>7. Reading(d, g)
    BY <2>1, <2>2, <2>3, <2>4, <2>5, <2>6, <1>5, <1>7, <1>9 DEF Reading, LenOf
  <2> QED BY <2>2, <2>3, <2>7, <1>11 DEF Flow
<1>14. CASE c.state = "S_TX"
  <2>1. h.ph = "data" /\ c.dcnt = Len(h.got) /\ c.dlen = LenOf(h) /\ c.dcnt < c.dlen
    BY <1>8, <1>14 DEF Reading, Sending
  <2>2. /\ g.got = Append(h.got, c.out)
        /\ \/ Len(g.got) = LenOf(h) /\ Kept(h, g, {"ph", "i", "got"}) /\ g.ph = "crc" /\ g.i = 0
           \/ Len(g.got) # LenOf(h) /\ Kept(h, g, {"got"})
    BY <2>1, <1>1 DEF Turn
  <2>3. Len(g.got) = c.dcnt + 1 BY <2>1, <2>2, <1>1 DEF HostShape
  <2>4. c.dlen \in Nat /\ c.dcnt \in Nat BY <2>1, <1>1, Sizes DEF LenOf, CardShape
  <2>5. g.op = h.op /\ g.arg = h.arg BY <2>2 DEF Kept, HostRegs
  <2>6. CASE c.dcnt + 1 >= c.dlen
    <3>1. d.state = "S_TXCRC" /\ d.dcnt = 0 /\ Same(c, d, {"out", "state", "dcnt"})
      BY <2>6, <1>6, <1>14 DEF Flowed
    <3>2. d.lba = c.lba /\ (d.stopnext = c.stopnext) /\ d.fcnt = c.fcnt BY <3>1 DEF Same, Regs
    <3>3. g.ph = "crc" /\ g.i = 0 BY <2>1, <2>2, <2>3, <2>4, <2>6
    <3>4. Reading(d, g) BY <3>1, <3>2, <3>3, <2>5, <1>5, <1>7, <1>9 DEF Reading
    <3> QED BY <3>1, <3>3, <3>4, <1>11 DEF Flow
  <2>7. CASE ~(c.dcnt + 1 >= c.dlen)
    <3>1. d.dcnt = c.dcnt + 1 /\ Same(c, d, {"out", "dcnt"}) BY <2>7, <1>6, <1>14 DEF Flowed
    <3>2. d.lba = c.lba /\ (d.stopnext = c.stopnext) /\ d.fcnt = c.fcnt /\ d.dlen = c.dlen
          /\ d.state = "S_TX"
      BY <3>1, <1>14 DEF Same, Regs
    <3>3. g.ph = "data"
      BY <2>1, <2>2, <2>3, <2>4, <2>7 DEF Kept, HostRegs
    <3>4. Reading(d, g) BY <3>1, <3>2, <3>3, <2>1, <2>3, <2>5, <1>5, <1>7, <1>9 DEF Reading, LenOf
    <3> QED BY <3>2, <3>3, <3>4, <1>11 DEF Flow
  <2> QED BY <2>6, <2>7
<1>15. CASE c.state = "S_TXCRC"
  <2>1. h.ph = "crc" /\ h.i = c.dcnt /\ c.dcnt \in {0, 1} BY <1>8, <1>15 DEF Reading, Sending
  <2>2. CASE c.dcnt = 0
    <3>1. d.dcnt = 1 /\ Same(c, d, {"out", "dcnt"}) BY <2>2, <1>6, <1>15 DEF Flowed
    <3>2. d.lba = c.lba /\ (d.stopnext = c.stopnext) /\ d.fcnt = c.fcnt /\ d.state = "S_TXCRC"
      BY <3>1, <1>15 DEF Same, Regs
    <3>3. Kept(h, g, {"i"}) /\ g.i = 1 BY <2>1, <2>2, <1>1 DEF Turn
    <3>4. g.op = h.op /\ g.arg = h.arg /\ g.ph = "crc" BY <3>3, <2>1 DEF Kept, HostRegs
    <3>5. Reading(d, g) BY <3>1, <3>2, <3>3, <3>4, <1>5, <1>7, <1>9 DEF Reading
    <3> QED BY <3>2, <3>4, <3>5, <1>11 DEF Flow
  <2>3. CASE c.dcnt # 0 /\ c.multi
    <3>1. /\ d.state = "S_MBGAP" /\ d.lba = c.lba + 1
          /\ Same(c, d, {"out", "dcnt", "wcnt", "state"} \cup AskRegs)
      BY <2>3, <1>6, <1>15 DEF Flowed
    <3>2. (d.stopnext = c.stopnext) /\ d.fcnt = c.fcnt BY <3>1 DEF Same, Regs, AskRegs
    <3>3. Kept(h, g, {"ph", "i", "arg"}) /\ g.ph = "token" /\ g.i = 0 /\ g.arg = h.arg + 1
      BY <2>1, <2>3, <1>1, <1>9 DEF Turn
    <3>4. g.op = h.op BY <3>3 DEF Kept, HostRegs
    <3>5. Reading(d, g) BY <3>1, <3>2, <3>3, <3>4, <2>3, <1>5, <1>7, <1>9 DEF Reading
    <3> QED BY <3>1, <3>3, <3>5, <1>11 DEF Flow
  <2>4. CASE c.dcnt # 0 /\ ~c.multi
    <3>1. d.state = "S_IDLE" BY <2>4, <1>6, <1>15 DEF Flowed
    <3>2. g.ph = "idle" BY <2>1, <2>4, <1>1, <1>9 DEF Turn, Rests
    <3> QED BY <3>1, <3>2, <1>10
  <2> QED BY <2>2, <2>3, <2>4
<1> QED BY <1>12, <1>13, <1>14, <1>15 DEF Flow

\* Whatever the driver sends, the two go on together.
LEMMA Exchanged ==
  ASSUME NEW c, NEW h, NEW b, NEW g, CardShape(c), HostShape(h), Meets(c, h), Turn(c, h, b, g)
  PROVE  CardShape(ByteStep(c, b)) /\ HostShape(g) /\ Meets(ByteStep(c, b), g)
<1>1. HostShape(g) BY TurnShape DEF CardShape
<1>2. CASE c.attached
  <2>1. Turning(c, h, b, g) BY <1>2 DEF Turning
  <2>2. CASE c.state \in Flow
    <3>1. Stopping(c, h) \/ Reading(c, h) BY <2>2 DEF Meets, Sending
    <3>2. Stopping(c, h) => h.ph \in {"frame", "stuff"} BY DEF Stopping
    <3> QED BY <3>1, <3>2, <2>1, <2>2, <1>1, AtStop, AtStopping, AtReading
  <2>3. CASE c.state \notin Flow
    <3>1. c.state \in CardStates BY DEF CardShape
    <3> QED BY <3>1, <2>1, <2>3, <1>1, AtIdle, AtNcr, AtResp, AtRxWait, AtRx, AtRxCrc, AtRxResp, AtBusy
            DEF CardStates, Reply, Flow
  <2> QED BY <2>2, <2>3
<1>3. CASE ~c.attached
  <2> DEFINE d == Quiet(c)
  <2>1. ByteStep(c, b) = d BY <1>3, StepOut DEF CardShape
  <2>2. Same(c, d, {"out"}) /\ d.out = Idle BY QuietIs DEF CardShape
  <2> HIDE DEF d
  <2>3. c.state = "S_IDLE" /\ c.fcnt = 0 BY <1>3 DEF Meets, OutOfCard
  <2>4. d.state = "S_IDLE" /\ d.fcnt = 0 /\ ~d.attached BY <2>2, <2>3, <1>3 DEF Same, Regs
  <2>5. CardShape(d) BY <2>2, OutBytes DEF CardShape, Same, Regs
  <2>6. OutSays(d) BY <2>2, <2>4 DEF OutSays, Idle, Byte
  <2>7. OutOfCard(d) /\ Collecting(d, g) BY <2>2, <2>4 DEF OutOfCard, Collecting
  <2>8. Replying(d, g) BY <2>4 DEF Replying, Reply
  <2>9. Receiving(d, g) BY <2>4 DEF Receiving
  <2>10. Sending(d, g) BY <2>4 DEF Sending, Flow, Awaiting, Reply
  <2> QED BY <2>1, <2>5, <2>6, <2>7, <2>8, <2>9, <2>10, <1>1 DEF Meets
<1> QED BY <1>2, <1>3

-----------------------------------------------------------------------------
(* The ARM *)

ArmRegs == {"ph", "kind", "seq", "buf", "lba", "dat", "i", "err"}

ArmShape ==
    /\ DOMAIN arm = ArmRegs
    /\ arm.kind \in {"rd", "wr"} /\ arm.buf \in ReadBuffers /\ arm.lba \in Nat /\ arm.dat \in Block
    /\ disk \in [Sector -> Block]
    /\ arm.ph \in {"fetch", "fill", "ackrd"} => arm.kind = "rd"
    /\ arm.ph \in {"pull", "push", "ackwr"} => arm.kind = "wr"
    /\ arm.ph \in {"lba", "fetch"} => arm.i = 0
    /\ arm.ph \in {"fill", "pull"} => arm.i \in 0 .. BLK - 1
    /\ ~card.attached => arm.ph = "idle"

\* The card, the driver and the ARM are where they can be.
Protocol == CardShape(card) /\ HostShape(host) /\ Meets(card, host) /\ ArmShape

LEMMA Blocks ==
  /\ \A v \in {Byte("00"), Dat("p"), Dat("q")} : Whole(v) \in Block
  /\ \A l \in Nat : disk \in [Sector -> Block] => Content(l) \in Block
  /\ \A f \in Block, i \in 0 .. BLK - 1 : f[i] \in {Byte("00"), Dat("p"), Dat("q")}
<1>1. \A v \in {Byte("00"), Dat("p"), Dat("q")} : Whole(v) \in Block BY DEF Whole, Block
<1>2. \A f \in Block, i \in 0 .. BLK - 1 : f[i] \in {Byte("00"), Dat("p"), Dat("q")} BY DEF Block
<1> QED BY <1>1, <1>2 DEF Content

\* What each step of the ARM does to it.
LEMMA StatIs ==
  ASSUME ArmShape, dm_stat_rq
  PROVE  /\ UNCHANGED <<card, flag, disk, host>>
         /\ arm.ph = "idle" /\ (flag.rd \/ flag.wr)
         /\ DOMAIN arm' = ArmRegs /\ arm'.ph = "lba" /\ arm'.kind = (IF flag.rd THEN "rd" ELSE "wr")
         /\ arm'.seq = card.rq_seq /\ arm'.buf = other(card.rbuf) /\ arm'.i = 0
         /\ arm'.lba = arm.lba /\ arm'.dat = arm.dat
  BY DEF ArmShape, ArmRegs, dm_stat_rq

LEMMA LbaIs ==
  ASSUME ArmShape, read_lba
  PROVE  /\ UNCHANGED <<card, flag, disk, host>>
         /\ arm.ph = "lba" /\ DOMAIN arm' = ArmRegs
         /\ arm'.ph = (IF arm.kind = "rd" THEN "fetch" ELSE "pull") /\ arm'.lba = card.lba
         /\ arm'.kind = arm.kind /\ arm'.seq = arm.seq /\ arm'.buf = arm.buf /\ arm'.i = arm.i
         /\ arm'.dat = arm.dat
  BY DEF ArmShape, ArmRegs, read_lba

LEMMA FetchIs ==
  ASSUME ArmShape, backend_read
  PROVE  /\ UNCHANGED <<card, flag, disk, host>>
         /\ arm.ph = "fetch" /\ DOMAIN arm' = ArmRegs /\ arm'.ph = "fill"
         /\ arm'.kind = arm.kind /\ arm'.seq = arm.seq /\ arm'.buf = arm.buf /\ arm'.i = arm.i
         /\ arm'.lba = arm.lba
         /\ \/ ~arm'.err /\ arm'.dat = Content(arm.lba)
            \/ arm'.err /\ arm'.dat = Whole(Byte("00"))
<1>1. \/ arm' = [arm EXCEPT !.dat = Content(arm.lba), !.err = FALSE, !.ph = "fill"]
      \/ arm' = [arm EXCEPT !.dat = Whole(Byte("00")), !.err = TRUE, !.ph = "fill"]
  BY DEF backend_read
<1> QED BY <1>1 DEF ArmShape, ArmRegs, backend_read

LEMMA FillIs ==
  ASSUME ArmShape, CardShape(card), dm_wrbuf
  PROVE  /\ UNCHANGED <<flag, disk, host>>
         /\ arm.ph = "fill" /\ DOMAIN arm' = ArmRegs
         /\ arm'.ph = (IF arm.i = BLK - 1 THEN "ackrd" ELSE "fill") /\ arm'.i = arm.i + 1
         /\ arm'.kind = arm.kind /\ arm'.seq = arm.seq /\ arm'.buf = arm.buf
         /\ arm'.lba = arm.lba /\ arm'.dat = arm.dat /\ arm'.err = arm.err
         /\ Same(card, card', {"mem"})
         /\ card'.mem = [card.mem EXCEPT ![arm.buf][arm.i] = arm.dat[arm.i]]
<1>1. arm' = [arm EXCEPT !.i = arm.i + 1, !.ph = IF arm.i = BLK - 1 THEN "ackrd" ELSE arm.ph]
  BY DEF dm_wrbuf
<1>2. /\ arm.ph = "fill" /\ DOMAIN arm' = ArmRegs
      /\ arm'.ph = (IF arm.i = BLK - 1 THEN "ackrd" ELSE "fill") /\ arm'.i = arm.i + 1
      /\ arm'.kind = arm.kind /\ arm'.seq = arm.seq /\ arm'.buf = arm.buf
      /\ arm'.lba = arm.lba /\ arm'.dat = arm.dat /\ arm'.err = arm.err
  BY <1>1 DEF ArmShape, ArmRegs, dm_wrbuf
<1>3. /\ Same(card, card', {"mem"})
      /\ card'.mem = [card.mem EXCEPT ![arm.buf][arm.i] = arm.dat[arm.i]]
  BY DEF dm_wrbuf, CardShape, Same, Regs
<1> QED BY <1>2, <1>3 DEF dm_wrbuf

LEMMA AckReadStep ==
  ASSUME ArmShape, CardShape(card), ack_read
  PROVE  /\ UNCHANGED <<flag, disk, host>>
         /\ arm.ph = "ackrd" /\ DOMAIN arm' = ArmRegs /\ arm'.ph = "wait"
         /\ arm'.kind = arm.kind /\ arm'.buf = arm.buf /\ arm'.lba = arm.lba /\ arm'.dat = arm.dat
         /\ \/ ~(card.rq_rd /\ arm.seq = card.rq_seq) /\ card' = card
            \/ /\ card.rq_rd /\ arm.seq = card.rq_seq
               /\ Same(card, card', {"rq_rd", "rd_rdy", "rd_err", "rbuf", "dbase"})
               /\ ~card'.rq_rd /\ card'.rd_rdy /\ (card'.rd_err <=> arm.err)
               /\ card'.rbuf = arm.buf /\ card'.dbase = arm.buf
<1>1. /\ arm.ph = "ackrd" /\ DOMAIN arm' = ArmRegs /\ arm'.ph = "wait"
      /\ arm'.kind = arm.kind /\ arm'.buf = arm.buf /\ arm'.lba = arm.lba /\ arm'.dat = arm.dat
  BY DEF ArmShape, ArmRegs, ack_read
<1>2. card' = AckRead(card, arm.seq, arm.err, arm.buf) /\ UNCHANGED <<flag, disk, host>>
  BY DEF ack_read
<1>3. CASE card.rq_rd /\ arm.seq = card.rq_seq
  <2>1. card' = [card EXCEPT !.rq_rd = FALSE, !.rd_rdy = TRUE, !.rd_err = arm.err,
                             !.rbuf = arm.buf, !.dbase = arm.buf]
    BY <1>2, <1>3 DEF AckRead
  <2>2. Same(card, card', {"rq_rd", "rd_rdy", "rd_err", "rbuf", "dbase"})
    BY <2>1 DEF CardShape, Same, Regs
  <2>3. /\ ~card'.rq_rd /\ card'.rd_rdy /\ (card'.rd_err <=> arm.err)
        /\ card'.rbuf = arm.buf /\ card'.dbase = arm.buf
    BY <2>1 DEF CardShape, Regs
  <2> QED BY <1>1, <1>2, <1>3, <2>2, <2>3
<1>4. CASE ~(card.rq_rd /\ arm.seq = card.rq_seq)
  BY <1>1, <1>2, <1>4 DEF AckRead
<1> QED BY <1>3, <1>4

LEMMA PullIs ==
  ASSUME ArmShape, pull
  PROVE  /\ UNCHANGED <<card, flag, disk, host>>
         /\ arm.ph = "pull" /\ DOMAIN arm' = ArmRegs
         /\ arm'.ph = (IF arm.i = BLK - 1 THEN "push" ELSE "pull") /\ arm'.i = arm.i + 1
         /\ arm'.kind = arm.kind /\ arm'.seq = arm.seq /\ arm'.buf = arm.buf /\ arm'.lba = arm.lba
         /\ arm'.dat = [arm.dat EXCEPT ![arm.i] = card.mem.WR[arm.i]]
<1>1. arm' = [arm EXCEPT !.dat = [arm.dat EXCEPT ![arm.i] = card.mem.WR[arm.i]], !.i = arm.i + 1,
                         !.ph = IF arm.i = BLK - 1 THEN "push" ELSE arm.ph]
  BY DEF pull
<1> QED BY <1>1 DEF ArmShape, ArmRegs, pull

LEMMA PushIs ==
  ASSUME ArmShape, backend_write
  PROVE  /\ UNCHANGED <<card, flag, host>>
         /\ arm.ph = "push" /\ DOMAIN arm' = ArmRegs /\ arm'.ph = "ackwr"
         /\ arm'.kind = arm.kind /\ arm'.seq = arm.seq /\ arm'.buf = arm.buf /\ arm'.lba = arm.lba
         /\ arm'.dat = arm.dat
         /\ \/ arm.lba \in Sector /\ disk' = [disk EXCEPT ![arm.lba] = arm.dat] /\ ~arm'.err
            \/ disk' = disk /\ arm'.err
<1>1. \/ /\ arm' = [arm EXCEPT !.err = FALSE, !.ph = "ackwr"]
         /\ arm.lba \in Sector /\ disk' = [disk EXCEPT ![arm.lba] = arm.dat]
      \/ arm' = [arm EXCEPT !.err = TRUE, !.ph = "ackwr"] /\ disk' = disk
  BY DEF backend_write
<1> QED BY <1>1 DEF ArmShape, ArmRegs, backend_write

LEMMA AckWriteStep ==
  ASSUME ArmShape, CardShape(card), ack_write
  PROVE  /\ UNCHANGED <<flag, disk, host>>
         /\ arm.ph = "ackwr" /\ DOMAIN arm' = ArmRegs /\ arm'.ph = "wait"
         /\ arm'.kind = arm.kind /\ arm'.buf = arm.buf /\ arm'.lba = arm.lba /\ arm'.dat = arm.dat
         /\ \/ ~(card.rq_wr /\ arm.seq = card.rq_seq) /\ card' = card
            \/ /\ card.rq_wr /\ arm.seq = card.rq_seq
               /\ Same(card, card', {"rq_wr", "wr_rdy", "wr_err"})
               /\ ~card'.rq_wr /\ card'.wr_rdy /\ (card'.wr_err <=> arm.err)
<1>1. /\ arm.ph = "ackwr" /\ DOMAIN arm' = ArmRegs /\ arm'.ph = "wait"
      /\ arm'.kind = arm.kind /\ arm'.buf = arm.buf /\ arm'.lba = arm.lba /\ arm'.dat = arm.dat
  BY DEF ArmShape, ArmRegs, ack_write
<1>2. card' = AckWrite(card, arm.seq, arm.err) /\ UNCHANGED <<flag, disk, host>>
  BY DEF ack_write
<1>3. CASE card.rq_wr /\ arm.seq = card.rq_seq
  <2>1. card' = [card EXCEPT !.rq_wr = FALSE, !.wr_rdy = TRUE, !.wr_err = arm.err]
    BY <1>2, <1>3 DEF AckWrite
  <2>2. Same(card, card', {"rq_wr", "wr_rdy", "wr_err"}) BY <2>1 DEF CardShape, Same, Regs
  <2>3. ~card'.rq_wr /\ card'.wr_rdy /\ (card'.wr_err <=> arm.err) BY <2>1 DEF CardShape, Regs
  <2> QED BY <1>1, <1>2, <1>3, <2>2, <2>3
<1>4. CASE ~(card.rq_wr /\ arm.seq = card.rq_seq)
  BY <1>1, <1>2, <1>4 DEF AckWrite
<1> QED BY <1>3, <1>4

LEMMA DropIs ==
  ASSUME wait_drop \/ ceiling
  PROVE  /\ UNCHANGED <<card, flag, disk, host>> /\ arm.ph = "wait"
         /\ DOMAIN arm' = ArmRegs /\ arm'.ph = "idle" /\ arm'.kind = "rd" /\ arm'.buf = "RDA"
         /\ arm'.lba = 0 /\ arm'.dat = Whole(Byte("00"))
         /\ wait_drop => ~RequestUp(flag, arm.kind)
         /\ ceiling => RequestUp([rd |-> card.rq_rd, wr |-> card.rq_wr], arm.kind)
  BY DEF wait_drop, ceiling, ArmIdle, ArmRegs

\* The card as the ARM leaves it, for those registers that the protocol reads.
LEMMA ArmTouches ==
  ASSUME NEW c, NEW d, NEW h, CardShape(c), Meets(c, h),
         Same(c, d, {"mem", "rq_rd", "rd_rdy", "rd_err", "rbuf", "dbase", "rq_wr", "wr_rdy", "wr_err"}),
         d.mem \in Memory, d.mem.WR = c.mem.WR, d.rbuf \in ReadBuffers,
         \/ d.dbase = c.dbase /\ d.rd_rdy = c.rd_rdy
         \/ d.dbase \in ReadBuffers
  PROVE  CardShape(d) /\ Meets(d, h)
<1>1. /\ d.state = c.state /\ d.fcnt = c.fcnt /\ d.dcnt = c.dcnt /\ d.lba = c.lba
      /\ d.rq_seq = c.rq_seq /\ d.out = c.out
  BY DEF Same, Regs
<1>2. /\ d.attached = c.attached /\ d.multi = c.multi /\ d.stopnext = c.stopnext
      /\ d.after = c.after /\ d.resp = c.resp /\ d.dlen = c.dlen
  BY DEF Same, Regs
<1>3. CardShape(d) BY <1>1 DEF CardShape, Same, Buffers
<1>4. Size(d.dbase) \in Nat /\ Size(c.dbase) \in Nat /\ Size(c.dbase) <= Size(d.dbase)
  BY Sizes DEF Size, ReadBuffers
<1>5. OutSays(d) /\ OutOfCard(d) BY <1>1, <1>2 DEF Meets, OutSays, OutOfCard
<1>6. Collecting(d, h) BY <1>1 DEF Meets, Collecting
<1>7. Replying(d, h)
  <2>1. CSDLEN <= Size(c.dbase) => CSDLEN <= Size(d.dbase) BY <1>4, Sizes
  <2> QED BY <2>1, <1>1, <1>2 DEF Meets, Replying, Writing
<1>8. Receiving(d, h) BY <1>1, <1>2 DEF Meets, Receiving, Writing
<1>9. Sending(d, h)
  <2>1. Sending(c, h) BY DEF Meets
  <2>2. d.state \in Flow => Stopping(d, h) \/ Reading(d, h)
    BY <2>1, <1>1, <1>2 DEF Sending, Stopping, Reading
  <2>3. Awaiting(d) /\ d.rd_rdy => d.dbase \in ReadBuffers
    BY <2>1, <1>1, <1>2 DEF Sending, Awaiting
  <2>4. d.state \in {"S_TOKEN", "S_TX"} => d.dlen \in 1 .. Size(d.dbase)
    BY <2>1, <1>1, <1>2, <1>4 DEF Sending
  <2> QED BY <2>1, <2>2, <2>3, <2>4, <1>1, <1>2 DEF Sending
<1> QED BY <1>3, <1>5, <1>6, <1>7, <1>8, <1>9 DEF Meets

\* What a byte leaves alone: the buffers and the write request, but for a
\* block's byte that comes in.
Spared == {"attached", "wp", "rbuf", "mem", "rq_wr", "wr_rdy", "wr_err"}

LEMMA FlowSpares ==
  ASSUME NEW c, NEW d, Flowed(c, d)
  PROVE  \A r \in Spared : d[r] = c[r]
  BY DEF Flowed, Same, Regs, AskRegs, Spared

LEMMA Spares ==
  ASSUME NEW c, NEW h, NEW b, NEW g, Turning(c, h, b, g), c.state # "S_RX"
  PROVE  \A r \in Spared : ByteStep(c, b)[r] = c[r]
<1> DEFINE d == ByteStep(c, b)  q == Quiet(c)
<1>1. DOMAIN c = Regs /\ c.attached /\ c.state \in CardStates /\ c.fcnt \in 0 .. FRAME - 1
  BY DEF Turning, CardShape
<1>2. Same(c, q, {"out"}) BY <1>1, QuietIs
<1> HIDE DEF q
<1> SUFFICES \A r \in Spared : d[r] = c[r] OBVIOUS
<1>3. CASE c.state \in {"S_IDLE", "S_ARG"}
  <2>1. \/ d = q
        \/ Same(c, d, {"out", "fcnt", "state"})
        \/ Same(c, d, {"out", "fcnt"})
        \/ Executed(q, d, OpOf(b), ArgOf(b))
    BY <1>1, <1>2, <1>3, StepCollect, ExecuteIs DEF Same, q
  <2> HIDE DEF d
  <2>2. CASE d = q \/ Same(c, d, {"out", "fcnt", "state"}) \/ Same(c, d, {"out", "fcnt"})
    BY <2>2, <1>2 DEF Same, Regs, Spared
  <2>3. CASE Executed(q, d, OpOf(b), ArgOf(b))
    <3>1. \/ Same(q, d, CmdRegs) \/ Same(q, d, CmdRegs \cup AskRegs) \/ Same(q, d, CmdRegs \cup {"lba"})
      BY <2>3 DEF Executed
    <3>2. \A r \in Spared : d[r] = q[r] BY <3>1 DEF Same, Regs, Spared, CmdRegs, AskRegs
    <3>3. \A r \in Spared : q[r] = c[r] BY <1>2 DEF Same, Regs, Spared
    <3> QED BY <3>2, <3>3
  <2> QED BY <2>1, <2>2, <2>3
<1>4. CASE c.state = "S_NCR"
  <2>1. Same(c, d, {"state", "out", "wcnt"}) BY <1>1, <1>4, StepNcr
  <2> HIDE DEF d
  <2> QED BY <2>1 DEF Same, Regs, Spared
<1>5. CASE c.state = "S_RESP"
  <2>1. Same(c, d, {"state", "out", "wcnt", "dcnt", "dlen", "fcnt"}) BY <1>1, <1>5, StepResp
  <2> HIDE DEF d
  <2> QED BY <2>1 DEF Same, Regs, Spared
<1>6. CASE c.state = "S_RXWAIT"
  <2>1. \/ Same(c, d, {"out", "dcnt", "state"})
        \/ Same(c, d, {"out", "multi", "wcnt", "state"})
        \/ d = q
    BY <1>1, <1>6, StepRxWait DEF q
  <2> HIDE DEF d
  <2> QED BY <2>1, <1>2 DEF Same, Regs, Spared
<1>7. CASE c.state \in {"S_RXCRC", "S_RXACK"}
  <2>1. Same(c, d, {"state", "out", "dcnt"}) BY <1>1, <1>7, StepRxCrc
  <2> HIDE DEF d
  <2> QED BY <2>1 DEF Same, Regs, Spared
<1>8. CASE c.state = "S_RXRESP"
  <2>1. Same(c, d, {"state", "out", "wcnt"}) BY <1>1, <1>8, StepRxResp
  <2> HIDE DEF d
  <2> QED BY <2>1 DEF Same, Regs, Spared
<1>9. CASE c.state = "S_BUSY"
  <2>1. Same(c, d, {"state", "out", "wcnt", "lba", "fcnt"}) BY <1>1, <1>9, StepBusy
  <2> HIDE DEF d
  <2> QED BY <2>1 DEF Same, Regs, Spared
<1>10. CASE c.state \in Flow
  <2>1. \/ Stopping(c, h) /\ h.ph = "stuff"
        \/ Stopping(c, h) /\ h.ph = "frame"
        \/ Reading(c, h)
    BY <1>10 DEF Turning, Meets, Sending, Stopping
  <2>2. CASE Stopping(c, h) /\ h.ph = "stuff"
    <3>1. ~starts(b) BY <2>2 DEF Turning, Turn, starts, Idle, Byte
    <3>2. Same(c, d, {"out", "multi", "stopnext", "fcnt", "resp", "after", "wcnt", "state"})
      BY <3>1, <2>2, <1>1, <1>10, StepStop DEF Stopping
    <3> HIDE DEF d
    <3> QED BY <3>2 DEF Same, Regs, Spared
  <2>3. CASE Stopping(c, h) /\ h.ph = "frame"
    <3>1. PICK n : Flowed(c, n) /\ Heard(c, b, n, d) BY <2>3, <1>10, AtStopping
    <3>2. \A r \in Spared : n[r] = c[r] BY <3>1, FlowSpares
    <3> HIDE DEF d
    <3>3. \A r \in Spared : d[r] = n[r] BY <3>1 DEF Heard, Same, Regs, Spared
    <3> QED BY <3>2, <3>3
  <2>4. CASE Reading(c, h)
    <3>1. Flowed(c, d) BY <2>4, <1>10, AtReading
    <3> QED BY <3>1, FlowSpares
  <2> QED BY <2>1, <2>2, <2>3, <2>4
<1> QED BY <1>1, <1>3, <1>4, <1>5, <1>6, <1>7, <1>8, <1>9, <1>10 DEF CardStates, Reply

\* A driver that is doing nothing, or about to send the next block.
LEMMA Resting ==
  ASSUME NEW c, NEW h, CardShape(c), Meets(c, h), h.ph \notin {"stuff", "r1", "frame", "put", "resp", "busy"}
  PROVE  \/ c.state \in {"S_IDLE", "S_ARG"} /\ c.fcnt = 0
         \/ c.state = "S_BUSY" /\ ~c.multi
         \/ c.state = "S_RXWAIT" /\ h.ph = "more" /\ h.op = "CMD25" /\ c.multi /\ c.lba = h.arg + 1
         \/ c.state \in Flow /\ Reading(c, h) /\ h.ph \in {"token", "data", "crc"}
<1>1. Collecting(c, h) /\ Replying(c, h) /\ Receiving(c, h) /\ Sending(c, h) BY DEF Meets
<1>2. c.state \in CardStates BY DEF CardShape
<1>3. CASE c.state \in {"S_IDLE", "S_ARG"} BY <1>1, <1>3 DEF Collecting
<1>4. CASE c.state \in Reply BY <1>1, <1>4 DEF Replying
<1>5. CASE c.state \in {"S_RXWAIT", "S_RX", "S_RXCRC", "S_RXACK", "S_RXRESP", "S_BUSY"}
  BY <1>1, <1>5 DEF Receiving
<1>6. CASE c.state \in Flow
  <2>1. Reading(c, h) BY <1>1, <1>6 DEF Sending, Stopping
  <2> QED BY <2>1, <1>6 DEF Reading, Flow
<1> QED BY <1>2, <1>3, <1>4, <1>5, <1>6 DEF CardStates

\* ... and begins a command: the card waits for none, or streams.
LEMMA Begins ==
  ASSUME NEW c, NEW h, NEW g, CardShape(c), Meets(c, h), g.ph = "frame", g.i = 0,
         \/ h.ph = "idle"
         \/ h.op = "CMD18" /\ h.ph \in {"token", "data", "crc"} /\ g.op = "CMD12"
  PROVE  Meets(c, g)
<1>1. OutSays(c) /\ OutOfCard(c) /\ Sending(c, h) BY DEF Meets
<1>2. \/ c.state \in {"S_IDLE", "S_ARG"} /\ c.fcnt = 0
      \/ c.state = "S_BUSY" /\ ~c.multi
      \/ c.state \in Flow /\ Reading(c, h) /\ h.ph \in {"token", "data", "crc"}
  BY Resting
<1>3. Collecting(c, g) BY <1>2 DEF Collecting, Flow
<1>4. Replying(c, g) BY <1>2 DEF Replying, Reply, Flow
<1>5. Receiving(c, g) BY <1>2 DEF Receiving, Flow
<1>6. c.state \in Flow => Stopping(c, g) BY <1>2 DEF Flow, Reading, Stopping
<1>7. Sending(c, g) BY <1>1, <1>6 DEF Sending
<1> QED BY <1>1, <1>3, <1>4, <1>5, <1>7 DEF Meets

\* The ARM's steps, for the protocol.
LEMMA ProtocolArm == Protocol /\ Pump => Protocol'
<1> SUFFICES ASSUME Protocol, Pump PROVE Protocol'
  OBVIOUS
<1>1. CardShape(card) /\ HostShape(host) /\ Meets(card, host) /\ ArmShape BY DEF Protocol
<1>2. card.attached BY DEF Pump
<1>3. card.lba \in Nat /\ other(card.rbuf) \in ReadBuffers /\ 0 \in 0 .. BLK - 1
  BY <1>1, Sizes DEF CardShape, ReadBuffers, other
<1>4. CASE dm_stat_rq
  <2>1. ArmShape' BY <1>1, <1>2, <1>3, <1>4, StatIs DEF ArmShape
  <2> QED BY <2>1, <1>1, <1>4, StatIs DEF Protocol
<1>5. CASE read_lba
  <2>1. ArmShape' BY <1>1, <1>2, <1>3, <1>5, LbaIs DEF ArmShape
  <2> QED BY <2>1, <1>1, <1>5, LbaIs DEF Protocol
<1>6. CASE backend_read
  <2>1. arm'.dat \in Block BY <1>1, <1>6, FetchIs, Blocks DEF ArmShape
  <2>2. ArmShape' BY <2>1, <1>1, <1>2, <1>3, <1>6, FetchIs DEF ArmShape
  <2> QED BY <2>2, <1>1, <1>6, FetchIs DEF Protocol
<1>7. CASE dm_wrbuf
  <2> DEFINE x == arm.dat[arm.i]
  <2>1. arm.i \in 0 .. BLK - 1 /\ arm.buf \in ReadBuffers BY <1>1, <1>7, FillIs DEF ArmShape
  <2>2. x \in {Byte("00"), Dat("p"), Dat("q")} BY <2>1, <1>1, Blocks DEF ArmShape
  <2>3. PICK d : d = card' OBVIOUS
  <2>4. Same(card, d, {"mem"}) /\ d.mem = [card.mem EXCEPT ![arm.buf][arm.i] = x]
    BY <2>3, <1>1, <1>7, FillIs
  <2>5. card.mem \in Memory BY <1>1 DEF CardShape
  <2> HIDE DEF x
  <2>6. d.mem \in Memory /\ d.mem.WR = card.mem.WR
    <3> DEFINE f == [card.mem[arm.buf] EXCEPT ![arm.i] = x]
    <3>1. card.mem[arm.buf] \in Block BY <2>1, <2>5 DEF Memory, ReadBuffers
    <3>2. f \in Block BY <3>1, <2>1, <2>2 DEF Block
    <3>3. d.mem = [card.mem EXCEPT ![arm.buf] = f] BY <2>4
    <3> HIDE DEF f
    <3>4. CASE arm.buf = "RDA" BY <3>2, <3>3, <3>4, <2>5 DEF Memory
    <3>5. CASE arm.buf = "RDB" BY <3>2, <3>3, <3>5, <2>5 DEF Memory
    <3> QED BY <3>4, <3>5, <2>1 DEF ReadBuffers
  <2>7. d.rbuf = card.rbuf /\ d.dbase = card.dbase /\ d.rd_rdy = card.rd_rdy /\ d.attached
    BY <2>4, <1>2 DEF Same, Regs
  <2>8. Same(card, d, {"mem", "rq_rd", "rd_rdy", "rd_err", "rbuf", "dbase", "rq_wr", "wr_rdy", "wr_err"})
    BY <2>4 DEF Same
  <2>9. CardShape(d) /\ Meets(d, host)
    <3>1. d.rbuf \in ReadBuffers BY <2>7, <1>1 DEF CardShape
    <3> QED BY <3>1, <2>6, <2>7, <2>8, <1>1, ArmTouches
  <2>10. ArmShape'
    <3>1. arm.i # BLK - 1 => arm.i + 1 \in 0 .. BLK - 1 BY <2>1, Sizes
    <3> QED BY <3>1, <2>3, <2>7, <1>1, <1>7, FillIs DEF ArmShape
  <2> QED BY <2>3, <2>9, <2>10, <1>1, <1>7, FillIs DEF Protocol
<1>8. CASE ack_read
  <2>1. PICK d : d = card' OBVIOUS
  <2>2. \/ d = card
        \/ /\ Same(card, d, {"rq_rd", "rd_rdy", "rd_err", "rbuf", "dbase"})
           /\ d.rbuf = arm.buf /\ d.dbase = arm.buf
    BY <2>1, <1>1, <1>8, AckReadStep
  <2>3. CASE d = card
    <3>1. ArmShape' BY <2>1, <2>3, <1>1, <1>2, <1>8, AckReadStep DEF ArmShape
    <3> QED BY <3>1, <2>1, <2>3, <1>1, <1>8, AckReadStep DEF Protocol
  <2>4. CASE /\ Same(card, d, {"rq_rd", "rd_rdy", "rd_err", "rbuf", "dbase"})
             /\ d.rbuf = arm.buf /\ d.dbase = arm.buf
    <3>1. /\ Same(card, d, {"mem", "rq_rd", "rd_rdy", "rd_err", "rbuf", "dbase", "rq_wr", "wr_rdy", "wr_err"})
      BY <2>4 DEF Same
    <3>2. d.mem = card.mem /\ d.attached BY <2>4, <1>2 DEF Same, Regs
    <3>3. arm.buf \in ReadBuffers /\ card.mem \in Memory BY <1>1 DEF ArmShape, CardShape
    <3>4. CardShape(d) /\ Meets(d, host) BY <3>1, <3>2, <3>3, <2>4, <1>1, ArmTouches
    <3>5. ArmShape' BY <3>2, <2>1, <1>1, <1>8, AckReadStep DEF ArmShape
    <3> QED BY <3>4, <3>5, <2>1, <1>1, <1>8, AckReadStep DEF Protocol
  <2> QED BY <2>2, <2>3, <2>4
<1>9. CASE pull
  <2>1. arm'.dat \in Block
    <3>1. card.mem.WR \in Block /\ arm.i \in 0 .. BLK - 1 BY <1>1, <1>9, PullIs DEF CardShape, Memory, ArmShape
    <3>2. card.mem.WR[arm.i] \in {Byte("00"), Dat("p"), Dat("q")} BY <3>1, Blocks
    <3>3. arm.dat \in Block BY <1>1 DEF ArmShape
    <3>4. [arm.dat EXCEPT ![arm.i] = card.mem.WR[arm.i]] \in Block BY <3>1, <3>2, <3>3 DEF Block
    <3> QED BY <3>4, <1>1, <1>9, PullIs
  <2>2. arm.i # BLK - 1 => arm.i + 1 \in 0 .. BLK - 1 BY <1>1, <1>9, PullIs, Sizes DEF ArmShape
  <2>3. ArmShape' BY <2>1, <2>2, <1>1, <1>2, <1>9, PullIs DEF ArmShape
  <2> QED BY <2>3, <1>1, <1>9, PullIs DEF Protocol
<1>10. CASE backend_write
  <2>1. disk' \in [Sector -> Block] BY <1>1, <1>10, PushIs DEF ArmShape
  <2>2. ArmShape' BY <2>1, <1>1, <1>2, <1>10, PushIs DEF ArmShape
  <2> QED BY <2>2, <1>1, <1>10, PushIs DEF Protocol
<1>11. CASE ack_write
  <2>1. PICK d : d = card' OBVIOUS
  <2>2. \/ d = card
        \/ Same(card, d, {"rq_wr", "wr_rdy", "wr_err"})
    BY <2>1, <1>1, <1>11, AckWriteStep
  <2>3. Same(card, d, {"rq_wr", "wr_rdy", "wr_err"}) BY <2>2, <1>1 DEF Same, CardShape
  <2>4. /\ Same(card, d, {"mem", "rq_rd", "rd_rdy", "rd_err", "rbuf", "dbase", "rq_wr", "wr_rdy", "wr_err"})
    BY <2>3 DEF Same
  <2>5. d.mem = card.mem /\ d.attached /\ d.rbuf = card.rbuf /\ d.dbase = card.dbase /\ d.rd_rdy = card.rd_rdy
    BY <2>3, <1>2 DEF Same, Regs
  <2>6. card.rbuf \in ReadBuffers /\ card.mem \in Memory BY <1>1 DEF CardShape
  <2>7. CardShape(d) /\ Meets(d, host) BY <2>4, <2>5, <2>6, <1>1, ArmTouches
  <2>8. ArmShape' BY <2>5, <2>1, <1>1, <1>11, AckWriteStep DEF ArmShape
  <2> QED BY <2>7, <2>8, <2>1, <1>1, <1>11, AckWriteStep DEF Protocol
<1>12. CASE wait_drop \/ ceiling
  <2>1. arm'.dat \in Block /\ 0 \in Nat /\ "RDA" \in ReadBuffers
    BY <1>12, DropIs, Blocks DEF ReadBuffers
  <2>2. ArmShape' BY <2>1, <1>1, <1>12, DropIs DEF ArmShape
  <2> QED BY <2>2, <1>1, <1>12, DropIs DEF Protocol
<1> QED BY <1>4, <1>5, <1>6, <1>7, <1>8, <1>9, <1>10, <1>11, <1>12 DEF Pump, Arm

\* Only a block's bytes touch the buffers and the write request.
LEMMA Untouched ==
  ASSUME NEW c, NEW h, NEW b, NEW g, CardShape(c), HostShape(h), Meets(c, h), Turn(c, h, b, g)
  PROVE  LET d == ByteStep(c, b) IN
         /\ \A r \in {"attached", "wp", "rbuf"} : d[r] = c[r]
         /\ ~(c.attached /\ c.state = "S_RX") => \A r \in Spared : d[r] = c[r]
<1> DEFINE d == ByteStep(c, b)
<1>1. DOMAIN c = Regs BY DEF CardShape
<1>2. CASE ~c.attached
  <2>1. Same(c, d, {"out"}) BY <1>1, <1>2, StepOut, QuietIs
  <2> HIDE DEF d
  <2>2. \A r \in Spared : d[r] = c[r] BY <2>1 DEF Same, Regs, Spared
  <2>3. {"attached", "wp", "rbuf"} \subseteq Spared BY DEF Spared
  <2> QED BY <2>2, <2>3 DEF d
<1>3. CASE c.attached /\ c.state # "S_RX"
  <2>1. Turning(c, h, b, g) BY <1>3 DEF Turning
  <2>2. \A r \in Spared : d[r] = c[r] BY <1>3, <2>1, Spares
  <2>3. {"attached", "wp", "rbuf"} \subseteq Spared BY DEF Spared
  <2> QED BY <2>2, <2>3
<1>4. CASE c.attached /\ c.state = "S_RX"
  <2>1. c.dcnt \in 0 .. BLK - 1 BY <1>4, Sizes DEF Meets, Receiving, CardShape
  <2>2. Same(c, d, {"state", "out", "dcnt", "mem", "rq_wr", "rq_seq", "wr_rdy", "wr_err"})
    BY <1>1, <1>4, <2>1, StepRx
  <2> HIDE DEF d
  <2>3. \A r \in {"attached", "wp", "rbuf"} : d[r] = c[r] BY <2>2 DEF Same, Regs
  <2> QED BY <2>3, <1>4 DEF d
<1> QED BY <1>2, <1>3, <1>4

\* A card at rest, in or out, meets a driver that is not in the middle of a block.
LEMMA MetAtRest ==
  ASSUME NEW c, NEW h, c.state = "S_IDLE", c.out = Idle, c.fcnt = 0,
         c.attached => h.ph \notin {"data", "crc"}
  PROVE  Meets(c, h)
<1>1. OutSays(c) BY DEF OutSays, Idle, Byte
<1>2. OutOfCard(c) /\ Collecting(c, h) BY DEF OutOfCard, Collecting
<1>3. Replying(c, h) BY DEF Replying, Reply
<1>4. Receiving(c, h) BY DEF Receiving
<1>5. Sending(c, h) BY DEF Sending, Flow, Awaiting, Reply
<1> QED BY <1>1, <1>2, <1>3, <1>4, <1>5 DEF Meets

LEMMA ProtocolInit == Init => Protocol
<1> SUFFICES ASSUME Init PROVE Protocol OBVIOUS
<1>1. PICK w \in BOOLEAN : card = [InitCard EXCEPT !.wp = w] BY DEF Init
<1>2. /\ DOMAIN card = Regs /\ card.state = "S_IDLE" /\ card.fcnt = 0 /\ card.dcnt = 0
      /\ card.lba = 0 /\ card.rq_seq = 0 /\ card.dbase = "RDA" /\ card.rbuf = "RDA"
      /\ card.out = Idle /\ card.attached
  BY <1>1 DEF InitCard, Regs
<1>3. card.mem \in Memory
  <2>1. Whole(Byte("00")) \in Block BY Blocks
  <2>2. card.mem = [RDA |-> Whole(Byte("00")), RDB |-> Whole(Byte("00")),
                    WR |-> Whole(Byte("00")), CSD |-> CSD]
    BY <1>1 DEF InitCard, Whole, Busy
  <2> QED BY <2>1, <2>2 DEF Memory
<1>4. CardShape(card)
  <2>1. 0 \in 0 .. FRAME - 1 BY Sizes
  <2>2. Idle \in OutByte BY OutBytes
  <2> QED BY <1>2, <1>3, <2>1, <2>2 DEF CardShape, CardStates, Buffers, ReadBuffers
<1>5. HostShape(host) /\ host.ph = "idle"
  <2>1. host = HostIdle("CMD0", 0) BY DEF Init
  <2>2. /\ DOMAIN host = HostRegs /\ host.ph = "idle" /\ host.arg = 0 /\ host.dat = Dat("p")
        /\ host.i = 0 /\ host.got = <<>>
    BY <2>1 DEF HostIdle, HostRegs
  <2>3. host.got \in Seq(OutByte) BY <2>2, EmptyGot
  <2> QED BY <2>2, <2>3 DEF HostShape
<1>6. Meets(card, host) BY <1>2, <1>5, MetAtRest
<1>7. ArmShape
  <2>1. arm = ArmIdle BY DEF Init
  <2>2. Whole(Byte("00")) \in Block /\ Whole(Dat("p")) \in Block /\ Whole(Dat("q")) \in Block BY Blocks
  <2>3. disk \in [Sector -> Block] BY <2>2 DEF Init
  <2> QED BY <2>1, <2>2, <2>3 DEF ArmShape, ArmIdle, ArmRegs, ReadBuffers
<1> QED BY <1>4, <1>5, <1>6, <1>7 DEF Protocol

LEMMA ProtocolExchange ==
  ASSUME Protocol, NEW b, card' = ByteStep(card, b), Turn(card, host, b, host'),
         UNCHANGED <<flag, arm, disk>>
  PROVE  Protocol'
<1>1. CardShape(card) /\ HostShape(host) /\ Meets(card, host) /\ ArmShape BY DEF Protocol
<1>2. PICK d, g : d = card' /\ g = host' OBVIOUS
<1>3. CardShape(d) /\ HostShape(g) /\ Meets(d, g) BY <1>1, <1>2, Exchanged
<1>4. d.attached = card.attached BY <1>1, <1>2, Untouched
<1>5. ArmShape' BY <1>1, <1>2, <1>4 DEF ArmShape
<1> QED BY <1>2, <1>3, <1>5 DEF Protocol

\* The driver's steps that send nothing.
LEMMA StartsIs ==
  ASSUME HostShape(host), StartInit \/ StartOp \/ StopStream
  PROVE  /\ UNCHANGED <<card, flag, arm, disk>> /\ HostShape(host)' /\ host'.ph = "frame" /\ host'.i = 0
         /\ \/ host.ph = "idle"
            \/ /\ host.op = "CMD18" /\ host.ph \in {"token", "data", "crc"}
               /\ host'.op = "CMD12" /\ Kept(host, host', {"ph", "i", "op"})
<1> DEFINE x == To("frame")
<1>1. Kept(host, x, {"ph", "i"}) /\ x.ph = "frame" /\ x.i = 0 BY ToIs DEF HostShape
<1>2. HostShape(x) /\ DOMAIN x = HostRegs
  <2>1. 0 \in 0 .. FRAME - 1 BY Sizes
  <2> HIDE DEF x
  <2> QED BY <1>1, <2>1 DEF Kept, HostRegs, HostShape
<1> HIDE DEF x
<1>3. CASE StartInit
  <2>1. host' = [x EXCEPT !.op = host.init] BY <1>3 DEF StartInit, x
  <2>2. HostShape(host)' /\ host'.ph = "frame" /\ host'.i = 0 BY <2>1, <1>1, <1>2 DEF HostShape, HostRegs
  <2> QED BY <2>2, <1>3 DEF StartInit
<1>4. CASE StartOp
  <2>1. PICK op \in HostOps, l \in 0 .. CAP - 1, v \in {"p", "q"} :
           host' = [x EXCEPT !.op = op, !.arg = l, !.dat = Dat(v), !.ops = x.ops + 1]
    BY <1>4 DEF StartOp, x
  <2>2. l \in Nat /\ Dat(v) \in {Dat("p"), Dat("q")} BY Sizes
  <2>3. HostShape(host)' /\ host'.ph = "frame" /\ host'.i = 0
    BY <2>1, <2>2, <1>1, <1>2 DEF HostShape, HostRegs
  <2> QED BY <2>3, <1>4 DEF StartOp
<1>5. CASE StopStream
  <2>1. host' = [x EXCEPT !.op = "CMD12"] BY <1>5 DEF StopStream, x
  <2>2. HostShape(host)' /\ host'.ph = "frame" /\ host'.i = 0 /\ host'.op = "CMD12"
    BY <2>1, <1>1, <1>2 DEF HostShape, HostRegs
  <2>3. Kept(host, host', {"ph", "i", "op"}) BY <2>1, <1>1 DEF Kept, HostRegs
  <2> QED BY <2>2, <2>3, <1>5 DEF StopStream
<1> QED BY <1>3, <1>4, <1>5

LEMMA NextBlockIs ==
  ASSUME HostShape(host), MoreOrStop
  PROVE  \/ host.ph = "more" /\ Exchange(Byte("FD"), [To("busy") EXCEPT !.op = "STOP"])
         \/ /\ UNCHANGED <<card, flag, arm, disk>> /\ HostShape(host)' /\ host.ph = "more"
            /\ host'.ph = "put" /\ host'.i = 0 /\ host'.op = host.op /\ host'.arg = host.arg + 1
<1> DEFINE x == To("put")
<1>1. Kept(host, x, {"ph", "i"}) /\ x.ph = "put" /\ x.i = 0 BY ToIs DEF HostShape
<1> HIDE DEF x
<1>2. HostShape(x) /\ DOMAIN x = HostRegs /\ x.op = host.op /\ x.arg = host.arg
  BY <1>1 DEF Kept, HostRegs, HostShape
<1>3. host.ph = "more" BY DEF MoreOrStop
<1>4. ASSUME UNCHANGED <<card, flag, arm, disk>>,
             NEW v \in {"p", "q"}, host' = [To("put") EXCEPT !.arg = @ + 1, !.dat = Dat(v)]
      PROVE  HostShape(host)' /\ host'.ph = "put" /\ host'.i = 0 /\ host'.op = host.op /\ host'.arg = host.arg + 1
  <2>1. host' = [x EXCEPT !.arg = host.arg + 1, !.dat = Dat(v)] BY <1>2, <1>4 DEF x
  <2>2. host.arg + 1 \in Nat /\ Dat(v) \in {Dat("p"), Dat("q")} BY DEF HostShape
  <2> QED BY <2>1, <2>2, <1>1, <1>2 DEF HostShape, HostRegs
<1> QED BY <1>3, <1>4 DEF MoreOrStop

LEMMA ProtocolHost == Protocol /\ Host => Protocol'
<1> SUFFICES ASSUME Protocol, Host PROVE Protocol'
  OBVIOUS
<1>1. CardShape(card) /\ HostShape(host) /\ Meets(card, host) /\ ArmShape BY DEF Protocol
<1>2. CASE StartInit \/ StartOp \/ StopStream
  <2>1. PICK g : g = host' OBVIOUS
  <2>2. UNCHANGED <<card, flag, arm, disk>> /\ HostShape(g) BY <2>1, <1>1, <1>2, StartsIs
  <2>3. Meets(card, g) BY <2>1, <1>1, <1>2, StartsIs, Begins
  <2>4. ArmShape' BY <2>2, <1>1 DEF ArmShape
  <2> QED BY <2>1, <2>2, <2>3, <2>4, <1>1 DEF Protocol
<1>3. CASE \/ HostByte
           \/ host.ph = "more" /\ Exchange(Byte("FD"), [To("busy") EXCEPT !.op = "STOP"])
  <2>1. Turned BY <1>1, <1>3, Turns
  <2> QED BY <2>1, ProtocolExchange DEF Turned
<1>4. CASE /\ UNCHANGED <<card, flag, arm, disk>> /\ HostShape(host)' /\ host.ph = "more"
           /\ host'.ph = "put" /\ host'.i = 0 /\ host'.op = host.op /\ host'.arg = host.arg + 1
  <2>1. PICK g : g = host' OBVIOUS
  <2>2. \/ card.state \in {"S_IDLE", "S_ARG"} /\ card.fcnt = 0
        \/ card.state = "S_BUSY" /\ ~card.multi
        \/ card.state = "S_RXWAIT" /\ host.op = "CMD25" /\ card.multi /\ card.lba = host.arg + 1
    BY <1>1, <1>4, Resting
  <2>3. Collecting(card, g) /\ Replying(card, g) BY <2>2 DEF Collecting, Replying, Reply
  <2>4. Receiving(card, g) BY <2>1, <2>2, <1>4 DEF Receiving, Writing, WriteOps
  <2>5. Sending(card, g) BY <2>1, <2>2, <1>4 DEF Sending, Awaiting, Reply, Flow
  <2>6. Meets(card, g) BY <2>3, <2>4, <2>5, <1>1 DEF Meets
  <2>7. ArmShape' BY <1>1, <1>4 DEF ArmShape
  <2> QED BY <2>1, <2>6, <2>7, <1>1, <1>4 DEF Protocol
<1> QED BY <1>1, <1>2, <1>3, <1>4, NextBlockIs DEF Host

\* The card is taken out, and put back.
LEMMA TakeOutIs ==
  ASSUME Protocol, TakeOut
  PROVE  /\ arm.ph = "idle" /\ card.attached /\ UNCHANGED <<flag, arm, host>>
         /\ \E v \in {"p", "q"} : disk' = [l \in Sector |-> Whole(Dat(v))]
         /\ DOMAIN card' = Regs /\ ~card'.attached /\ card'.state = "S_IDLE" /\ card'.fcnt = 0
         /\ card'.out = Idle /\ ~card'.rq_rd /\ ~card'.rq_wr /\ ~card'.rd_rdy
         /\ card'.dcnt = 0 /\ card'.rq_seq = 0 /\ card'.dbase = "RDA"
         /\ card'.lba = card.lba /\ card'.rbuf = card.rbuf /\ card'.mem = card.mem /\ card'.wp = card.wp
  BY DEF TakeOut, FsmReset, InitCard, Regs

LEMMA PutBackIs ==
  ASSUME Protocol, PutBack
  PROVE  /\ ~card.attached /\ UNCHANGED <<flag, arm, disk>> /\ host' = HostIdle("CMD0", host.ops)
         /\ flag = [rd |-> card.rq_rd, wr |-> card.rq_wr]
         /\ card'.attached /\ card'.mem = [card.mem EXCEPT !.CSD = CSD] /\ card'.mem = card.mem
         /\ Same(card, card', {"attached", "wp", "mem"})
<1>1. PICK w \in BOOLEAN : card' = [card EXCEPT !.attached = TRUE, !.wp = w, !.mem.CSD = CSD]
  BY DEF PutBack
<1>2. DOMAIN card = Regs /\ card.mem \in Memory BY DEF Protocol, CardShape
<1>3. card'.attached /\ card'.mem = [card.mem EXCEPT !.CSD = CSD] BY <1>1, <1>2 DEF Regs
<1>4. [card.mem EXCEPT !.CSD = CSD] = card.mem BY <1>2 DEF Memory
<1>5. Same(card, card', {"attached", "wp", "mem"}) BY <1>1, <1>2 DEF Same, Regs
<1> QED BY <1>3, <1>4, <1>5 DEF PutBack

LEMMA ProtocolRemount == Protocol /\ (TakeOut \/ PutBack) => Protocol'
<1> SUFFICES ASSUME Protocol, TakeOut \/ PutBack PROVE Protocol'
  OBVIOUS
<1>1. CardShape(card) /\ HostShape(host) /\ Meets(card, host) /\ ArmShape BY DEF Protocol
<1>2. CASE TakeOut
  <2>1. PICK d : d = card' OBVIOUS
  <2>2. CardShape(d)
    <3>1. 0 \in 0 .. FRAME - 1 /\ Idle \in OutByte BY Sizes, OutBytes
    <3> QED BY <2>1, <3>1, <1>1, <1>2, TakeOutIs DEF CardShape, CardStates, Buffers, ReadBuffers
  <2>3. Meets(d, host) BY <2>1, <1>2, TakeOutIs, MetAtRest
  <2>4. disk' \in [Sector -> Block] BY <1>2, TakeOutIs, Blocks
  <2>5. ArmShape' BY <2>4, <1>1, <1>2, TakeOutIs DEF ArmShape
  <2> QED BY <2>1, <2>2, <2>3, <2>5, <1>1, <1>2, TakeOutIs DEF Protocol
<1>3. CASE PutBack
  <2>1. PICK d : d = card' OBVIOUS
  <2>2. /\ d.attached /\ d.mem = card.mem /\ Same(card, d, {"attached", "wp", "mem"})
    BY <2>1, <1>3, PutBackIs
  <2>3. CardShape(d) BY <2>2, <1>1 DEF CardShape, Same, Regs
  <2>4. d.state = "S_IDLE" /\ d.out = Idle /\ d.fcnt = 0
    BY <2>2, <1>1, <1>3, PutBackIs DEF Same, Regs, Meets, OutOfCard
  <2>5. host'.ph = "idle" /\ HostShape(host)'
    <3>1. /\ DOMAIN host' = HostRegs /\ host'.ph = "idle" /\ host'.arg = 0 /\ host'.dat = Dat("p")
          /\ host'.i = 0 /\ host'.got = <<>>
      BY <1>3, PutBackIs DEF HostIdle, HostRegs
    <3>2. host'.got \in Seq(OutByte) BY <3>1, EmptyGot
    <3> QED BY <3>1, <3>2 DEF HostShape
  <2>6. PICK g : g = host' OBVIOUS
  <2>7. Meets(d, g) BY <2>4, <2>5, <2>6, MetAtRest
  <2>8. ArmShape' BY <2>1, <2>2, <1>1, <1>3, PutBackIs DEF ArmShape
  <2> QED BY <2>1, <2>3, <2>5, <2>6, <2>7, <2>8 DEF Protocol
<1> QED BY <1>2, <1>3

LEMMA ProtocolNext == Protocol /\ [NextWithRemounts]_vars => Protocol'
<1> SUFFICES ASSUME Protocol, [NextWithRemounts]_vars PROVE Protocol'
  OBVIOUS
<1>1. CASE UNCHANGED vars
  BY <1>1 DEF vars, Protocol, ArmShape
<1>2. CASE Synchronise
  BY <1>2 DEF Synchronise, Protocol, ArmShape
<1> QED BY <1>1, <1>2, ProtocolArm, ProtocolHost, ProtocolRemount DEF NextWithRemounts

-----------------------------------------------------------------------------
(* Writes *)

Stored(c, h) == h.arg \in Sector /\ ~c.wp /\ disk[h.arg] = Whole(h.dat)

\* The card has a block and waits for the ARM to store it.
Storing(c) == c.state \in {"S_RXCRC", "S_RXACK"}

\* A write request is up until it is answered, and what the card and the
\* driver make of the answer is the truth.
Answers(c, h) ==
    /\ c.rq_wr => Storing(c) /\ ~c.wr_rdy /\ ~c.wp
    /\ Storing(c) /\ ~c.wp => c.rq_wr \/ c.wr_rdy
    /\ Storing(c) /\ ~c.wp /\ c.wr_rdy /\ ~c.wr_err => Stored(c, h)
    /\ c.state = "S_RXRESP" /\ c.out.t = "E5" => Stored(c, h)
    /\ c.attached /\ h.ph = "busy" /\ h.op \in WriteOps /\ h.ok => Stored(c, h)

\* An ARM that serves a write serves the one that is up.
Stores(c, h) ==
    /\ flag.wr /\ ~c.rq_wr /\ c.attached => arm.ph = "wait" /\ arm.kind = "wr"
    /\ arm.kind = "wr" /\ arm.ph \in {"lba", "pull", "push", "ackwr"} =>
           c.rq_wr /\ arm.seq = c.rq_seq
    /\ arm.ph \in {"pull", "push", "ackwr"} => arm.lba = c.lba
    /\ arm.ph = "pull" => \A i \in 0 .. BLK - 1 : i < arm.i => arm.dat[i] = h.dat
    /\ arm.ph = "push" => arm.dat = Whole(h.dat)
    /\ arm.ph = "ackwr" /\ ~arm.err => Stored(c, h)

Writes == Answers(card, host) /\ Stores(card, host)

\* A byte to a card that waits for the ARM.
LEMMA StoringByte ==
  ASSUME NEW c, NEW h, NEW b, NEW g, Turning(c, h, b, g), Storing(c)
  PROVE  LET d == ByteStep(c, b) IN
         /\ Same(c, d, {"state", "out", "dcnt"})
         /\ \/ Storing(d) /\ d.out = Idle
            \/ /\ c.wp \/ c.wr_rdy
               /\ d.state = "S_RXRESP" /\ d.out = Byte(IF c.wp \/ c.wr_err THEN "ED" ELSE "E5")
         /\ g.op = h.op /\ g.arg = h.arg /\ g.dat = h.dat /\ g.ph \in {"put", "resp"}
<1> DEFINE d == ByteStep(c, b)
<1>1. CardShape(c) /\ HostShape(h) /\ c.attached /\ Turn(c, h, b, g) /\ Receiving(c, h) /\ OutSays(c)
  BY DEF Turning, Meets
<1>2. /\ Same(c, d, {"state", "out", "dcnt"})
      /\ \/ d.state = c.state /\ d.out = Idle
         \/ d.state = "S_RXACK" /\ d.out = Idle
         \/ /\ c.wp \/ c.wr_rdy
            /\ d.state = "S_RXRESP" /\ d.out = Byte(IF c.wp \/ c.wr_err THEN "ED" ELSE "E5")
  BY <1>1, StepRxCrc DEF CardShape, Storing
<1>3. g.op = h.op /\ g.arg = h.arg /\ g.dat = h.dat /\ g.ph \in {"put", "resp"}
  <2>1. CASE c.state = "S_RXCRC"
    <3>1. h.ph = "put" BY <1>1, <2>1 DEF Receiving
    <3>2. Kept(h, g, {"i"}) \/ (Kept(h, g, {"ph", "i"}) /\ g.ph = "resp") BY <3>1, <1>1 DEF Turn
    <3> QED BY <3>1, <3>2 DEF Kept, HostRegs
  <2>2. CASE c.state = "S_RXACK"
    <3>1. h.ph = "resp" /\ c.out.t \notin {"E5", "ED"} BY <1>1, <2>2 DEF Receiving, OutSays
    <3>2. g = h BY <3>1, <1>1 DEF Turn
    <3> QED BY <3>1, <3>2
  <2> QED BY <2>1, <2>2 DEF Storing
<1> HIDE DEF d
<1>4. \/ Storing(d) /\ d.out = Idle
      \/ ((c.wp \/ c.wr_rdy) /\ d.state = "S_RXRESP" /\ d.out = Byte(IF c.wp \/ c.wr_err THEN "ED" ELSE "E5"))
  BY <1>2 DEF Storing
<1> QED BY <1>2, <1>3, <1>4 DEF d

\* No other byte makes the card store or answer.
LEMMA NoStore ==
  ASSUME NEW c, NEW h, NEW b, NEW g, Turning(c, h, b, g),
         c.state \notin {"S_RX", "S_RXCRC", "S_RXACK"}
  PROVE  ByteStep(c, b).state \notin {"S_RXCRC", "S_RXACK", "S_RXRESP"}
<1> DEFINE d == ByteStep(c, b)  q == Quiet(c)
<1>1. DOMAIN c = Regs /\ c.attached /\ c.state \in CardStates /\ c.fcnt \in 0 .. FRAME - 1
  BY DEF Turning, CardShape
<1>2. Same(c, q, {"out"}) BY <1>1, QuietIs
<1>3. CASE c.state \in {"S_IDLE", "S_ARG"}
  <2>1. \/ d = q
        \/ d.state = "S_ARG"
        \/ Same(c, d, {"out", "fcnt"})
        \/ Executed(q, d, OpOf(b), ArgOf(b))
    BY <1>1, <1>2, <1>3, StepCollect, ExecuteIs DEF Same
  <2> HIDE DEF d, q
  <2> QED BY <2>1, <1>2, <1>3 DEF Same, Regs, Executed, d
<1>4. CASE c.state = "S_NCR" BY <1>1, <1>4, StepNcr
<1>5. CASE c.state = "S_RESP"
  <2>1. d.state = c.after BY <1>1, <1>5, StepResp
  <2> QED BY <2>1, <1>5 DEF Turning, Meets, Replying, Reply
<1>6. CASE c.state = "S_RXWAIT"
  <2>1. d.state \in {"S_RX", "S_BUSY"} \/ d = q BY <1>1, <1>6, StepRxWait
  <2> HIDE DEF d, q
  <2> QED BY <2>1, <1>2, <1>6 DEF Same, Regs, d
<1>7. CASE c.state = "S_RXRESP" BY <1>1, <1>7, StepRxResp
<1>8. CASE c.state = "S_BUSY" BY <1>1, <1>8, StepBusy
<1>9. CASE c.state \in Flow
  <2>1. \/ Stopping(c, h) /\ h.ph = "stuff"
        \/ Stopping(c, h) /\ h.ph = "frame"
        \/ Reading(c, h)
    BY <1>9 DEF Turning, Meets, Sending, Stopping
  <2>2. CASE Stopping(c, h) /\ h.ph = "stuff"
    <3>1. ~starts(b) BY <2>2 DEF Turning, Turn, starts, Idle, Byte
    <3> QED BY <3>1, <2>2, <1>1, <1>9, StepStop DEF Stopping
  <2>3. \A n : Flowed(c, n) => n.state \notin {"S_RXCRC", "S_RXACK", "S_RXRESP"}
    BY <1>9 DEF Flowed, Same, Regs, Flow
  <2>4. CASE Stopping(c, h) /\ h.ph = "frame"
    <3>1. PICK n : Flowed(c, n) /\ Heard(c, b, n, d) BY <2>4, <1>9, AtStopping
    <3> HIDE DEF d
    <3>2. d.state = n.state BY <3>1 DEF Heard, Same, Regs
    <3> QED BY <3>1, <3>2, <2>3 DEF d
  <2>5. CASE Reading(c, h)
    <3>1. Flowed(c, d) BY <2>5, <1>9, AtReading
    <3> QED BY <3>1, <2>3
  <2> QED BY <2>1, <2>2, <2>4, <2>5
<1> QED BY <1>1, <1>3, <1>4, <1>5, <1>6, <1>7, <1>8, <1>9 DEF CardStates, Reply

\* A driver that waits for the end of a block it knows stored goes on doing so.
LEMMA BusyBefore ==
  ASSUME NEW c, NEW h, NEW b, NEW g, Turn(c, h, b, g), OutSays(c), c.state # "S_RXRESP",
         g.ph = "busy", g.op \in WriteOps
  PROVE  h.ph = "busy" /\ g = h
<1>1. c.out.t \notin {"E5", "ED"} BY DEF OutSays
<1>2. h.ph \in {"r1", "resp", "busy", "more"} BY DEF Turn, Kept, HostRegs, Rests
<1>3. h.ph # "r1"
  <2>1. h.ph = "r1" => g = h \/ g.op = "CMD12" BY DEF Turn
  <2> QED BY <2>1 DEF WriteOps
<1>4. h.ph # "more" BY DEF Turn, WriteOps
<1>5. h.ph # "resp" BY <1>1 DEF Turn
<1>6. h.ph = "busy" => g = h BY DEF Turn, Rests
<1> QED BY <1>2, <1>3, <1>4, <1>5, <1>6

LEMMA RxIs ==
  ASSUME NEW c, NEW b, DOMAIN c = Regs, c.attached, c.state = "S_RX", c.dcnt \in 0 .. BLK - 1
  PROVE  LET d == ByteStep(c, b) IN
         /\ Same(c, d, {"state", "out", "dcnt", "mem", "rq_wr", "rq_seq", "wr_rdy", "wr_err"})
         /\ \/ Same(c, d, {"out", "dcnt", "mem"})
            \/ d.state = "S_RXCRC" /\ c.wp /\ Same(c, d, {"out", "state", "dcnt", "mem"})
            \/ d.state = "S_RXCRC" /\ ~c.wp /\ d.rq_wr /\ ~d.wr_rdy /\ d.rq_seq = nextseq(c)
<1> DEFINE d == ByteStep(c, b)
<1>1. /\ Same(c, d, {"state", "out", "dcnt", "mem", "rq_wr", "rq_seq", "wr_rdy", "wr_err"})
      /\ d.out = Idle /\ d.mem = [c.mem EXCEPT !.WR[c.dcnt] = b]
      /\ \/ /\ c.dcnt + 1 < BLK /\ d.dcnt = c.dcnt + 1
            /\ Same(c, d, {"out", "dcnt", "mem"})
         \/ /\ c.dcnt + 1 = BLK /\ d.state = "S_RXCRC" /\ d.dcnt = 0
            /\ IF c.wp THEN Same(c, d, {"out", "state", "dcnt", "mem"})
               ELSE d.rq_wr /\ d.rq_seq = nextseq(c) /\ ~d.wr_rdy /\ ~d.wr_err
  BY StepRx
<1> HIDE DEF d
<1> QED BY <1>1 DEF d

LEMMA AnswersByte ==
  ASSUME NEW c, NEW h, NEW b, NEW g, CardShape(c), HostShape(h), Meets(c, h), Turn(c, h, b, g),
         Answers(c, h)
  PROVE  /\ Answers(ByteStep(c, b), g)
         /\ c.rq_wr => /\ Same(c, ByteStep(c, b), {"state", "out", "dcnt"})
                       /\ g.op = h.op /\ g.arg = h.arg /\ g.dat = h.dat
<1> DEFINE d == ByteStep(c, b)
<1>1. d.attached = c.attached /\ d.wp = c.wp BY Untouched
<1>2. DOMAIN c = Regs BY DEF CardShape
<1>3. CASE ~c.attached
  <2>1. Same(c, d, {"out"}) BY <1>2, <1>3, StepOut, QuietIs
  <2> HIDE DEF d
  <2>2. d.state = "S_IDLE" /\ c.state = "S_IDLE" /\ d.rq_wr = c.rq_wr
    BY <2>1, <1>3 DEF Same, Regs, Meets, OutOfCard
  <2>3. ~c.rq_wr BY <2>2 DEF Answers, Storing
  <2> QED BY <2>2, <2>3, <1>1, <1>3 DEF Answers, Storing, d
<1>4. CASE c.attached /\ Storing(c)
  <2>1. Turning(c, h, b, g) BY <1>4 DEF Turning
  <2>2. /\ Same(c, d, {"state", "out", "dcnt"})
        /\ \/ Storing(d) /\ d.out = Idle
           \/ /\ c.wp \/ c.wr_rdy
              /\ d.state = "S_RXRESP" /\ d.out = Byte(IF c.wp \/ c.wr_err THEN "ED" ELSE "E5")
        /\ g.op = h.op /\ g.arg = h.arg /\ g.dat = h.dat /\ g.ph \in {"put", "resp"}
    BY <2>1, <1>4, StoringByte
  <2> HIDE DEF d
  <2>3. d.rq_wr = c.rq_wr /\ d.wr_rdy = c.wr_rdy /\ d.wr_err = c.wr_err BY <2>2 DEF Same, Regs
  <2>4. Stored(c, h) => Stored(d, g) BY <2>2, <1>1 DEF Stored
  <2>5. CASE Storing(d) BY <2>2, <2>3, <2>4, <2>5, <1>1, <1>4 DEF Answers, Storing, d
  <2>6. CASE /\ c.wp \/ c.wr_rdy
             /\ d.state = "S_RXRESP" /\ d.out = Byte(IF c.wp \/ c.wr_err THEN "ED" ELSE "E5")
    <3>1. ~d.rq_wr BY <2>3, <2>6 DEF Answers
    <3>2. d.out.t = "E5" => ~c.wp /\ c.wr_rdy /\ ~c.wr_err BY <2>6 DEF Byte
    <3>3. d.out.t = "E5" => Stored(d, g) BY <3>2, <2>4, <1>4 DEF Answers
    <3> QED BY <3>1, <3>3, <2>2, <2>3, <2>6 DEF Answers, Storing, d
  <2> QED BY <2>2, <2>5, <2>6
<1>5. CASE c.attached /\ ~Storing(c)
  <2>1. Turning(c, h, b, g) BY <1>5 DEF Turning
  <2>2. ~c.rq_wr BY <1>5 DEF Answers
  <2>3. CASE c.state = "S_RX"
    <3>1. c.dcnt \in 0 .. BLK - 1 /\ h.ph = "put" /\ h.i = c.dcnt + 1
      BY <2>3, Sizes DEF Meets, Receiving, CardShape
    <3>2. g.ph = "put"
      <4>1. h.i # BLK + 2 BY <3>1, Sizes
      <4> QED BY <3>1, <4>1 DEF Turn, Kept, HostRegs
    <3>3. /\ Same(c, d, {"state", "out", "dcnt", "mem", "rq_wr", "rq_seq", "wr_rdy", "wr_err"})
          /\ \/ Same(c, d, {"out", "dcnt", "mem"})
             \/ d.state = "S_RXCRC" /\ c.wp /\ Same(c, d, {"out", "state", "dcnt", "mem"})
             \/ d.state = "S_RXCRC" /\ ~c.wp /\ d.rq_wr /\ ~d.wr_rdy
      BY <1>2, <1>5, <2>3, <3>1, RxIs
    <3> HIDE DEF d
    <3>4. CASE Same(c, d, {"out", "dcnt", "mem"})
      <4>1. d.state = "S_RX" /\ d.rq_wr = c.rq_wr BY <3>4, <2>3 DEF Same, Regs
      <4> QED BY <4>1, <2>2, <3>2 DEF Answers, Storing, d
    <3>5. CASE d.state = "S_RXCRC" /\ c.wp /\ Same(c, d, {"out", "state", "dcnt", "mem"})
      <4>1. d.rq_wr = c.rq_wr BY <3>5 DEF Same, Regs
      <4> QED BY <4>1, <3>5, <2>2, <3>2, <1>1 DEF Answers, Storing, d
    <3>6. CASE d.state = "S_RXCRC" /\ ~c.wp /\ d.rq_wr /\ ~d.wr_rdy
      BY <3>6, <3>2, <1>1, <2>2 DEF Answers, Storing, d
    <3> QED BY <3>3, <3>4, <3>5, <3>6
  <2>4. CASE c.state # "S_RX"
    <3>1. d.rq_wr = c.rq_wr BY <2>4, Untouched DEF Spared
    <3>2. d.state \notin {"S_RXCRC", "S_RXACK", "S_RXRESP"} BY <2>1, <2>4, <1>5, NoStore DEF Storing
    <3>3. g.ph = "busy" /\ g.op \in WriteOps /\ g.ok => Stored(c, g)
      <4> SUFFICES ASSUME g.ph = "busy", g.op \in WriteOps, g.ok PROVE Stored(c, g)
        OBVIOUS
      <4>1. CASE c.state = "S_RXRESP"
        <5>1. g.arg = h.arg /\ g.dat = h.dat /\ c.out.t = "E5" BY <2>1, <4>1, AtRxResp
        <5> QED BY <5>1, <4>1 DEF Answers, Stored
      <4>2. CASE c.state # "S_RXRESP"
        <5>1. h.ph = "busy" /\ g = h BY <4>2, BusyBefore DEF Meets
        <5> QED BY <5>1, <1>5 DEF Answers
      <4> QED BY <4>1, <4>2
    <3> HIDE DEF d
    <3>4. g.ph = "busy" /\ g.op \in WriteOps /\ g.ok => Stored(d, g) BY <3>3, <1>1 DEF Stored
    <3> QED BY <3>1, <3>2, <3>4, <2>2 DEF Answers, Storing, d
  <2> QED BY <2>3, <2>4
<1> QED BY <1>3, <1>4, <1>5

LEMMA WritesExchange ==
  ASSUME Protocol, Writes, NEW b, card' = ByteStep(card, b), Turn(card, host, b, host'),
         UNCHANGED <<flag, arm, disk>>
  PROVE  Writes'
<1>1. CardShape(card) /\ HostShape(host) /\ Meets(card, host) /\ ArmShape BY DEF Protocol
<1>2. PICK d, g : d = card' /\ g = host' OBVIOUS
<1>3. Answers(card, host) /\ Stores(card, host) BY DEF Writes
<1>4. /\ Answers(d, g)
      /\ card.rq_wr => /\ Same(card, d, {"state", "out", "dcnt"})
                       /\ g.op = host.op /\ g.arg = host.arg /\ g.dat = host.dat
  BY <1>1, <1>2, <1>3, AnswersByte
<1>5. d.attached = card.attached /\ d.wp = card.wp BY <1>1, <1>2, Untouched
<1>6. Stores(d, g)
  <2>1. CASE card.rq_wr
    <3>1. d.rq_wr /\ d.rq_seq = card.rq_seq /\ d.lba = card.lba BY <1>4, <2>1 DEF Same, Regs
    <3>2. g.arg = host.arg /\ g.dat = host.dat BY <1>4, <2>1
    <3>3. Stored(card, host) => Stored(d, g) BY <3>2, <1>5 DEF Stored
    <3> QED BY <3>1, <3>2, <3>3, <1>3 DEF Stores
  <2>2. CASE ~card.rq_wr
    <3>1. arm.ph \notin {"pull", "push", "ackwr"} /\ ~(arm.kind = "wr" /\ arm.ph = "lba")
      BY <2>2, <1>1, <1>3 DEF Stores, ArmShape
    <3> QED BY <3>1, <2>2, <1>3, <1>5 DEF Stores
  <2> QED BY <2>1, <2>2
<1>7. Answers(card, host)' BY <1>2, <1>4 DEF Answers, Stored
<1>8. Stores(card, host)' BY <1>2, <1>6 DEF Stores, Stored
<1> QED BY <1>7, <1>8 DEF Writes

\* A driver that is in no block lets the ARM serve no write.
LEMMA NoWrite ==
  ASSUME Protocol, Writes, host.ph \notin {"put", "resp"}
  PROVE  /\ ~Storing(card) /\ card.state # "S_RXRESP" /\ ~card.rq_wr
         /\ arm.ph \notin {"pull", "push", "ackwr"} /\ ~(arm.kind = "wr" /\ arm.ph = "lba")
<1>1. Meets(card, host) /\ ArmShape BY DEF Protocol
<1>2. Answers(card, host) /\ Stores(card, host) BY DEF Writes
<1>3. ~Storing(card) /\ card.state # "S_RXRESP" BY <1>1 DEF Meets, Receiving, Storing
<1>4. ~card.rq_wr BY <1>2, <1>3 DEF Answers
<1> QED BY <1>1, <1>2, <1>3, <1>4 DEF Stores, ArmShape

LEMMA WritesQuiet ==
  ASSUME Protocol, Writes, UNCHANGED <<card, flag, arm, disk>>,
         host.ph \notin {"put", "resp"}, host'.ph \in {"frame", "put"}
  PROVE  Writes'
<1>1. PICK g : g = host' OBVIOUS
<1>2. Answers(card, g) BY <1>1, NoWrite DEF Answers, Writes
<1>3. Stores(card, g)
  <2>1. arm.ph \notin {"pull", "push", "ackwr"} BY NoWrite
  <2> QED BY <2>1 DEF Stores, Writes
<1>4. Answers(card, host)' BY <1>1, <1>2 DEF Answers, Stored, Storing
<1>5. Stores(card, host)' BY <1>1, <1>3 DEF Stores, Stored
<1> QED BY <1>4, <1>5 DEF Writes

LEMMA WritesHost == Protocol /\ Writes /\ Host => Writes'
<1> SUFFICES ASSUME Protocol, Writes, Host PROVE Writes'
  OBVIOUS
<1>1. HostShape(host) BY DEF Protocol
<1>2. CASE StartInit \/ StartOp \/ StopStream
  <2>1. UNCHANGED <<card, flag, arm, disk>> /\ host'.ph = "frame" /\ host.ph \notin {"put", "resp"}
    BY <1>1, <1>2, StartsIs
  <2> QED BY <2>1, WritesQuiet
<1>3. CASE \/ HostByte
           \/ host.ph = "more" /\ Exchange(Byte("FD"), [To("busy") EXCEPT !.op = "STOP"])
  <2>1. Turned BY <1>1, <1>3, Turns
  <2> QED BY <2>1, WritesExchange DEF Turned
<1>4. CASE /\ UNCHANGED <<card, flag, arm, disk>> /\ HostShape(host)' /\ host.ph = "more"
           /\ host'.ph = "put" /\ host'.i = 0 /\ host'.op = host.op /\ host'.arg = host.arg + 1
  BY <1>4, WritesQuiet
<1> QED BY <1>1, <1>2, <1>3, <1>4, NextBlockIs DEF Host

\* The ARM leaves what Answers reads alone, but for its acknowledgement.
LEMMA AnswersKept ==
  ASSUME NEW d, Writes, UNCHANGED <<disk, host>>, d = card',
         d.state = card.state, d.out = card.out, d.attached = card.attached, d.wp = card.wp,
         d.rq_wr = card.rq_wr, d.wr_rdy = card.wr_rdy, d.wr_err = card.wr_err
  PROVE  Answers(card, host)'
<1>1. Answers(d, host) BY DEF Writes, Answers, Storing, Stored
<1> QED BY <1>1 DEF Answers, Storing, Stored

\* While the ARM serves a write the driver is in that block.
LEMMA Served ==
  ASSUME Protocol, Writes, arm.kind = "wr", arm.ph \in {"lba", "pull", "push", "ackwr"}
  PROVE  /\ card.rq_wr /\ arm.seq = card.rq_seq /\ Storing(card) /\ ~card.wp /\ ~card.wr_rdy
         /\ host.op \in WriteOps /\ host.ph \in {"put", "resp"} /\ card.lba = host.arg
         /\ card.mem.WR = Whole(host.dat)
<1>1. card.rq_wr /\ arm.seq = card.rq_seq BY DEF Writes, Stores
<1>2. Storing(card) /\ ~card.wp /\ ~card.wr_rdy BY <1>1 DEF Writes, Answers
<1>3. Receiving(card, host) BY DEF Protocol, Meets
<1> QED BY <1>1, <1>2, <1>3 DEF Receiving, Storing, Writing

LEMMA WritesArm == Protocol /\ Writes /\ Pump => Writes'
<1> SUFFICES ASSUME Protocol, Writes, Pump PROVE Writes'
  OBVIOUS
<1>1. CardShape(card) /\ HostShape(host) /\ Meets(card, host) /\ ArmShape BY DEF Protocol
<1>2. card.attached BY DEF Pump
<1>3. Answers(card, host) /\ Stores(card, host) BY DEF Writes
<1>4. CASE dm_stat_rq
  <2>1. arm.ph = "idle" /\ (flag.rd \/ flag.wr) /\ UNCHANGED <<card, flag, disk, host>>
        /\ arm'.ph = "lba" /\ arm'.kind = (IF flag.rd THEN "rd" ELSE "wr") /\ arm'.seq = card.rq_seq
    BY <1>1, <1>4, StatIs
  <2>2. flag.wr => card.rq_wr BY <2>1, <1>2, <1>3 DEF Stores
  <2>3. Stores(card, host)' BY <2>1, <2>2 DEF Stores
  <2>4. Answers(card, host)' BY <2>1, <1>3 DEF Answers, Storing, Stored
  <2> QED BY <2>3, <2>4 DEF Writes
<1>5. CASE read_lba
  <2>1. /\ UNCHANGED <<card, flag, disk, host>>
        /\ arm.ph = "lba" /\ arm'.ph = (IF arm.kind = "rd" THEN "fetch" ELSE "pull") /\ arm'.lba = card.lba
        /\ arm'.kind = arm.kind /\ arm'.seq = arm.seq /\ arm'.i = 0
    BY <1>1, <1>5, LbaIs DEF ArmShape
  <2>2. ~(flag.wr /\ ~card.rq_wr) BY <2>1, <1>2, <1>3 DEF Stores
  <2>3. \A i \in 0 .. BLK - 1 : ~(i < arm'.i) BY <2>1, Sizes
  <2>4. Stores(card, host)' BY <2>1, <2>2, <2>3, <1>3 DEF Stores
  <2>5. Answers(card, host)' BY <2>1, <1>3 DEF Answers, Storing, Stored
  <2> QED BY <2>4, <2>5 DEF Writes
<1>6. CASE backend_read
  <2>1. /\ UNCHANGED <<card, flag, disk, host>>
        /\ arm.ph = "fetch" /\ arm'.ph = "fill" /\ arm'.kind = "rd"
    BY <1>1, <1>6, FetchIs DEF ArmShape
  <2>2. Stores(card, host)' BY <2>1, <1>3 DEF Stores
  <2>3. Answers(card, host)' BY <2>1, <1>3 DEF Answers, Storing, Stored
  <2> QED BY <2>2, <2>3 DEF Writes
<1>7. CASE dm_wrbuf
  <2>1. /\ UNCHANGED <<flag, disk, host>> /\ Same(card, card', {"mem"})
        /\ arm.ph = "fill" /\ arm'.ph \in {"ackrd", "fill"} /\ arm'.kind = "rd"
    BY <1>1, <1>7, FillIs DEF ArmShape
  <2>2. PICK d : d = card' OBVIOUS
  <2>3. /\ d.state = card.state /\ d.out = card.out /\ d.attached = card.attached /\ d.wp = card.wp
        /\ d.rq_wr = card.rq_wr /\ d.wr_rdy = card.wr_rdy /\ d.wr_err = card.wr_err
    BY <2>1, <2>2 DEF Same, Regs
  <2>4. Stores(card, host)' BY <2>1, <2>2, <2>3, <1>3 DEF Stores
  <2>5. Answers(card, host)' BY <2>1, <2>2, <2>3, AnswersKept
  <2> QED BY <2>4, <2>5 DEF Writes
<1>8. CASE ack_read
  <2>1. /\ UNCHANGED <<flag, disk, host>>
        /\ arm.ph = "ackrd" /\ arm'.ph = "wait" /\ arm'.kind = "rd"
        /\ card' = card \/ Same(card, card', {"rq_rd", "rd_rdy", "rd_err", "rbuf", "dbase"})
    BY <1>1, <1>8, AckReadStep DEF ArmShape
  <2>2. PICK d : d = card' OBVIOUS
  <2>3. /\ d.state = card.state /\ d.out = card.out /\ d.attached = card.attached /\ d.wp = card.wp
        /\ d.rq_wr = card.rq_wr /\ d.wr_rdy = card.wr_rdy /\ d.wr_err = card.wr_err
    BY <2>1, <2>2 DEF Same, Regs
  <2>4. Stores(card, host)' BY <2>1, <2>2, <2>3, <1>3 DEF Stores
  <2>5. Answers(card, host)' BY <2>1, <2>2, <2>3, AnswersKept
  <2> QED BY <2>4, <2>5 DEF Writes
<1>9. CASE pull
  <2>1. /\ UNCHANGED <<card, flag, disk, host>>
        /\ arm.ph = "pull" /\ arm.kind = "wr" /\ arm.i \in 0 .. BLK - 1 /\ arm.dat \in Block
        /\ arm'.ph = (IF arm.i = BLK - 1 THEN "push" ELSE "pull") /\ arm'.i = arm.i + 1
        /\ arm'.kind = arm.kind /\ arm'.seq = arm.seq /\ arm'.lba = arm.lba
        /\ arm'.dat = [arm.dat EXCEPT ![arm.i] = card.mem.WR[arm.i]]
    BY <1>1, <1>9, PullIs DEF ArmShape
  <2>2. card.rq_wr /\ arm.seq = card.rq_seq /\ card.mem.WR = Whole(host.dat) BY <2>1, Served
  <2>3. card.mem.WR[arm.i] = host.dat BY <2>1, <2>2 DEF Whole
  <2>4. \A i \in 0 .. BLK - 1 : i < arm.i + 1 => arm'.dat[i] = host.dat
    <3>1. ASSUME NEW i \in 0 .. BLK - 1, i < arm.i + 1 PROVE arm'.dat[i] = host.dat
      <4>1. i = arm.i \/ i < arm.i BY <2>1, <3>1, Sizes
      <4> QED BY <4>1, <2>1, <2>3, <1>3 DEF Stores, Block
    <3> QED BY <3>1
  <2>5. arm.i = BLK - 1 => arm'.dat = Whole(host.dat)
    <3>1. ASSUME arm.i = BLK - 1 PROVE arm'.dat = Whole(host.dat)
      <4>1. \A i \in 0 .. BLK - 1 : i < arm.i + 1 BY <3>1, Sizes
      <4>2. \A i \in 0 .. BLK - 1 : arm'.dat[i] = host.dat BY <4>1, <2>4
      <4>3. arm'.dat = [i \in 0 .. BLK - 1 |-> arm'.dat[i]] BY <2>1 DEF Block
      <4> QED BY <4>2, <4>3 DEF Whole
    <3> QED BY <3>1
  <2>6. Stores(card, host)' BY <2>1, <2>2, <2>4, <2>5, <1>3 DEF Stores
  <2>7. Answers(card, host)' BY <2>1, <1>3 DEF Answers, Storing, Stored
  <2> QED BY <2>6, <2>7 DEF Writes
<1>10. CASE backend_write
  <2>1. /\ UNCHANGED <<card, flag, host>>
        /\ arm.ph = "push" /\ arm.kind = "wr" /\ arm'.ph = "ackwr" /\ arm'.lba = arm.lba
        /\ arm'.kind = arm.kind /\ arm'.seq = arm.seq
        /\ \/ arm.lba \in Sector /\ disk' = [disk EXCEPT ![arm.lba] = arm.dat] /\ ~arm'.err
           \/ disk' = disk /\ arm'.err
    BY <1>1, <1>10, PushIs DEF ArmShape
  <2>2. /\ card.rq_wr /\ arm.seq = card.rq_seq /\ Storing(card) /\ ~card.wp /\ ~card.wr_rdy
        /\ host.ph \in {"put", "resp"} /\ card.lba = host.arg
    BY <2>1, Served
  <2>3. arm.lba = card.lba /\ arm.dat = Whole(host.dat) BY <2>1, <1>3 DEF Stores
  <2>4. ~arm'.err => Stored(card, host)'
    BY <2>1, <2>2, <2>3, <1>1 DEF Stored, ArmShape
  <2>5. Stores(card, host)' BY <2>1, <2>2, <2>3, <2>4, <1>3 DEF Stores
  <2>6. Answers(card, host)' BY <2>1, <2>2, <1>3 DEF Answers, Storing
  <2> QED BY <2>5, <2>6 DEF Writes
<1>11. CASE ack_write
  <2>1. PICK d : d = card' OBVIOUS
  <2>2. /\ UNCHANGED <<flag, disk, host>> /\ arm.ph = "ackwr" /\ arm.kind = "wr"
        /\ arm'.ph = "wait" /\ arm'.kind = arm.kind
        /\ \/ ~(card.rq_wr /\ arm.seq = card.rq_seq) /\ d = card
           \/ /\ card.rq_wr /\ arm.seq = card.rq_seq
              /\ Same(card, d, {"rq_wr", "wr_rdy", "wr_err"})
              /\ ~d.rq_wr /\ d.wr_rdy /\ (d.wr_err <=> arm.err)
    BY <2>1, <1>1, <1>11, AckWriteStep DEF ArmShape
  <2>3. /\ card.rq_wr /\ arm.seq = card.rq_seq /\ Storing(card)
        /\ host.ph \in {"put", "resp"}
    BY <2>2, Served
  <2>4. /\ Same(card, d, {"rq_wr", "wr_rdy", "wr_err"})
        /\ ~d.rq_wr /\ d.wr_rdy /\ (d.wr_err <=> arm.err)
    BY <2>2, <2>3
  <2>5. d.state = card.state /\ d.wp = card.wp BY <2>4 DEF Same, Regs
  <2>6. ~d.wr_err => Stored(card, host) BY <2>2, <2>4, <1>3 DEF Stores
  <2>7. ~d.wr_err => Stored(d, host) BY <2>5, <2>6 DEF Stored
  <2>8. Answers(d, host) BY <2>3, <2>4, <2>5, <2>7 DEF Answers, Storing
  <2>9. Answers(card, host)' BY <2>1, <2>2, <2>8 DEF Answers, Storing, Stored
  <2>10. Stores(card, host)' BY <2>2 DEF Stores
  <2> QED BY <2>9, <2>10 DEF Writes
<1>12. CASE wait_drop \/ ceiling
  <2>1. /\ UNCHANGED <<card, flag, disk, host>> /\ arm.ph = "wait" /\ arm'.ph = "idle"
        /\ wait_drop => ~RequestUp(flag, arm.kind)
        /\ ceiling => RequestUp([rd |-> card.rq_rd, wr |-> card.rq_wr], arm.kind)
    BY <1>12, DropIs
  <2>2. ~(flag.wr /\ ~card.rq_wr) BY <2>1, <1>2, <1>3, <1>12 DEF Stores, RequestUp
  <2>3. Stores(card, host)' BY <2>1, <2>2 DEF Stores
  <2>4. Answers(card, host)' BY <2>1, <1>3 DEF Answers, Storing, Stored
  <2> QED BY <2>3, <2>4 DEF Writes
<1> QED BY <1>4, <1>5, <1>6, <1>7, <1>8, <1>9, <1>10, <1>11, <1>12 DEF Pump, Arm

LEMMA WritesRemount == Protocol /\ Writes /\ (TakeOut \/ PutBack) => Writes'
<1> SUFFICES ASSUME Protocol, Writes, TakeOut \/ PutBack PROVE Writes'
  OBVIOUS
<1>1. CASE TakeOut
  <2>1. /\ ~card'.attached /\ card'.state = "S_IDLE" /\ ~card'.rq_wr /\ arm'.ph = "idle"
    BY <1>1, TakeOutIs
  <2>2. Answers(card, host)' BY <2>1 DEF Answers, Storing
  <2>3. Stores(card, host)' BY <2>1 DEF Stores
  <2> QED BY <2>2, <2>3 DEF Writes
<1>2. CASE PutBack
  <2>1. /\ ~card.attached /\ UNCHANGED <<flag, arm, disk>> /\ host' = HostIdle("CMD0", host.ops)
        /\ flag = [rd |-> card.rq_rd, wr |-> card.rq_wr]
        /\ Same(card, card', {"attached", "wp", "mem"})
    BY <1>2, PutBackIs
  <2>2. card.state = "S_IDLE" /\ arm.ph = "idle" BY <2>1 DEF Protocol, Meets, OutOfCard, ArmShape
  <2>3. ~card.rq_wr BY <2>2 DEF Writes, Answers, Storing
  <2>4. card'.state = card.state /\ card'.rq_wr = card.rq_wr BY <2>1 DEF Same, Regs
  <2>5. host'.ph = "idle" BY <2>1 DEF HostIdle
  <2>6. Answers(card, host)' BY <2>2, <2>3, <2>4, <2>5 DEF Answers, Storing
  <2>7. Stores(card, host)' BY <2>1, <2>2, <2>3 DEF Stores
  <2> QED BY <2>6, <2>7 DEF Writes
<1> QED BY <1>1, <1>2

LEMMA WritesInit == Init => Writes
<1> SUFFICES ASSUME Init PROVE Writes OBVIOUS
<1>1. PICK w \in BOOLEAN : card = [InitCard EXCEPT !.wp = w] BY DEF Init
<1>2. card.state = "S_IDLE" /\ ~card.rq_wr BY <1>1 DEF InitCard
<1>3. host.ph = "idle" /\ arm.ph = "idle" /\ ~flag.wr BY DEF Init, HostIdle, ArmIdle
<1> QED BY <1>2, <1>3 DEF Writes, Answers, Stores, Storing

LEMMA WritesNext == Protocol /\ Writes /\ [NextWithRemounts]_vars => Writes'
<1> SUFFICES ASSUME Protocol, Writes, [NextWithRemounts]_vars PROVE Writes'
  OBVIOUS
<1>1. CASE UNCHANGED vars
  BY <1>1 DEF vars, Writes, Answers, Stores, Stored, Storing
<1>2. CASE Synchronise
  <2>1. flag' = [rd |-> card.rq_rd, wr |-> card.rq_wr] /\ UNCHANGED <<card, arm, disk, host>>
    BY <1>2 DEF Synchronise
  <2>2. Answers(card, host)' BY <2>1 DEF Writes, Answers, Stored, Storing
  <2>3. Stores(card, host)' BY <2>1 DEF Writes, Stores, Stored
  <2> QED BY <2>2, <2>3 DEF Writes
<1> QED BY <1>1, <1>2, WritesArm, WritesHost, WritesRemount DEF NextWithRemounts

-----------------------------------------------------------------------------

LEMMA InvariantWrites == SpecWithRemounts => [](Protocol /\ Writes)
<1>1. Init => Protocol /\ Writes BY ProtocolInit, WritesInit
<1>2. Protocol /\ Writes /\ [NextWithRemounts]_vars => (Protocol /\ Writes)'
  BY ProtocolNext, WritesNext
<1> QED BY <1>1, <1>2, PTL DEF SpecWithRemounts

\* "Data accepted" (S_RXRESP's E5) is the truth: the volume holds the block
\* the driver sent, in the sector it named, whatever the ARM was doing before
\* and whenever the card was changed.
THEOREM WriteAnsweredTrulyAlways == SpecWithRemounts => []WriteAnsweredTruly
<1>1. Protocol /\ Writes => WriteAnsweredTruly
  BY DEF Writes, Answers, Stored, WriteAnsweredTruly
<1> QED BY <1>1, InvariantWrites, PTL

\* backend_write is only ever called for the one block the driver is in the
\* middle of: with its sector and with all its bytes.
THEOREM OnlyHostWritesAlways == SpecWithRemounts => OnlyHostWrites
<1> DEFINE A == disk' # disk /\ card'.attached =>
                  /\ host.op \in WriteOps /\ host.ph \in {"put", "resp"}
                  /\ disk' = [disk EXCEPT ![host.arg] = Whole(host.dat)]
<1>1. Protocol /\ Writes /\ [NextWithRemounts]_vars => [A]_vars
  <2> SUFFICES ASSUME Protocol, Writes, NextWithRemounts, disk' # disk, card'.attached
               PROVE  /\ host.op \in WriteOps /\ host.ph \in {"put", "resp"}
                      /\ disk' = [disk EXCEPT ![host.arg] = Whole(host.dat)]
    OBVIOUS
  <2>1. ArmShape /\ HostShape(host) /\ CardShape(card) BY DEF Protocol
  <2>2. ~Synchronise BY DEF Synchronise
  <2>3. ~Host
    <3>1. StartInit \/ StartOp \/ StopStream => disk' = disk BY <2>1, StartsIs
    <3>2. Turned => disk' = disk BY DEF Turned
    <3> QED BY <3>1, <3>2, <2>1, Turns, NextBlockIs DEF Host
  <2>4. ~TakeOut BY TakeOutIs
  <2>5. ~PutBack BY PutBackIs
  <2>6. backend_write
    <3>1. Arm BY <2>2, <2>3, <2>4, <2>5 DEF NextWithRemounts, Pump
    <3> QED BY <3>1, <2>1, StatIs, LbaIs, FetchIs, FillIs, AckReadStep, PullIs, AckWriteStep, DropIs DEF Arm
  <2>7. /\ arm.ph = "push" /\ arm.kind = "wr" /\ arm.lba \in Sector
        /\ disk' = [disk EXCEPT ![arm.lba] = arm.dat]
    BY <2>1, <2>6, PushIs DEF ArmShape
  <2>8. host.op \in WriteOps /\ host.ph \in {"put", "resp"} /\ card.lba = host.arg BY <2>7, Served
  <2>9. arm.lba = card.lba /\ arm.dat = Whole(host.dat) BY <2>7 DEF Writes, Stores
  <2> QED BY <2>7, <2>8, <2>9
<1> QED BY <1>1, InvariantWrites, PTL DEF SpecWithRemounts, OnlyHostWrites

-----------------------------------------------------------------------------
(* Reads: what one byte does to the request that is up, and to the sector   *)
(* the card holds                                                           *)

Request == {"rq_rd", "rq_seq", "rd_rdy", "rd_err"}
Sent    == {"S_TOKEN", "S_TX", "S_TXCRC"}

KeepsRequest(c, d) == \A r \in Request : d[r] = c[r]
KeepsSector(c, d)  == KeepsRequest(c, d) /\ d.lba = c.lba /\ d.dbase = c.dbase
Asked(c, d) == d.rq_rd /\ d.rq_seq = nextseq(c) /\ ~d.rd_rdy /\ ~d.rd_err

\* The card and the driver are in no read, or in no read any more.
Elsewhere(c, h, d, g) ==
    /\ KeepsRequest(c, d) /\ ~Awaiting(d) /\ d.state \notin {"S_TX", "S_TXCRC"}
    /\ d.state = "S_TOKEN" => g.op = "CMD9"
    /\ Awaiting(c) => c.rd_rdy \/ h.op = "CMD12"

AsksFirst(c, h, d, g) ==
    /\ c.state \in {"S_IDLE", "S_ARG"} /\ d.state = "S_NCR" /\ d.after = "S_NAC" /\ Asked(c, d)
    /\ g.ph = "r1" /\ g.op \in {"CMD17", "CMD18"}

AsksNext(c, h, d, g) ==
    /\ c.state = "S_TXCRC" /\ h.op \in {"CMD12", "CMD18"}
    /\ d.state = "S_MBGAP" /\ Asked(c, d)
    /\ g.ph # "r1"

TakesBlock(c, d, g) ==
    /\ c.state = "S_RX" /\ d.state \in {"S_RX", "S_RXCRC"} /\ g.ph = "put"
    /\ \/ KeepsRequest(c, d)
       \/ /\ d.rq_wr /\ d.rq_seq = nextseq(c)
          /\ d.rq_rd = c.rq_rd /\ d.rd_rdy = c.rd_rdy /\ d.rd_err = c.rd_err

\* A read whose answer the card awaits, and that the driver has not stopped.
Pending(h) == h.op \in {"CMD17", "CMD18"} /\ (h.ph = "r1" \/ (h.ph = "token" /\ h.got = <<>>))

StillAwaits(c, h, d, g) ==
    Awaiting(c) /\ Awaiting(d) /\ KeepsSector(c, d) /\ (Pending(h) => Pending(g))

GetsBlock(c, h, d, g) ==
    /\ Awaiting(c) /\ c.rd_rdy /\ ~c.rd_err /\ h.op # "CMD9"
    /\ d.state = "S_TOKEN" /\ KeepsSector(c, d)

SendsOn(c, h, d, g) ==
    /\ c.state \in Sent /\ d.state \in {"S_TX", "S_TXCRC"} /\ KeepsSector(c, d) /\ g.op = h.op
    /\ d.state = "S_TX" => c.state \in {"S_TOKEN", "S_TX"}
    /\ g.ph = "data" /\ d.state = "S_TX" =>
           \/ g.got = <<>> /\ d.dcnt = 0 /\ d.out = c.mem[c.dbase][0]
           \/ /\ c.state = "S_TX" /\ h.ph = "data" /\ g.got = Append(h.got, c.out)
              /\ Len(h.got) = c.dcnt /\ d.dcnt = c.dcnt + 1 /\ d.out = c.mem[c.dbase][c.dcnt + 1]
    /\ g.ph = "crc" /\ g.i = 0 =>
           /\ c.state = "S_TX" /\ h.ph = "data" /\ g.got = Append(h.got, c.out)
           /\ Len(h.got) = c.dcnt /\ c.dcnt + 1 = LenOf(h) /\ g.arg = h.arg

Moved(c, h, d, g) ==
    \/ Elsewhere(c, h, d, g) \/ AsksFirst(c, h, d, g) \/ AsksNext(c, h, d, g) \/ TakesBlock(c, d, g)
    \/ StillAwaits(c, h, d, g) \/ GetsBlock(c, h, d, g) \/ SendsOn(c, h, d, g)

LEMMA SameKeeps ==
  ASSUME NEW c, NEW d, NEW F, Same(c, d, F)
  PROVE  /\ F \cap Request = {} => KeepsRequest(c, d)
         /\ F \cap (Request \cup {"lba", "dbase"}) = {} => KeepsSector(c, d)
  BY DEF Same, KeepsRequest, KeepsSector, Request, Regs

LEMMA MovedIdle ==
  ASSUME NEW c, NEW h, NEW b, NEW g, Turning(c, h, b, g), c.state \in {"S_IDLE", "S_ARG"}
  PROVE  Moved(c, h, ByteStep(c, b), g)
<1> DEFINE d == ByteStep(c, b)  q == Quiet(c)
<1>1. DOMAIN c = Regs /\ c.attached /\ c.fcnt \in 0 .. FRAME - 1 BY DEF Turning, CardShape
<1>2. Same(c, q, {"out"}) BY <1>1, QuietIs
<1>3. ~Awaiting(c) BY DEF Awaiting, Reply
<1>4. \/ d = q
      \/ d.state = "S_ARG" /\ Same(c, d, {"out", "fcnt", "state"})
      \/ Same(c, d, {"out", "fcnt"})
      \/ c.fcnt = FRAME - 1 /\ d = Execute(q, OpOf(b), ArgOf(b))
  BY <1>1, StepCollect
<1> HIDE DEF d, q
<1> SUFFICES Moved(c, h, d, g) BY DEF d
<1>5. CASE d = q \/ Same(c, d, {"out", "fcnt"})
  <2>1. Same(c, d, {"out", "fcnt"}) BY <1>2, <1>5 DEF Same
  <2>2. d.state = c.state BY <2>1 DEF Same, Regs
  <2>3. KeepsRequest(c, d) BY <2>1, SameKeeps DEF Request
  <2> QED BY <2>2, <2>3, <1>3 DEF Moved, Elsewhere, Awaiting, Reply
<1>6. CASE d.state = "S_ARG" /\ Same(c, d, {"out", "fcnt", "state"})
  <2>1. KeepsRequest(c, d) BY <1>6, SameKeeps DEF Request
  <2> QED BY <2>1, <1>3, <1>6 DEF Moved, Elsewhere, Awaiting, Reply
<1>7. CASE c.fcnt = FRAME - 1 /\ d = Execute(q, OpOf(b), ArgOf(b))
  <2>1. Executed(q, d, OpOf(b), ArgOf(b))
    <3>1. DOMAIN q = Regs BY <1>2 DEF Same
    <3> QED BY <3>1, <1>7, ExecuteIs
  <2>2. d.state = "S_NCR" BY <2>1 DEF Executed
  <2>3. CASE d.after # "S_NAC"
    <3>1. Same(q, d, CmdRegs) \/ Same(q, d, CmdRegs \cup {"lba"}) BY <2>1, <2>3 DEF Executed
    <3>2. KeepsRequest(q, d) BY <3>1, SameKeeps DEF CmdRegs, Request
    <3>3. KeepsRequest(c, q) BY <1>2, SameKeeps DEF Request
    <3>4. KeepsRequest(c, d) BY <3>2, <3>3 DEF KeepsRequest
    <3> QED BY <3>4, <2>2, <2>3, <1>3 DEF Moved, Elsewhere, Awaiting, Reply
  <2>4. CASE d.after = "S_NAC"
    <3>1. /\ OpOf(b) \in {"CMD17", "CMD18"}
          /\ d.rq_rd /\ d.rq_seq = nextseq(q) /\ ~d.rd_rdy /\ ~d.rd_err
      BY <2>1, <2>4 DEF Executed
    <3>2. nextseq(q) = nextseq(c) BY <1>2 DEF Same, Regs, nextseq
    <3>3. h.ph = "frame" /\ b = Cmd(h.op, h.arg) /\ Kept(h, g, {"ph", "i"})
          /\ g.ph = (IF h.op = "CMD12" THEN "stuff" ELSE "r1")
      BY <3>1, <1>7, CommandIs
    <3>4. h.op = OpOf(b) /\ g.op = h.op BY <3>3 DEF OpOf, Cmd, Kept, HostRegs
    <3> QED BY <3>1, <3>2, <3>3, <3>4, <2>2, <2>4 DEF Moved, AsksFirst, Asked
  <2> QED BY <2>3, <2>4
<1> QED BY <1>4, <1>5, <1>6, <1>7

LEMMA MovedReply ==
  ASSUME NEW c, NEW h, NEW b, NEW g, Turning(c, h, b, g), c.state \in Reply
  PROVE  Moved(c, h, ByteStep(c, b), g)
<1> DEFINE d == ByteStep(c, b)
<1>1. DOMAIN c = Regs /\ c.attached /\ Turn(c, h, b, g) /\ Replying(c, h) /\ OutSays(c)
  BY DEF Turning, CardShape, Meets
<1>2. c.after \in {"S_IDLE", "S_BUSY", "S_TOKEN", "S_NAC", "S_RXWAIT"} BY <1>1 DEF Replying
<1>3. c.after = "S_NAC" => h.ph = "r1" /\ c.resp = "ok" /\ h.op \in {"CMD17", "CMD18"} BY <1>1 DEF Replying
<1>4. c.after = "S_TOKEN" => h.ph = "r1" /\ c.resp = "ok" /\ h.op = "CMD9" BY <1>1 DEF Replying
<1>5. CASE c.state = "S_NCR"
  <2>1. /\ Same(c, d, {"state", "out", "wcnt"}) /\ d.state \in Reply
    BY <1>1, <1>5, StepNcr DEF Reply
  <2> HIDE DEF d
  <2> SUFFICES Moved(c, h, d, g) BY DEF d
  <2>2. d.after = c.after BY <2>1 DEF Same, Regs
  <2>3. KeepsSector(c, d) /\ KeepsRequest(c, d) BY <2>1, SameKeeps DEF Request
  <2>4. d.state \in {"S_NCR", "S_RESP"} BY <2>1 DEF Reply
  <2>5. CASE c.after = "S_NAC"
    <3>1. c.out.t # "R1" BY <1>1, <1>5 DEF OutSays
    <3>2. g = h BY <3>1, <2>5, <1>1, <1>3 DEF Turn
    <3> QED BY <3>2, <2>1, <2>2, <2>3, <2>5 DEF Moved, StillAwaits, Awaiting
  <2>6. CASE c.after # "S_NAC"
    BY <2>2, <2>3, <2>4, <2>6, <1>5 DEF Moved, Elsewhere, Awaiting
  <2> QED BY <2>5, <2>6
<1>6. CASE c.state = "S_RESP"
  <2>1. /\ Same(c, d, {"state", "out", "wcnt", "dcnt", "dlen", "fcnt"}) /\ d.state = c.after
    BY <1>1, <1>6, StepResp
  <2> HIDE DEF d
  <2> SUFFICES Moved(c, h, d, g) BY DEF d
  <2>2. KeepsSector(c, d) /\ KeepsRequest(c, d) BY <2>1, SameKeeps DEF Request
  <2>3. c.out.t = "R1" /\ c.out.v = c.resp BY <1>1, <1>6 DEF OutSays, R1
  <2>4. c.after \in {"S_NAC", "S_TOKEN"} =>
           Kept(h, g, {"ph", "i", "got"}) /\ g.ph = "token" /\ g.i = 0 /\ g.got = <<>>
    BY <2>3, <1>1, <1>3, <1>4 DEF Turn, ReadOps
  <2>5. CASE c.after = "S_NAC"
    <3>1. g.op = h.op BY <2>4, <2>5 DEF Kept, HostRegs
    <3> QED BY <3>1, <2>1, <2>2, <2>4, <2>5, <1>3 DEF Moved, StillAwaits, Awaiting, Pending
  <2>6. CASE c.after = "S_TOKEN"
    <3>1. g.op = "CMD9" BY <2>4, <2>6, <1>4 DEF Kept, HostRegs
    <3> QED BY <3>1, <2>1, <2>2, <2>6, <1>6 DEF Moved, Elsewhere, Awaiting, Reply
  <2>7. CASE c.after \notin {"S_NAC", "S_TOKEN"}
    BY <2>1, <2>2, <2>7, <1>2, <1>6 DEF Moved, Elsewhere, Awaiting, Reply
  <2> QED BY <2>5, <2>6, <2>7
<1> QED BY <1>5, <1>6 DEF Reply

LEMMA MovedWrite ==
  ASSUME NEW c, NEW h, NEW b, NEW g, Turning(c, h, b, g),
         c.state \in {"S_RXWAIT", "S_RX", "S_RXCRC", "S_RXACK", "S_RXRESP", "S_BUSY"}
  PROVE  Moved(c, h, ByteStep(c, b), g)
<1> DEFINE d == ByteStep(c, b)  q == Quiet(c)
<1>1. DOMAIN c = Regs /\ c.attached /\ Turn(c, h, b, g) BY DEF Turning, CardShape
<1>2. ~Awaiting(c) BY DEF Awaiting, Reply
<1>3. ASSUME KeepsRequest(c, d),
             d.state \in {"S_RXWAIT", "S_RX", "S_RXCRC", "S_RXACK", "S_RXRESP", "S_BUSY", "S_IDLE"}
      PROVE  Moved(c, h, d, g)
  BY <1>2, <1>3 DEF Moved, Elsewhere, Awaiting, Reply
<1>4. CASE c.state = "S_RXWAIT"
  <2>1. \/ Same(c, d, {"out", "dcnt", "state"}) /\ d.state = "S_RX"
        \/ Same(c, d, {"out", "multi", "wcnt", "state"}) /\ d.state = "S_BUSY"
        \/ d = q
    BY <1>1, <1>4, StepRxWait
  <2>2. Same(c, q, {"out"}) BY <1>1, QuietIs
  <2> HIDE DEF d, q
  <2>3. KeepsRequest(c, d) BY <2>1, <2>2, SameKeeps DEF Request
  <2>4. d.state \in {"S_RX", "S_BUSY", "S_RXWAIT"} BY <2>1, <2>2, <1>4 DEF Same, Regs
  <2> QED BY <2>3, <2>4, <1>3 DEF d
<1>5. CASE c.state = "S_RX"
  <2>1. c.dcnt \in 0 .. BLK - 1 /\ h.ph = "put" /\ h.i = c.dcnt + 1
    BY <1>5, Sizes DEF Turning, Meets, Receiving, CardShape
  <2>2. g.ph = "put"
    <3>1. h.i # BLK + 2 BY <2>1, Sizes
    <3> QED BY <2>1, <3>1, <1>1 DEF Turn, Kept, HostRegs
  <2>3. /\ Same(c, d, {"state", "out", "dcnt", "mem", "rq_wr", "rq_seq", "wr_rdy", "wr_err"})
        /\ \/ Same(c, d, {"out", "dcnt", "mem"})
           \/ d.state = "S_RXCRC" /\ c.wp /\ Same(c, d, {"out", "state", "dcnt", "mem"})
           \/ d.state = "S_RXCRC" /\ ~c.wp /\ d.rq_wr /\ ~d.wr_rdy /\ d.rq_seq = nextseq(c)
    BY <1>1, <1>5, <2>1, RxIs
  <2> HIDE DEF d
  <2>4. d.rq_rd = c.rq_rd /\ d.rd_rdy = c.rd_rdy /\ d.rd_err = c.rd_err BY <2>3 DEF Same, Regs
  <2>5. d.state \in {"S_RX", "S_RXCRC"} BY <2>3, <1>5 DEF Same, Regs
  <2>6. \/ KeepsRequest(c, d)
        \/ d.rq_wr /\ d.rq_seq = nextseq(c)
    BY <2>3, SameKeeps DEF Request
  <2> QED BY <2>2, <2>4, <2>5, <2>6, <1>5 DEF Moved, TakesBlock, d
<1>6. CASE c.state \in {"S_RXCRC", "S_RXACK"}
  <2>1. Turning(c, h, b, g) /\ Storing(c) BY <1>6 DEF Storing
  <2>2. Same(c, d, {"state", "out", "dcnt"}) /\ (Storing(d) \/ d.state = "S_RXRESP")
    BY <2>1, StoringByte
  <2> HIDE DEF d
  <2>3. KeepsRequest(c, d) BY <2>2, SameKeeps DEF Request
  <2> QED BY <2>2, <2>3, <1>3 DEF Storing, d
<1>7. CASE c.state = "S_RXRESP"
  <2>1. Same(c, d, {"state", "out", "wcnt"}) /\ d.state = "S_BUSY" BY <1>1, <1>7, StepRxResp
  <2> HIDE DEF d
  <2>2. KeepsRequest(c, d) BY <2>1, SameKeeps DEF Request
  <2> QED BY <2>1, <2>2, <1>3 DEF d
<1>8. CASE c.state = "S_BUSY"
  <2>1. Same(c, d, {"state", "out", "wcnt", "lba", "fcnt"}) /\ d.state \in {"S_BUSY", "S_RXWAIT", "S_IDLE"}
    BY <1>1, <1>8, StepBusy
  <2> HIDE DEF d
  <2>2. KeepsRequest(c, d) BY <2>1, SameKeeps DEF Request
  <2> QED BY <2>1, <2>2, <1>3 DEF d
<1> QED BY <1>4, <1>5, <1>6, <1>7, <1>8

\* In a stream, and in a single block: what Flowed says, and where the driver goes.
LEMMA FlowTurn ==
  ASSUME NEW c, NEW h, NEW b, NEW g, Turning(c, h, b, g), c.state \in Flow,
         ~(Stopping(c, h) /\ h.ph = "stuff")
  PROVE  /\ \E n : Flowed(c, n) /\ \A r \in Regs \ {"fcnt", "stopnext"} : ByteStep(c, b)[r] = n[r]
         /\ \/ Reading(c, h)
            \/ h.op = "CMD12" /\ c.multi /\ g.op = "CMD12" /\ g.ph \in {"frame", "stuff"}
<1> DEFINE d == ByteStep(c, b)
<1>1. Stopping(c, h) \/ Reading(c, h) BY DEF Turning, Meets, Sending
<1>2. CASE Reading(c, h)
  <2>1. Flowed(c, d) BY <1>2, AtReading
  <2> QED BY <2>1, <1>2
<1>3. CASE Stopping(c, h) /\ h.ph = "frame"
  <2>1. PICK n : Flowed(c, n) /\ Heard(c, b, n, d) BY <1>3, AtStopping
  <2> HIDE DEF d
  <2>2. \A r \in Regs \ {"fcnt", "stopnext"} : d[r] = n[r] BY <2>1 DEF Heard, Same
  <2>3. h.op = "CMD12" /\ c.multi BY <1>3 DEF Stopping
  <2>4. g.op = "CMD12" /\ g.ph \in {"frame", "stuff"}
    BY <1>3, <2>3 DEF Turning, Turn, Kept, HostRegs
  <2> QED BY <2>1, <2>2, <2>3, <2>4 DEF d
<1> QED BY <1>1, <1>2, <1>3 DEF Stopping

LEMMA MovedStream ==
  ASSUME NEW c, NEW h, NEW b, NEW g, Turning(c, h, b, g), c.state \in Flow
  PROVE  Moved(c, h, ByteStep(c, b), g)
<1> DEFINE d == ByteStep(c, b)
<1>1. /\ DOMAIN c = Regs /\ c.attached /\ Turn(c, h, b, g) /\ OutSays(c) /\ Sending(c, h)
      /\ HostShape(h) /\ CardShape(c)
  BY DEF Turning, CardShape, Meets
<1>2. CASE Stopping(c, h) /\ h.ph = "stuff"
  <2>1. ~starts(b) BY <1>1, <1>2 DEF Turn, starts, Idle, Byte
  <2>2. /\ Same(c, d, {"out", "multi", "stopnext", "fcnt", "resp", "after", "wcnt", "state"})
        /\ d.state = "S_NCR" /\ d.after = "S_BUSY"
    BY <2>1, <1>1, <1>2, StepStop DEF Stopping
  <2> HIDE DEF d
  <2>3. KeepsRequest(c, d) BY <2>2, SameKeeps DEF Request
  <2> QED BY <2>2, <2>3, <1>2 DEF Moved, Elsewhere, Awaiting, Reply, Stopping, d
<1>3. CASE ~(Stopping(c, h) /\ h.ph = "stuff")
  <2>1. PICK n : Flowed(c, n) /\ \A r \in Regs \ {"fcnt", "stopnext"} : d[r] = n[r]
    BY <1>3, FlowTurn
  <2>2. \/ Reading(c, h)
        \/ h.op = "CMD12" /\ c.multi /\ g.op = "CMD12" /\ g.ph \in {"frame", "stuff"}
    BY <1>3, FlowTurn
  <2> HIDE DEF d
  <2> SUFFICES Moved(c, h, d, g) BY DEF d
  <2>3. /\ d.state = n.state /\ d.out = n.out /\ d.dcnt = n.dcnt /\ d.lba = n.lba /\ d.dbase = n.dbase
        /\ d.rq_rd = n.rq_rd /\ d.rq_seq = n.rq_seq /\ d.rd_rdy = n.rd_rdy /\ d.rd_err = n.rd_err
    BY <2>1 DEF Regs
  <2>4. ASSUME KeepsSector(c, n) PROVE KeepsSector(c, d) /\ KeepsRequest(c, d)
    BY <2>3, <2>4 DEF KeepsSector, KeepsRequest, Request
  <2>5. CASE c.state \in {"S_NAC", "S_MBGAP"}
    <3>1. Awaiting(c) BY <2>5 DEF Awaiting
    <3>2. h.op # "CMD9" BY <2>2, <2>5 DEF Reading
    <3>3. KeepsSector(c, n) BY <2>1, <2>5, SameKeeps DEF Flowed, Request
    <3>4. n.state \in {"S_NAC", "S_MBGAP"} \/ (n.state = "S_IDLE" /\ c.rd_rdy)
          \/ (n.state = "S_TOKEN" /\ c.rd_rdy /\ ~c.rd_err)
      BY <2>1, <2>5 DEF Flowed, Same, Regs
    <3>5. Pending(h) => Pending(g)
      <4>1. Pending(h) => h.ph = "token"
        BY <2>2, <2>5 DEF Pending, Reading
      <4>2. c.out.t \notin {"FE", "ERR"} BY <1>1, <2>5 DEF OutSays
      <4> QED BY <4>1, <4>2, <1>1 DEF Turn
    <3>6. CASE n.state \in {"S_NAC", "S_MBGAP"}
      <4>1. Awaiting(d) BY <3>6, <2>3 DEF Awaiting
      <4> QED BY <4>1, <3>1, <3>3, <3>5, <2>4 DEF Moved, StillAwaits
    <3>7. CASE n.state = "S_IDLE" /\ c.rd_rdy
      BY <3>3, <3>7, <2>3, <2>4 DEF Moved, Elsewhere, Awaiting, Reply
    <3>8. CASE n.state = "S_TOKEN" /\ c.rd_rdy /\ ~c.rd_err
      BY <3>1, <3>2, <3>3, <3>8, <2>3, <2>4 DEF Moved, GetsBlock
    <3> QED BY <3>4, <3>6, <3>7, <3>8
  <2>6. CASE c.state = "S_TOKEN"
    <3>1. n.state = "S_TX" /\ n.dcnt = 0 /\ n.out = c.mem[c.dbase][0] /\ Same(c, n, {"out", "state", "dcnt"})
      BY <2>1, <2>6 DEF Flowed
    <3>2. KeepsSector(c, d) BY <3>1, <2>4, SameKeeps DEF Request
    <3>3. \/ g.op = h.op /\ g.ph = "data" /\ g.got = <<>>
          \/ g.op = h.op /\ g.ph \in {"frame", "stuff"}
      <4>1. CASE Reading(c, h)
        <5>1. h.ph = "token" /\ c.out.t = "FE" BY <4>1, <2>6, <1>1 DEF Reading, OutSays
        <5> QED BY <5>1, <1>1 DEF Turn, Kept, HostRegs
      <4> QED BY <4>1, <2>2
    <3> QED BY <3>1, <3>2, <3>3, <2>3, <2>6 DEF Moved, SendsOn, Sent
  <2>7. CASE c.state = "S_TX"
    <3>1. \/ /\ c.dcnt + 1 >= c.dlen /\ n.state = "S_TXCRC" /\ Same(c, n, {"out", "state", "dcnt"})
          \/ /\ ~(c.dcnt + 1 >= c.dlen) /\ n.dcnt = c.dcnt + 1 /\ n.out = c.mem[c.dbase][c.dcnt + 1]
             /\ Same(c, n, {"out", "dcnt"})
      BY <2>1, <2>7 DEF Flowed
    <3>2. KeepsSector(c, d) BY <3>1, <2>4, SameKeeps DEF Request
    <3>3. \/ /\ h.ph = "data" /\ c.dcnt = Len(h.got) /\ c.dlen = LenOf(h) /\ g.got = Append(h.got, c.out)
             /\ g.op = h.op /\ g.arg = h.arg
             /\ Len(g.got) = LenOf(h) \/ (Len(g.got) # LenOf(h) /\ g.ph = "data")
          \/ g.op = h.op /\ g.ph \in {"frame", "stuff"}
      <4>1. CASE Reading(c, h)
        <5>1. h.ph = "data" /\ c.dcnt = Len(h.got) /\ c.dlen = LenOf(h) BY <4>1, <2>7 DEF Reading
        <5> QED BY <5>1, <1>1 DEF Turn, Kept, HostRegs
      <4> QED BY <4>1, <2>2
    <3>4. Len(h.got) = c.dcnt /\ g.got = Append(h.got, c.out) => Len(g.got) = c.dcnt + 1
      BY <1>1 DEF HostShape
    <3>5. CASE c.dcnt + 1 >= c.dlen /\ n.state = "S_TXCRC"
      <4>1. g.ph = "crc" /\ g.i = 0 =>
               /\ h.ph = "data" /\ g.got = Append(h.got, c.out) /\ Len(h.got) = c.dcnt
               /\ c.dcnt + 1 = LenOf(h) /\ g.arg = h.arg
        BY <3>3, <3>4
      <4> QED BY <4>1, <3>2, <3>3, <3>5, <2>3, <2>7 DEF Moved, SendsOn, Sent
    <3>6. CASE /\ ~(c.dcnt + 1 >= c.dlen) /\ n.dcnt = c.dcnt + 1 /\ n.out = c.mem[c.dbase][c.dcnt + 1]
               /\ Same(c, n, {"out", "dcnt"})
      <4>1. n.state = "S_TX" BY <3>6, <2>7 DEF Same, Regs
      <4>2. g.ph # "crc"
        <5>1. c.dlen = LenOf(h) => LenOf(h) # c.dcnt + 1
          BY <3>6, <1>1, Sizes DEF CardShape, LenOf
        <5> QED BY <5>1, <3>3, <3>4
      <4> QED BY <4>1, <4>2, <3>2, <3>3, <3>6, <2>3, <2>7 DEF Moved, SendsOn, Sent
    <3> QED BY <3>1, <3>5, <3>6
  <2>8. CASE c.state = "S_TXCRC"
    <3>1. h.op # "CMD12" => h.ph = "crc" /\ h.i = c.dcnt /\ (c.multi <=> h.op = "CMD18")
      BY <2>2, <2>8 DEF Reading
    <3>2. CASE c.dcnt = 0
      <4>1. n.dcnt = 1 /\ Same(c, n, {"out", "dcnt"}) BY <3>2, <2>1, <2>8 DEF Flowed
      <4>2. KeepsSector(c, d) BY <4>1, <2>4, SameKeeps DEF Request
      <4>3. d.state = "S_TXCRC" BY <4>1, <2>3, <2>8 DEF Same, Regs
      <4>4. g.op = h.op /\ g.ph # "data" /\ ~(g.ph = "crc" /\ g.i = 0)
        <5>1. CASE Reading(c, h)
          <6>1. h.ph = "crc" /\ h.i = 0 BY <5>1, <3>2, <2>8 DEF Reading
          <6> QED BY <6>1, <1>1 DEF Turn, Kept, HostRegs
        <5> QED BY <5>1, <2>2
      <4> QED BY <4>2, <4>3, <4>4, <2>8 DEF Moved, SendsOn, Sent
    <3>3. CASE c.dcnt # 0 /\ c.multi
      <4>1. /\ n.state = "S_MBGAP" /\ n.rq_rd /\ n.rq_seq = nextseq(c) /\ ~n.rd_rdy /\ ~n.rd_err
        BY <3>3, <2>1, <2>8 DEF Flowed
      <4>2. g.ph # "r1"
        <5>1. CASE Reading(c, h)
          <6>1. h.ph = "crc" /\ h.i # 0 BY <5>1, <3>3, <2>8 DEF Reading
          <6> QED BY <6>1, <1>1 DEF Turn, Kept, HostRegs, Rests
        <5> QED BY <5>1, <2>2
      <4>3. h.op \in {"CMD12", "CMD18"} BY <3>3, <2>2 DEF Reading
      <4> QED BY <4>1, <4>2, <4>3, <2>3, <2>8 DEF Moved, AsksNext, Asked
    <3>4. CASE c.dcnt # 0 /\ ~c.multi
      <4>1. n.state = "S_IDLE" /\ Same(c, n, {"out", "dcnt", "stopnext", "fcnt", "state"})
        BY <3>4, <2>1, <2>8 DEF Flowed
      <4>2. KeepsRequest(c, d) BY <4>1, <2>4, SameKeeps DEF Request
      <4>3. ~Awaiting(c) BY <2>8 DEF Awaiting, Reply
      <4> QED BY <4>1, <4>2, <4>3, <2>3 DEF Moved, Elsewhere, Awaiting, Reply
    <3> QED BY <3>2, <3>3, <3>4
  <2> QED BY <2>5, <2>6, <2>7, <2>8 DEF Flow
<1> QED BY <1>2, <1>3

LEMMA Moves ==
  ASSUME NEW c, NEW h, NEW b, NEW g, Turning(c, h, b, g)
  PROVE  Moved(c, h, ByteStep(c, b), g)
<1>1. c.state \in CardStates BY DEF Turning, CardShape
<1> QED BY <1>1, MovedIdle, MovedReply, MovedWrite, MovedStream DEF CardStates

-----------------------------------------------------------------------------
(* Reads: the invariant *)

Serving == arm.kind = "rd" /\ arm.ph \in {"lba", "fetch", "fill", "ackrd"}

\* A read request is up while the ARM serves one, though it may be a later
\* one; what the ARM fills is the buffer that the card does not send from.
Serves(c) ==
    /\ flag.rd /\ ~c.rq_rd /\ c.attached => arm.ph = "wait" /\ arm.kind = "rd"
    /\ c.rq_rd => ~c.rd_rdy /\ c.attached
    /\ Serving => c.rq_rd /\ arm.buf = other(c.rbuf)
    /\ arm.ph \in {"fill", "ackrd"} /\ ~arm.err => arm.dat = Content(arm.lba)
    /\ arm.ph = "fill" => \A i \in 0 .. BLK - 1 : i < arm.i => c.mem[arm.buf][i] = arm.dat[i]
    /\ arm.ph = "ackrd" => c.mem[arm.buf] = arm.dat

Holds(c) == c.dbase = c.rbuf /\ c.mem[c.dbase] = Content(c.lba)

\* The ARM serves a request that the card does not hold any more.
Stale(c) == Serving /\ arm.seq # c.rq_seq

\* An answer that fits the card's request by its number fits it by its
\* sector: no request is given up while the ARM serves an older one still,
\* so that the number cannot come round.
Fits(c, h) ==
    /\ Awaiting(c) => c.rq_rd \/ c.rd_rdy
    /\ Awaiting(c) /\ Serving /\ ~Stale(c) /\ arm.ph # "lba" => arm.lba = c.lba
    /\ Stale(c) => c.rq_wr \/ (Awaiting(c) /\ Pending(h))
    /\ Awaiting(c) /\ c.rd_rdy /\ ~c.rd_err => Holds(c)

\* From the buffer to the driver.
Delivers(c, h) ==
    h.op # "CMD9" =>
        /\ c.state \in Sent => ~c.rq_rd
        /\ c.state \in {"S_TOKEN", "S_TX"} => Holds(c)
        /\ c.state = "S_TX" /\ h.ph = "data" =>
               /\ c.out = c.mem[c.dbase][c.dcnt]
               /\ \A i \in 1 .. Len(h.got) : h.got[i] = Content(c.lba)[i - 1]
        /\ c.attached /\ h.ph = "crc" /\ h.i = 0 =>
               /\ Len(h.got) = BLK
               /\ \A i \in 1 .. BLK : h.got[i] = Content(h.arg)[i - 1]

Reads == Serves(card) /\ Fits(card, host) /\ Delivers(card, host)

\* Two numbers in a row differ.
LEMMA NextSeq ==
  ASSUME NEW c, c.rq_seq \in Nat, SEQMOD > 1
  PROVE  nextseq(c) # c.rq_seq
<1>1. SEQMOD \in Nat BY Sizes
<1> DEFINE s == c.rq_seq  m == SEQMOD
<1> HIDE DEF s, m
<1>2. ASSUME s \in Nat, m \in Nat, m > 1 PROVE (s + 1) % m # s
  <2>1. CASE s + 1 < m
    <3>1. (s + 1) % m = s + 1 BY <1>2, <2>1
    <3> QED BY <3>1, <1>2
  <2>2. CASE s + 1 >= m
    <3>1. (s + 1) % m \in 0 .. m - 1 BY <1>2
    <3>2. CASE s + 1 = m
      <4>1. (s + 1) % m = 0 BY <3>2, <1>2
      <4> QED BY <4>1, <3>2, <1>2
    <3>3. CASE s + 1 > m BY <3>1, <3>3, <1>2
    <3> QED BY <3>2, <3>3, <2>2, <1>2
  <2> QED BY <2>1, <2>2, <1>2
<1> QED BY <1>1, <1>2 DEF nextseq, s, m

\* What the ARM relies on: a byte takes no request down, and no read buffer's
\* contents.
LEMMA ByteSpares ==
  ASSUME NEW c, NEW h, NEW b, NEW g, Turning(c, h, b, g)
  PROVE  LET d == ByteStep(c, b) IN
         /\ d.rbuf = c.rbuf /\ d.attached
         /\ d.mem["RDA"] = c.mem["RDA"] /\ d.mem["RDB"] = c.mem["RDB"]
         /\ c.state # "S_RX" => d.mem = c.mem
         /\ \/ d.rq_rd = c.rq_rd /\ d.rd_rdy = c.rd_rdy
            \/ d.rq_rd /\ ~d.rd_rdy
<1> DEFINE d == ByteStep(c, b)
<1>1. CardShape(c) /\ HostShape(h) /\ Meets(c, h) /\ Turn(c, h, b, g) /\ c.attached BY DEF Turning
<1>2. d.rbuf = c.rbuf /\ d.attached BY <1>1, Untouched
<1>3. c.state # "S_RX" => d.mem = c.mem BY <1>1, Untouched DEF Spared
<1>4. d.mem["RDA"] = c.mem["RDA"] /\ d.mem["RDB"] = c.mem["RDB"]
  <2>1. CASE c.state = "S_RX"
    <3>1. c.dcnt \in 0 .. BLK - 1 BY <1>1, <2>1, Sizes DEF Meets, Receiving, CardShape
    <3>2. DOMAIN c = Regs BY <1>1 DEF CardShape
    <3>3. d.mem = [c.mem EXCEPT !.WR[c.dcnt] = b] BY <1>1, <2>1, <3>1, <3>2, StepRx
    <3>4. c.mem \in Memory BY <1>1 DEF CardShape
    <3> HIDE DEF d
    <3> QED BY <3>3, <3>4 DEF Memory
  <2> QED BY <2>1, <1>3
<1>5. Moved(c, h, d, g) BY Moves
<1> HIDE DEF d
<1>6. \/ d.rq_rd = c.rq_rd /\ d.rd_rdy = c.rd_rdy
      \/ d.rq_rd /\ ~d.rd_rdy
  <2>1. CASE Elsewhere(c, h, d, g) BY <2>1 DEF Elsewhere, KeepsRequest, Request
  <2>2. CASE AsksFirst(c, h, d, g) BY <2>2 DEF AsksFirst, Asked
  <2>3. CASE AsksNext(c, h, d, g) BY <2>3 DEF AsksNext, Asked
  <2>4. CASE TakesBlock(c, d, g) BY <2>4 DEF TakesBlock, KeepsRequest, Request
  <2>5. CASE StillAwaits(c, h, d, g) BY <2>5 DEF StillAwaits, KeepsSector, KeepsRequest, Request
  <2>6. CASE GetsBlock(c, h, d, g) BY <2>6 DEF GetsBlock, KeepsSector, KeepsRequest, Request
  <2>7. CASE SendsOn(c, h, d, g) BY <2>7 DEF SendsOn, KeepsSector, KeepsRequest, Request
  <2> QED BY <2>1, <2>2, <2>3, <2>4, <2>5, <2>6, <2>7, <1>5 DEF Moved
<1> QED BY <1>2, <1>3, <1>4, <1>6 DEF d

LEMMA ServesByte ==
  ASSUME NEW c, NEW h, NEW b, NEW g, Turning(c, h, b, g), arm.buf \in ReadBuffers, Serves(c)
  PROVE  Serves(ByteStep(c, b))
<1> DEFINE d == ByteStep(c, b)
<1>1. /\ d.rbuf = c.rbuf /\ d.attached
      /\ d.mem["RDA"] = c.mem["RDA"] /\ d.mem["RDB"] = c.mem["RDB"]
      /\ \/ d.rq_rd = c.rq_rd /\ d.rd_rdy = c.rd_rdy
         \/ d.rq_rd /\ ~d.rd_rdy
  BY ByteSpares
<1>2. c.attached BY DEF Turning
<1> HIDE DEF d
<1>3. d.mem[arm.buf] = c.mem[arm.buf] BY <1>1 DEF ReadBuffers
<1>4. Serves(d) BY <1>1, <1>2, <1>3 DEF Serves
<1> QED BY <1>4 DEF d

LEMMA FitsByte ==
  ASSUME NEW c, NEW h, NEW b, NEW g, Turning(c, h, b, g), SEQMOD > 1,
         Answers(c, h), Serves(c), Fits(c, h), Delivers(c, h)
  PROVE  Fits(ByteStep(c, b), g)
<1> DEFINE d == ByteStep(c, b)
<1>1. Moved(c, h, d, g) BY Moves
<1>2. CardShape(c) /\ HostShape(h) /\ Meets(c, h) /\ Turn(c, h, b, g) BY DEF Turning
<1>3. c.rq_wr => d.rq_wr
  <2>1. c.rq_wr => Same(c, d, {"state", "out", "dcnt"}) BY <1>2, AnswersByte
  <2> HIDE DEF d
  <2> QED BY <2>1 DEF Same, Regs
<1>4. d.rbuf = c.rbuf /\ (c.state # "S_RX" => d.mem = c.mem) BY ByteSpares
<1> HIDE DEF d
<1> SUFFICES Fits(d, g) BY DEF d
<1>5. Serving => c.rq_rd /\ ~c.rd_rdy BY DEF Serves
<1>6. c.rq_wr => c.state \in {"S_RXCRC", "S_RXACK"} BY DEF Answers, Storing
<1>7. Pending(h) => h.op # "CMD12" BY DEF Pending
<1>8. CASE Elsewhere(c, h, d, g)
  <2>1. d.rq_seq = c.rq_seq /\ ~Awaiting(d) /\ (Awaiting(c) => c.rd_rdy \/ h.op = "CMD12")
    BY <1>8 DEF Elsewhere, KeepsRequest, Request
  <2>2. Stale(d) => d.rq_wr BY <2>1, <1>3, <1>5, <1>7 DEF Stale, Fits
  <2> QED BY <2>1, <2>2 DEF Fits
<1>9. CASE AsksFirst(c, h, d, g)
  <2>1. /\ c.state \in {"S_IDLE", "S_ARG"} /\ Awaiting(d) /\ d.rq_rd /\ ~d.rd_rdy
        /\ d.rq_seq = nextseq(c) /\ Pending(g)
    BY <1>9 DEF AsksFirst, Asked, Awaiting, Reply, Pending
  <2>2. ~Stale(c) BY <2>1, <1>6 DEF Fits, Awaiting, Reply
  <2>3. Serving => Stale(d)
    <3>1. c.rq_seq \in Nat BY <1>2 DEF CardShape
    <3>2. nextseq(c) # c.rq_seq BY <3>1, NextSeq
    <3> QED BY <3>2, <2>1, <2>2 DEF Stale
  <2> QED BY <2>1, <2>3 DEF Fits, Stale
<1>10. CASE AsksNext(c, h, d, g)
  <2>1. ~c.rq_rd BY <1>10 DEF AsksNext, Delivers, Sent
  <2>2. ~Serving BY <2>1, <1>5
  <2>3. d.rq_rd /\ ~d.rd_rdy BY <1>10 DEF AsksNext, Asked
  <2> QED BY <2>2, <2>3 DEF Fits, Stale
<1>11. CASE TakesBlock(c, d, g)
  <2>1. c.state = "S_RX" /\ ~Awaiting(d) /\ ~Awaiting(c) BY <1>11 DEF TakesBlock, Awaiting, Reply
  <2>2. ~Stale(c) BY <2>1, <1>6 DEF Fits
  <2>3. d.rq_wr \/ d.rq_seq = c.rq_seq BY <1>11 DEF TakesBlock, KeepsRequest, Request
  <2> QED BY <2>1, <2>2, <2>3 DEF Fits, Stale
<1>12. CASE StillAwaits(c, h, d, g)
  <2>1. /\ Awaiting(c) /\ Awaiting(d) /\ (Pending(h) => Pending(g))
        /\ d.rq_rd = c.rq_rd /\ d.rq_seq = c.rq_seq /\ d.rd_rdy = c.rd_rdy /\ d.rd_err = c.rd_err
        /\ d.lba = c.lba /\ d.dbase = c.dbase
    BY <1>12 DEF StillAwaits, KeepsSector, KeepsRequest, Request
  <2>2. c.state # "S_RX" BY <2>1 DEF Awaiting, Reply
  <2>3. Holds(c) => Holds(d) BY <2>1, <2>2, <1>4 DEF Holds
  <2>4. Stale(d) <=> Stale(c) BY <2>1 DEF Stale
  <2> QED BY <2>1, <2>3, <2>4, <1>3 DEF Fits
<1>13. CASE GetsBlock(c, h, d, g)
  <2>1. c.rd_rdy /\ d.state = "S_TOKEN" BY <1>13 DEF GetsBlock
  <2>2. ~Serving BY <2>1, <1>5
  <2> QED BY <2>1, <2>2 DEF Fits, Stale, Awaiting, Reply
<1>14. CASE SendsOn(c, h, d, g)
  <2>1. c.state \in Sent /\ d.state \in {"S_TX", "S_TXCRC"} /\ d.rq_seq = c.rq_seq
    BY <1>14 DEF SendsOn, KeepsSector, KeepsRequest, Request
  <2>2. ~Awaiting(c) /\ ~Awaiting(d) BY <2>1 DEF Awaiting, Reply, Sent
  <2>3. Stale(d) => d.rq_wr BY <2>1, <2>2, <1>3 DEF Stale, Fits
  <2> QED BY <2>2, <2>3 DEF Fits
<1> QED BY <1>1, <1>8, <1>9, <1>10, <1>11, <1>12, <1>13, <1>14 DEF Moved

LEMMA DeliversByte ==
  ASSUME NEW c, NEW h, NEW b, NEW g, Turning(c, h, b, g), Serves(c), Fits(c, h), Delivers(c, h)
  PROVE  Delivers(ByteStep(c, b), g)
<1> DEFINE d == ByteStep(c, b)
<1>1. Moved(c, h, d, g) BY Moves
<1>2. CardShape(c) /\ HostShape(h) /\ Meets(c, h) /\ Turn(c, h, b, g) BY DEF Turning
<1>3. d.rbuf = c.rbuf /\ d.attached /\ (c.state # "S_RX" => d.mem = c.mem) BY ByteSpares
<1>4. g.ph = "crc" => d.state = "S_TXCRC"
  <2>1. Meets(d, g) BY <1>2, Exchanged
  <2> HIDE DEF d
  <2> QED BY <2>1, <1>3 DEF Meets, Sending
<1> HIDE DEF d
<1> SUFFICES Delivers(d, g) BY DEF d
<1>5. CASE Elsewhere(c, h, d, g)
  BY <1>4, <1>5 DEF Elsewhere, Delivers, Sent
<1>6. CASE AsksFirst(c, h, d, g)
  BY <1>4, <1>6 DEF AsksFirst, Delivers, Sent
<1>7. CASE AsksNext(c, h, d, g)
  BY <1>4, <1>7 DEF AsksNext, Delivers, Sent
<1>8. CASE TakesBlock(c, d, g)
  BY <1>4, <1>8 DEF TakesBlock, Delivers, Sent
<1>9. CASE StillAwaits(c, h, d, g)
  BY <1>4, <1>9 DEF StillAwaits, Awaiting, Reply, Delivers, Sent
<1>10. CASE GetsBlock(c, h, d, g)
  <2>1. /\ Awaiting(c) /\ c.rd_rdy /\ ~c.rd_err /\ d.state = "S_TOKEN"
        /\ d.rq_rd = c.rq_rd /\ d.lba = c.lba /\ d.dbase = c.dbase
    BY <1>10 DEF GetsBlock, KeepsSector, KeepsRequest, Request
  <2>2. ~d.rq_rd BY <2>1 DEF Serves
  <2>3. c.state # "S_RX" BY <2>1 DEF Awaiting, Reply
  <2>4. Holds(c) BY <2>1 DEF Fits
  <2>5. Holds(d) BY <2>1, <2>3, <2>4, <1>3 DEF Holds
  <2> QED BY <2>1, <2>2, <2>5, <1>4 DEF Delivers
<1>11. CASE SendsOn(c, h, d, g)
  <2> SUFFICES ASSUME g.op # "CMD9" PROVE Delivers(d, g)
    BY DEF Delivers
  <2>1. /\ c.state \in Sent /\ d.state \in {"S_TX", "S_TXCRC"} /\ h.op # "CMD9"
        /\ d.rq_rd = c.rq_rd /\ d.lba = c.lba /\ d.dbase = c.dbase
        /\ d.state = "S_TX" => c.state \in {"S_TOKEN", "S_TX"}
    BY <1>11 DEF SendsOn, KeepsSector, KeepsRequest, Request
  <2>2. d.mem = c.mem BY <2>1, <1>3 DEF Sent
  <2>3. ~d.rq_rd BY <2>1 DEF Delivers
  <2>4. d.state = "S_TX" => Holds(d) BY <2>1, <2>2, <1>3 DEF Delivers, Holds
  <2>5. ASSUME c.state = "S_TX", h.ph = "data", g.got = Append(h.got, c.out), Len(h.got) = c.dcnt
        PROVE  /\ Len(g.got) = c.dcnt + 1
               /\ \A i \in 1 .. Len(g.got) : g.got[i] = Content(c.lba)[i - 1]
    <3>1. /\ c.out = Content(c.lba)[c.dcnt]
          /\ \A i \in 1 .. Len(h.got) : h.got[i] = Content(c.lba)[i - 1]
      BY <2>1, <2>5 DEF Delivers, Holds
    <3>2. h.got \in Seq(OutByte) BY <1>2 DEF HostShape
    <3> DEFINE s == h.got  x == c.out  n == Len(s)
    <3>3. Len(g.got) = n + 1 /\ n \in Nat BY <2>5, <3>2
    <3>4. ASSUME NEW i \in 1 .. n + 1 PROVE g.got[i] = Content(c.lba)[i - 1]
      <4>1. CASE i = n + 1
        <5>1. g.got[i] = c.out BY <4>1, <2>5, <3>2
        <5>2. i - 1 = c.dcnt BY <4>1, <3>3, <2>5
        <5> QED BY <5>1, <5>2, <3>1
      <4>2. CASE i # n + 1
        <5>1. i \in 1 .. n BY <4>2, <3>3, <3>4
        <5>2. g.got[i] = h.got[i] BY <5>1, <2>5, <3>2
        <5> QED BY <5>1, <5>2, <3>1
      <4> QED BY <4>1, <4>2
    <3> QED BY <3>3, <3>4, <2>5
  <2>6. d.state = "S_TX" /\ g.ph = "data" =>
           /\ d.out = d.mem[d.dbase][d.dcnt]
           /\ \A i \in 1 .. Len(g.got) : g.got[i] = Content(d.lba)[i - 1]
    <3> SUFFICES ASSUME d.state = "S_TX", g.ph = "data"
                 PROVE  /\ d.out = d.mem[d.dbase][d.dcnt]
                        /\ \A i \in 1 .. Len(g.got) : g.got[i] = Content(d.lba)[i - 1]
      OBVIOUS
    <3>1. CASE g.got = <<>> /\ d.dcnt = 0 /\ d.out = c.mem[c.dbase][0]
      <4>1. 1 .. Len(g.got) = {} BY <3>1
      <4> QED BY <4>1, <3>1, <2>1, <2>2
    <3>2. CASE /\ c.state = "S_TX" /\ h.ph = "data" /\ g.got = Append(h.got, c.out)
               /\ Len(h.got) = c.dcnt /\ d.dcnt = c.dcnt + 1 /\ d.out = c.mem[c.dbase][c.dcnt + 1]
      BY <3>2, <2>1, <2>2, <2>5
    <3> QED BY <3>1, <3>2, <1>11 DEF SendsOn
  <2>7. g.ph = "crc" /\ g.i = 0 =>
           Len(g.got) = BLK /\ \A i \in 1 .. BLK : g.got[i] = Content(g.arg)[i - 1]
    <3> SUFFICES ASSUME g.ph = "crc", g.i = 0
                 PROVE  Len(g.got) = BLK /\ \A i \in 1 .. BLK : g.got[i] = Content(g.arg)[i - 1]
      OBVIOUS
    <3>1. /\ c.state = "S_TX" /\ h.ph = "data" /\ g.got = Append(h.got, c.out)
          /\ Len(h.got) = c.dcnt /\ c.dcnt + 1 = LenOf(h) /\ g.arg = h.arg
      BY <1>11 DEF SendsOn
    <3>2. LenOf(h) = BLK BY <2>1 DEF LenOf
    <3>3. h.arg = c.lba
      BY <3>1, <2>1, <1>2 DEF Meets, Sending, Flow, Stopping, Reading
    <3> QED BY <3>1, <3>2, <3>3, <2>5
  <2> QED BY <2>3, <2>4, <2>6, <2>7, <2>1 DEF Delivers
<1> QED BY <1>1, <1>5, <1>6, <1>7, <1>8, <1>9, <1>10, <1>11 DEF Moved

LEMMA ReadsExchange ==
  ASSUME SEQMOD > 1, Protocol, Writes, Reads,
         NEW b, card' = ByteStep(card, b), Turn(card, host, b, host'), UNCHANGED <<flag, arm, disk>>
  PROVE  Reads'
<1>1. CardShape(card) /\ HostShape(host) /\ Meets(card, host) /\ ArmShape BY DEF Protocol
<1>2. PICK d, g : d = card' /\ g = host' OBVIOUS
<1>3. Serves(card) /\ Fits(card, host) /\ Delivers(card, host) /\ Answers(card, host)
  BY DEF Reads, Writes
<1>4. Serves(d) /\ Fits(d, g) /\ Delivers(d, g)
  <2>1. CASE card.attached
    <3>1. Turning(card, host, b, g) BY <1>1, <1>2, <2>1 DEF Turning
    <3>2. arm.buf \in ReadBuffers BY <1>1 DEF ArmShape
    <3> QED BY <3>1, <3>2, <1>2, <1>3, ServesByte, FitsByte, DeliversByte
  <2>2. CASE ~card.attached
    <3>1. arm.ph = "idle" /\ card.state = "S_IDLE" BY <2>2, <1>1 DEF ArmShape, Meets, OutOfCard
    <3>2. Same(card, d, {"out"}) BY <1>1, <1>2, <2>2, StepOut, QuietIs DEF CardShape
    <3>3. d.state = "S_IDLE" /\ ~d.attached /\ d.rq_rd = card.rq_rd
      BY <3>1, <3>2, <2>2 DEF Same, Regs
    <3>4. ~d.rq_rd BY <3>3, <2>2, <1>3 DEF Serves
    <3>5. Serves(d) BY <3>1, <3>3, <3>4 DEF Serves, Serving
    <3>6. Fits(d, g) BY <3>1, <3>3 DEF Fits, Serving, Stale, Awaiting, Reply
    <3>7. Delivers(d, g) BY <3>3 DEF Delivers, Sent
    <3> QED BY <3>5, <3>6, <3>7
  <2> QED BY <2>1, <2>2
<1>5. Serves(card)' BY <1>2, <1>4 DEF Serves, Serving, Content
<1>6. Fits(card, host)' BY <1>2, <1>4 DEF Fits, Serving, Stale, Holds, Content
<1>7. Delivers(card, host)' BY <1>2, <1>4 DEF Delivers, Holds, Content
<1> QED BY <1>5, <1>6, <1>7 DEF Reads

\* A driver that waits for no first block lets no request be served that is
\* not the card's.
LEMMA NotStale ==
  ASSUME Protocol, Writes, Reads, ~Pending(host), host.ph \notin {"put", "resp"}
  PROVE  ~Stale(card)
<1>1. ~card.rq_wr BY NoWrite
<1> QED BY <1>1 DEF Reads, Fits

LEMMA ReadsQuiet ==
  ASSUME Protocol, Reads, UNCHANGED <<card, flag, arm, disk>>, ~Stale(card),
         host'.ph \in {"frame", "put"}, card.state \in Flow => host.op # "CMD9"
  PROVE  Reads'
<1>1. PICK g : g = host' OBVIOUS
<1>2. Serves(card) /\ Fits(card, host) /\ Delivers(card, host) BY DEF Reads
<1>3. Fits(card, g) BY <1>2 DEF Fits
<1>4. Delivers(card, g) BY <1>1, <1>2 DEF Delivers, Sent, Flow
<1>5. Serves(card)' BY <1>2 DEF Serves, Serving, Content
<1>6. Fits(card, host)' BY <1>1, <1>3 DEF Fits, Serving, Stale, Holds, Content
<1>7. Delivers(card, host)' BY <1>1, <1>4 DEF Delivers, Holds, Content
<1> QED BY <1>5, <1>6, <1>7 DEF Reads

LEMMA ReadsHost ==
  ASSUME SEQMOD > 1, ~EagerStops, Protocol, Writes, Reads, Host
  PROVE  Reads'
<1>1. CardShape(card) /\ HostShape(host) /\ Meets(card, host) BY DEF Protocol
<1>2. CASE StartInit \/ StartOp
  <2>1. UNCHANGED <<card, flag, arm, disk>> /\ host'.ph = "frame" BY <1>1, <1>2, StartsIs
  <2>2. host.ph = "idle" BY <1>2 DEF StartInit, StartOp
  <2>3. ~Stale(card) BY <2>2, NotStale DEF Pending
  <2>4. card.state \notin Flow BY <2>2, <1>1, Resting DEF Flow
  <2> QED BY <2>1, <2>3, <2>4, ReadsQuiet
<1>3. CASE StopStream
  <2>1. UNCHANGED <<card, flag, arm, disk>> /\ host'.ph = "frame" BY <1>1, <1>3, StartsIs
  <2>2. /\ host.op = "CMD18" /\ host.ph \in {"token", "data", "crc"}
        /\ host.ph # "token" \/ host.got # <<>>
    BY <1>3 DEF StopStream
  <2>3. ~Stale(card) BY <2>2, NotStale DEF Pending
  <2> QED BY <2>1, <2>2, <2>3, ReadsQuiet
<1>4. CASE \/ HostByte
           \/ host.ph = "more" /\ Exchange(Byte("FD"), [To("busy") EXCEPT !.op = "STOP"])
  <2>1. Turned BY <1>1, <1>4, Turns
  <2> QED BY <2>1, ReadsExchange DEF Turned
<1>5. CASE /\ UNCHANGED <<card, flag, arm, disk>> /\ HostShape(host)' /\ host.ph = "more"
           /\ host'.ph = "put" /\ host'.i = 0 /\ host'.op = host.op /\ host'.arg = host.arg + 1
  <2>1. ~Stale(card) BY <1>5, NotStale DEF Pending
  <2>2. card.state \notin Flow BY <1>5, <1>1, Resting DEF Flow
  <2> QED BY <2>1, <2>2, <1>5, ReadsQuiet
<1> QED BY <1>1, <1>2, <1>3, <1>4, <1>5, NextBlockIs DEF Host

\* Where the driver has a block, or waits for one, none is being stored.
LEMMA NotStoring ==
  ASSUME Protocol, Storing(card)
  PROVE  ~Awaiting(card) /\ card.state \notin Sent /\ host.ph # "crc"
  BY DEF Protocol, Meets, Receiving, Storing, Awaiting, Reply, Sent

LEMMA ReadsArm == Protocol /\ Writes /\ Reads /\ Pump => Reads'
<1> SUFFICES ASSUME Protocol, Writes, Reads, Pump PROVE Reads'
  OBVIOUS
<1>1. CardShape(card) /\ HostShape(host) /\ Meets(card, host) /\ ArmShape BY DEF Protocol
<1>2. card.attached BY DEF Pump
<1>3. Serves(card) /\ Fits(card, host) /\ Delivers(card, host) BY DEF Reads
<1>4. CASE dm_stat_rq
  <2>1. arm.ph = "idle" /\ (flag.rd \/ flag.wr) /\ UNCHANGED <<card, flag, disk, host>>
        /\ arm'.ph = "lba" /\ arm'.kind = (IF flag.rd THEN "rd" ELSE "wr") /\ arm'.seq = card.rq_seq
        /\ arm'.buf = other(card.rbuf)
    BY <1>1, <1>4, StatIs
  <2>2. flag.rd => card.rq_rd BY <2>1, <1>2, <1>3 DEF Serves
  <2>3. Serves(card)' BY <2>1, <2>2, <1>3 DEF Serves, Serving, other
  <2>4. Fits(card, host)' BY <2>1, <1>3 DEF Fits, Serving, Stale, Holds, Content
  <2>5. Delivers(card, host)' BY <2>1, <1>3 DEF Delivers, Holds, Content
  <2> QED BY <2>3, <2>4, <2>5 DEF Reads
<1>5. CASE read_lba
  <2>1. /\ UNCHANGED <<card, flag, disk, host>>
        /\ arm.ph = "lba" /\ arm'.ph = (IF arm.kind = "rd" THEN "fetch" ELSE "pull") /\ arm'.lba = card.lba
        /\ arm'.kind = arm.kind /\ arm'.seq = arm.seq /\ arm'.buf = arm.buf
    BY <1>1, <1>5, LbaIs
  <2>2. Serves(card)' BY <2>1, <1>2, <1>3 DEF Serves, Serving, other
  <2>3. Fits(card, host)' BY <2>1, <1>3 DEF Fits, Serving, Stale, Holds, Content
  <2>4. Delivers(card, host)' BY <2>1, <1>3 DEF Delivers, Holds, Content
  <2> QED BY <2>2, <2>3, <2>4 DEF Reads
<1>6. CASE backend_read
  <2>1. /\ UNCHANGED <<card, flag, disk, host>>
        /\ arm.ph = "fetch" /\ arm'.ph = "fill" /\ arm'.i = 0
        /\ arm'.kind = arm.kind /\ arm'.seq = arm.seq /\ arm'.buf = arm.buf /\ arm'.lba = arm.lba
        /\ ~arm'.err => arm'.dat = Content(arm.lba)
    BY <1>1, <1>6, FetchIs DEF ArmShape
  <2>2. \A i \in 0 .. BLK - 1 : ~(i < arm'.i) BY <2>1, Sizes
  <2>3. arm.kind = "rd" BY <1>1, <2>1 DEF ArmShape
  <2>4. Serves(card)' BY <2>1, <2>2, <2>3, <1>2, <1>3 DEF Serves, Serving, other, Content
  <2>5. Fits(card, host)' BY <2>1, <1>3 DEF Fits, Serving, Stale, Holds, Content
  <2>6. Delivers(card, host)' BY <2>1, <1>3 DEF Delivers, Holds, Content
  <2> QED BY <2>4, <2>5, <2>6 DEF Reads
<1>7. CASE dm_wrbuf
  <2>1. PICK d, a : d = card' /\ a = arm' OBVIOUS
  <2>2. /\ UNCHANGED <<flag, disk, host>>
        /\ arm.ph = "fill" /\ a.ph = (IF arm.i = BLK - 1 THEN "ackrd" ELSE "fill") /\ a.i = arm.i + 1
        /\ a.kind = "rd" /\ a.seq = arm.seq /\ a.buf = arm.buf /\ a.lba = arm.lba
        /\ a.dat = arm.dat /\ a.err = arm.err /\ arm.kind = "rd" /\ arm.i \in 0 .. BLK - 1
        /\ Same(card, d, {"mem"}) /\ d.mem = [card.mem EXCEPT ![arm.buf][arm.i] = arm.dat[arm.i]]
    BY <2>1, <1>1, <1>7, FillIs DEF ArmShape
  <2>3. Serving /\ arm.buf = other(card.rbuf) /\ card.rq_rd /\ ~card.rd_rdy
    BY <2>2, <1>3 DEF Serving, Serves
  <2>4. /\ card.mem \in Memory /\ arm.buf \in ReadBuffers /\ card.rbuf \in ReadBuffers /\ arm.dat \in Block
    BY <1>1 DEF CardShape, ArmShape
  <2>5. arm.buf # card.rbuf BY <2>3, <2>4 DEF other, ReadBuffers
  <2>6. /\ d.mem[arm.buf] = [card.mem[arm.buf] EXCEPT ![arm.i] = arm.dat[arm.i]]
        /\ card.mem[arm.buf] \in Block /\ d.mem[card.rbuf] = card.mem[card.rbuf]
    <3>1. card.mem[arm.buf] \in Block BY <2>4 DEF Memory, ReadBuffers
    <3> DEFINE f == [card.mem[arm.buf] EXCEPT ![arm.i] = arm.dat[arm.i]]
    <3>2. d.mem = [card.mem EXCEPT ![arm.buf] = f] BY <2>2
    <3> HIDE DEF f
    <3>3. d.mem[arm.buf] = f /\ d.mem[card.rbuf] = card.mem[card.rbuf]
      <4>1. CASE arm.buf = "RDA" BY <4>1, <3>2, <2>4, <2>5 DEF Memory, ReadBuffers
      <4>2. CASE arm.buf = "RDB" BY <4>2, <3>2, <2>4, <2>5 DEF Memory, ReadBuffers
      <4> QED BY <4>1, <4>2, <2>4 DEF ReadBuffers
    <3> QED BY <3>1, <3>3 DEF f
  <2>7. \A i \in 0 .. BLK - 1 : i < arm.i + 1 => d.mem[arm.buf][i] = arm.dat[i]
    <3>1. ASSUME NEW i \in 0 .. BLK - 1, i < arm.i + 1 PROVE d.mem[arm.buf][i] = arm.dat[i]
      <4> DEFINE f == card.mem[arm.buf]  e == d.mem[arm.buf]
      <4>1. f \in [0 .. BLK - 1 -> {Byte("00"), Dat("p"), Dat("q")}] /\ e = [f EXCEPT ![arm.i] = arm.dat[arm.i]]
        BY <2>6 DEF Block
      <4>2. i < arm.i => f[i] = arm.dat[i] BY <2>2, <1>3, <3>1 DEF Serves
      <4>3. CASE i = arm.i
        <5> HIDE DEF f, e
        <5>1. e[i] = arm.dat[i] BY <4>1, <4>3, <3>1
        <5> QED BY <5>1 DEF e
      <4>4. CASE i # arm.i
        <5>1. i < arm.i BY <4>4, <3>1, <2>2, Sizes
        <5> HIDE DEF f, e
        <5>2. e[i] = f[i] BY <4>1, <4>4, <3>1
        <5>3. e[i] = arm.dat[i] BY <5>1, <5>2, <4>2
        <5> QED BY <5>3 DEF e
      <4> QED BY <4>3, <4>4
    <3> QED BY <3>1
  <2>8. arm.i = BLK - 1 => d.mem[arm.buf] = arm.dat
    <3>1. ASSUME arm.i = BLK - 1 PROVE d.mem[arm.buf] = arm.dat
      <4> DEFINE f == d.mem[arm.buf]
      <4>1. \A i \in 0 .. BLK - 1 : i < arm.i + 1 BY <3>1, Sizes
      <4>2. \A i \in 0 .. BLK - 1 : f[i] = arm.dat[i] BY <4>1, <2>7
      <4>3. f = [i \in 0 .. BLK - 1 |-> f[i]] BY <2>6 DEF Block
      <4>4. arm.dat = [i \in 0 .. BLK - 1 |-> arm.dat[i]] BY <2>4 DEF Block
      <4> HIDE DEF f
      <4>5. f = arm.dat BY <4>2, <4>3, <4>4
      <4> QED BY <4>5 DEF f
    <3> QED BY <3>1
  <2>9. /\ d.state = card.state /\ d.attached = card.attached /\ d.rq_rd = card.rq_rd
        /\ d.rd_rdy = card.rd_rdy /\ d.rd_err = card.rd_err /\ d.rq_seq = card.rq_seq
        /\ d.rq_wr = card.rq_wr /\ d.rbuf = card.rbuf /\ d.dbase = card.dbase /\ d.lba = card.lba
        /\ d.out = card.out /\ d.dcnt = card.dcnt /\ d.after = card.after
    BY <2>2 DEF Same, Regs
  <2>10. Holds(card) => d.dbase = d.rbuf /\ d.mem[d.dbase] = Content(d.lba)
    BY <2>6, <2>9 DEF Holds
  <2>11. Serves(card)' BY <2>1, <2>2, <2>3, <2>7, <2>8, <2>9, <1>2, <1>3 DEF Serves, Serving, other, Content
  <2>12. Fits(card, host)'
    <3>1. Awaiting(d) <=> Awaiting(card) BY <2>9 DEF Awaiting
    <3>2. Fits(d, host) BY <3>1, <2>9, <2>10, <1>3 DEF Fits, Stale, Holds
    <3> QED BY <3>2, <2>1, <2>2, <2>3 DEF Fits, Stale, Holds, Content, Serving
  <2>13. Delivers(card, host)'
    <3>1. Delivers(d, host)
      <4>1. card.state = "S_TX" /\ host.op # "CMD9" => d.mem[d.dbase] = card.mem[card.dbase]
        BY <2>6, <2>9, <1>3 DEF Delivers, Holds
      <4> QED BY <4>1, <2>9, <2>10, <1>3 DEF Delivers, Holds
    <3> QED BY <3>1, <2>1, <2>2 DEF Delivers, Holds, Content
  <2> QED BY <2>11, <2>12, <2>13 DEF Reads
<1>8. CASE ack_read
  <2>1. PICK d : d = card' OBVIOUS
  <2>2. /\ UNCHANGED <<flag, disk, host>>
        /\ arm.ph = "ackrd" /\ arm.kind = "rd" /\ arm'.ph = "wait" /\ arm'.kind = "rd"
        /\ \/ ~(card.rq_rd /\ arm.seq = card.rq_seq) /\ d = card
           \/ /\ card.rq_rd /\ arm.seq = card.rq_seq
              /\ Same(card, d, {"rq_rd", "rd_rdy", "rd_err", "rbuf", "dbase"})
              /\ ~d.rq_rd /\ d.rd_rdy /\ (d.rd_err <=> arm.err)
              /\ d.rbuf = arm.buf /\ d.dbase = arm.buf
    BY <2>1, <1>1, <1>8, AckReadStep DEF ArmShape
  <2>3. Fits(d, host) /\ Delivers(d, host)
    <3>1. CASE d = card BY <3>1, <1>3
    <3>2. CASE /\ card.rq_rd /\ arm.seq = card.rq_seq
               /\ Same(card, d, {"rq_rd", "rd_rdy", "rd_err", "rbuf", "dbase"})
               /\ ~d.rq_rd /\ d.rd_rdy /\ (d.rd_err <=> arm.err)
               /\ d.rbuf = arm.buf /\ d.dbase = arm.buf
      <4>1. /\ d.state = card.state /\ d.attached = card.attached /\ d.rq_seq = card.rq_seq
            /\ d.rq_wr = card.rq_wr /\ d.lba = card.lba /\ d.mem = card.mem /\ d.after = card.after
        BY <3>2 DEF Same, Regs
      <4>2. Serving /\ ~Stale(card) BY <2>2, <3>2 DEF Serving, Stale
      <4>3. Awaiting(d) <=> Awaiting(card) BY <4>1 DEF Awaiting
      <4>4. Awaiting(card) /\ ~arm.err => Holds(d)
        <5>1. Awaiting(card) => arm.lba = card.lba BY <4>2, <2>2, <1>3 DEF Fits
        <5>2. ~arm.err => arm.dat = Content(arm.lba) BY <2>2, <1>3 DEF Serves
        <5>3. card.mem[arm.buf] = arm.dat BY <2>2, <1>3 DEF Serves
        <5> QED BY <5>1, <5>2, <5>3, <3>2, <4>1 DEF Holds
      <4>5. ~Stale(d) BY <4>1, <3>2 DEF Stale
      <4>6. Fits(d, host)
        <5>1. Awaiting(d) /\ ~d.rd_err => Holds(d) BY <4>3, <4>4, <3>2
        <5>2. Awaiting(d) /\ Serving /\ arm.ph # "lba" => arm.lba = d.lba
          BY <4>1, <4>2, <4>3, <1>3 DEF Fits
        <5> QED BY <5>1, <5>2, <4>5, <3>2 DEF Fits
      <4>7. Delivers(d, host)
        <5>1. host.op # "CMD9" => card.state \notin Sent BY <3>2, <1>3 DEF Delivers
        <5> QED BY <5>1, <3>2, <4>1, <1>3 DEF Delivers, Sent
      <4> QED BY <4>6, <4>7
    <3> QED BY <2>2, <3>1, <3>2
  <2>4. d.rq_rd => ~d.rd_rdy /\ d.attached BY <2>2, <1>3 DEF Serves
  <2>5. Serves(card)' BY <2>1, <2>2, <2>4 DEF Serves, Serving
  <2>6. Fits(card, host)' BY <2>1, <2>2, <2>3 DEF Fits, Serving, Stale, Holds, Content
  <2>7. Delivers(card, host)' BY <2>1, <2>2, <2>3 DEF Delivers, Holds, Content
  <2> QED BY <2>5, <2>6, <2>7 DEF Reads
<1>9. CASE pull
  <2>1. /\ UNCHANGED <<card, flag, disk, host>> /\ arm.ph = "pull" /\ arm'.ph \in {"push", "pull"}
    BY <1>1, <1>9, PullIs
  <2>2. Serves(card)' BY <2>1, <1>2, <1>3 DEF Serves, Serving
  <2>3. Fits(card, host)' BY <2>1, <1>3 DEF Fits, Serving, Stale, Holds, Content
  <2>4. Delivers(card, host)' BY <2>1, <1>3 DEF Delivers, Holds, Content
  <2> QED BY <2>2, <2>3, <2>4 DEF Reads
<1>10. CASE backend_write
  <2>1. UNCHANGED <<card, flag, host>> /\ arm.ph = "push" /\ arm'.ph = "ackwr"
    BY <1>1, <1>10, PushIs
  <2>2. Storing(card) BY <2>1, Served, <1>1 DEF ArmShape
  <2>3. ~Awaiting(card) /\ card.state \notin Sent /\ host.ph # "crc" BY <2>2, NotStoring
  <2>4. Serves(card)' BY <2>1, <1>2, <1>3 DEF Serves, Serving
  <2>5. Fits(card, host)' BY <2>1, <2>3, <1>3 DEF Fits, Serving, Stale, Awaiting, Reply
  <2>6. Delivers(card, host)' BY <2>1, <2>3, <1>3 DEF Delivers, Sent
  <2> QED BY <2>4, <2>5, <2>6 DEF Reads
<1>11. CASE ack_write
  <2>1. PICK d : d = card' OBVIOUS
  <2>2. /\ UNCHANGED <<flag, disk, host>> /\ arm.ph = "ackwr" /\ arm'.ph = "wait"
        /\ d = card \/ Same(card, d, {"rq_wr", "wr_rdy", "wr_err"})
    BY <2>1, <1>1, <1>11, AckWriteStep
  <2>3. Storing(card) BY <2>2, Served, <1>1 DEF ArmShape
  <2>4. ~Awaiting(card) /\ card.state \notin Sent /\ host.ph # "crc" BY <2>3, NotStoring
  <2>5. /\ d.state = card.state /\ d.after = card.after /\ d.attached = card.attached
        /\ d.rq_rd = card.rq_rd /\ d.rd_rdy = card.rd_rdy
    BY <2>2 DEF Same, Regs
  <2>6. ~Awaiting(d) BY <2>4, <2>5 DEF Awaiting
  <2>7. Delivers(d, host) BY <2>4, <2>5 DEF Delivers, Sent
  <2>8. Serves(card)' BY <2>1, <2>2, <2>5, <1>2, <1>3 DEF Serves, Serving
  <2>9. Fits(card, host)' BY <2>1, <2>2, <2>6 DEF Fits, Serving, Stale
  <2>10. Delivers(card, host)' BY <2>1, <2>2, <2>7 DEF Delivers, Holds, Content
  <2> QED BY <2>8, <2>9, <2>10 DEF Reads
<1>12. CASE wait_drop \/ ceiling
  <2>1. /\ UNCHANGED <<card, flag, disk, host>> /\ arm.ph = "wait" /\ arm'.ph = "idle"
        /\ wait_drop => ~RequestUp(flag, arm.kind)
        /\ ceiling => RequestUp([rd |-> card.rq_rd, wr |-> card.rq_wr], arm.kind)
    BY <1>12, DropIs
  <2>2. ~(flag.rd /\ ~card.rq_rd) BY <2>1, <1>2, <1>3, <1>12 DEF Serves, RequestUp
  <2>3. Serves(card)' BY <2>1, <2>2, <1>3 DEF Serves, Serving
  <2>4. Fits(card, host)' BY <2>1, <1>3 DEF Fits, Serving, Stale, Holds, Content
  <2>5. Delivers(card, host)' BY <2>1, <1>3 DEF Delivers, Holds, Content
  <2> QED BY <2>3, <2>4, <2>5 DEF Reads
<1> QED BY <1>4, <1>5, <1>6, <1>7, <1>8, <1>9, <1>10, <1>11, <1>12 DEF Pump, Arm

LEMMA ReadsRemount == Protocol /\ Reads /\ (TakeOut \/ PutBack) => Reads'
<1> SUFFICES ASSUME Protocol, Reads, TakeOut \/ PutBack PROVE Reads'
  OBVIOUS
<1>1. Serves(card) /\ Fits(card, host) /\ Delivers(card, host) BY DEF Reads
<1>2. CASE TakeOut
  <2>1. /\ ~card'.attached /\ card'.state = "S_IDLE" /\ ~card'.rq_rd /\ arm'.ph = "idle"
    BY <1>2, TakeOutIs
  <2>2. Serves(card)' BY <2>1 DEF Serves, Serving
  <2>3. Fits(card, host)' BY <2>1 DEF Fits, Serving, Stale, Awaiting, Reply
  <2>4. Delivers(card, host)' BY <2>1 DEF Delivers, Sent
  <2> QED BY <2>2, <2>3, <2>4 DEF Reads
<1>3. CASE PutBack
  <2>1. /\ ~card.attached /\ UNCHANGED <<flag, arm, disk>> /\ host' = HostIdle("CMD0", host.ops)
        /\ flag = [rd |-> card.rq_rd, wr |-> card.rq_wr]
        /\ Same(card, card', {"attached", "wp", "mem"})
    BY <1>3, PutBackIs
  <2>2. card.state = "S_IDLE" /\ arm.ph = "idle" BY <2>1 DEF Protocol, Meets, OutOfCard, ArmShape
  <2>3. ~card.rq_rd /\ ~flag.rd BY <2>1, <1>1 DEF Serves
  <2>4. card'.state = card.state /\ card'.rq_rd = card.rq_rd BY <2>1 DEF Same, Regs
  <2>5. host'.ph = "idle" BY <2>1 DEF HostIdle
  <2>6. Serves(card)' BY <2>1, <2>2, <2>3, <2>4 DEF Serves, Serving
  <2>7. Fits(card, host)' BY <2>1, <2>2, <2>4 DEF Fits, Serving, Stale, Awaiting, Reply
  <2>8. Delivers(card, host)' BY <2>2, <2>4, <2>5 DEF Delivers, Sent
  <2> QED BY <2>6, <2>7, <2>8 DEF Reads
<1> QED BY <1>2, <1>3

LEMMA ReadsInit == Init => Reads
<1> SUFFICES ASSUME Init PROVE Reads OBVIOUS
<1>1. PICK w \in BOOLEAN : card = [InitCard EXCEPT !.wp = w] BY DEF Init
<1>2. card.state = "S_IDLE" /\ ~card.rq_rd BY <1>1 DEF InitCard
<1>3. host.ph = "idle" /\ arm.ph = "idle" /\ ~flag.rd BY DEF Init, HostIdle, ArmIdle
<1> QED BY <1>2, <1>3 DEF Reads, Serves, Serving, Fits, Stale, Awaiting, Reply, Delivers, Sent

LEMMA ReadsNext ==
  ASSUME SEQMOD > 1, ~EagerStops, Protocol, Writes, Reads, [NextWithRemounts]_vars
  PROVE  Reads'
<1>1. Serves(card) /\ Fits(card, host) /\ Delivers(card, host) BY DEF Reads
<1>2. CASE UNCHANGED vars
  <2>1. UNCHANGED <<card, flag, arm, disk, host>> BY <1>2 DEF vars
  <2>2. Serves(card)' BY <2>1, <1>1 DEF Serves, Serving, Content
  <2>3. Fits(card, host)' BY <2>1, <1>1 DEF Fits, Serving, Stale, Holds, Content
  <2>4. Delivers(card, host)' BY <2>1, <1>1 DEF Delivers, Holds, Content
  <2> QED BY <2>2, <2>3, <2>4 DEF Reads
<1>3. CASE Synchronise
  <2>1. flag' = [rd |-> card.rq_rd, wr |-> card.rq_wr] /\ UNCHANGED <<card, arm, disk, host>>
    BY <1>3 DEF Synchronise
  <2>2. Serves(card)' BY <2>1, <1>1 DEF Serves, Serving, Content
  <2>3. Fits(card, host)' BY <2>1, <1>1 DEF Fits, Serving, Stale, Holds, Content
  <2>4. Delivers(card, host)' BY <2>1, <1>1 DEF Delivers, Holds, Content
  <2> QED BY <2>2, <2>3, <2>4 DEF Reads
<1> QED BY <1>2, <1>3, ReadsArm, ReadsHost, ReadsRemount DEF NextWithRemounts

\* The block the driver has just received is the sector it asked for, whole:
\* neither the sector of a request given up before (ack_read names the request
\* it answers), nor a buffer that the ARM was still filling (dm_wrbuf fills the
\* one the card does not send from), nor the old volume's after a change of the
\* card.  A driver that stops a stream before its first block, and a number
\* that does not change, are ruled out: with the former the 2-bit number can
\* come round, see MCCardWrap.cfg.
THEOREM DeliveredRightAlways ==
  ASSUME ~EagerStops, SEQMOD > 1
  PROVE  SpecWithRemounts => []DeliveredRight
<1> DEFINE RInv == Protocol /\ Writes /\ Reads
<1>1. Init => RInv BY ProtocolInit, WritesInit, ReadsInit
<1>2. RInv /\ [NextWithRemounts]_vars => RInv' BY ProtocolNext, WritesNext, ReadsNext
<1>3. RInv => DeliveredRight
  <2> SUFFICES ASSUME Protocol, Reads, Block0, host.op # "CMD9", card.attached
               PROVE  Given = Content(host.arg)
    BY DEF DeliveredRight
  <2>1. /\ Len(host.got) = BLK
        /\ \A i \in 1 .. BLK : host.got[i] = Content(host.arg)[i - 1]
    BY DEF Reads, Delivers, Block0
  <2>2. Content(host.arg) \in Block
    BY Blocks DEF Protocol, HostShape, ArmShape
  <2> DEFINE f == Content(host.arg)
  <2>3. f = [i \in 0 .. BLK - 1 |-> f[i]] BY <2>2 DEF Block
  <2>4. \A i \in 0 .. BLK - 1 : host.got[i + 1] = f[i]
    <3>1. ASSUME NEW i \in 0 .. BLK - 1 PROVE host.got[i + 1] = f[i]
      <4>1. i + 1 \in 1 .. BLK /\ (i + 1) - 1 = i BY Sizes
      <4> QED BY <4>1, <2>1
    <3> QED BY <3>1
  <2> HIDE DEF f
  <2>5. [i \in 0 .. BLK - 1 |-> host.got[i + 1]] = f BY <2>3, <2>4
  <2> QED BY <2>1, <2>5 DEF Given, f
<1> HIDE DEF RInv
<1>4. SpecWithRemounts => []RInv BY <1>1, <1>2, PTL DEF SpecWithRemounts
<1> QED BY <1>3, <1>4, PTL
=============================================================================
