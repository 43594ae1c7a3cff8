----------------------------- MODULE DivmmcCard -----------------------------
(***************************************************************************)
(* divmmc_card.v: the SD card the fabric plays for the machine, byte by    *)
(* byte.  The card is one record of the module's registers; ByteStep is    *)
(* one byte exchanged over SPI (byte_ev), Strobe one word from the ARM     *)
(* (arm_stb).  Each reads the registers as they were before the clock, and *)
(* where the code assigns twice the last assignment wins.                  *)
(*                                                                         *)
(* A byte is a record: a fragment of a command frame, the frame's last     *)
(* byte (which stands for the whole command), a token, a data byte ...     *)
(* Out of the model: CRCs, the instruments, the bits below the byte, the   *)
(* responses' tails (CMD8, 13, 16, 58, 59 and unknown commands are the one *)
(* op "OTHER", answered by R1).                                            *)
(***************************************************************************)
EXTENDS Naturals, Sequences

CONSTANTS FRAME,    \* bytes of a command frame, 6 in the code
          BLK,      \* bytes of a sector, 512
          CSDLEN,   \* bytes of the CSD register, 16
          NCR, NAC, WBUSY, A41,   \* P_NCR, P_NAC, P_WBUSY, P_A41
          SEQMOD,   \* values of the 2-bit rq_seq
          CAP       \* cap_l: sectors of the card

ASSUME CardAssumption ==
    /\ {FRAME, BLK, CSDLEN, NCR, NAC, WBUSY, SEQMOD, CAP} \subseteq Nat \ {0}
    /\ FRAME > 1 /\ A41 \in Nat /\ CSDLEN <= BLK

Byte(t)     == [t |-> t]
Dat(v)      == [t |-> "dat", v |-> v]
Cmd(op, a)  == [t |-> "cmd", op |-> op, arg |-> a]
R1(v)       == [t |-> "R1", v |-> v]
Frag        == Byte("frag")
Idle        == Byte("FF")
Busy        == Byte("00")

\* The two high bits of a command's first byte are 01.
starts(b) == b.t = "frag"

OpOf(b)  == IF b.t = "cmd" THEN b.op ELSE "OTHER"
ArgOf(b) == IF b.t = "cmd" THEN b.arg ELSE 0

\* The buffer memory: two read buffers, the write buffer and the CSD.
CSD == [i \in 0 .. CSDLEN - 1 |-> Byte("csd")]

InitCard ==
    [attached |-> TRUE, state |-> "S_IDLE", fcnt |-> 0, rcnt |-> 0, after |-> "S_IDLE", wcnt |-> 0,
     resp |-> "ok", dbase |-> "RDA", dcnt |-> 0, dlen |-> BLK, lba |-> 0,
     multi |-> FALSE, stopnext |-> FALSE,
     idle_st |-> TRUE, spi_md |-> FALSE, app |-> FALSE, a41 |-> A41,
     rq_rd |-> FALSE, rq_wr |-> FALSE, rq_seq |-> 0,
     rd_rdy |-> FALSE, rd_err |-> FALSE, wr_rdy |-> FALSE, wr_err |-> FALSE,
     rbuf |-> "RDA", wp |-> FALSE, out |-> Idle,
     mem |-> [RDA |-> [i \in 0 .. BLK - 1 |-> Busy], RDB |-> [i \in 0 .. BLK - 1 |-> Busy],
              WR |-> [i \in 0 .. BLK - 1 |-> Busy], CSD |-> CSD]]

nextseq(c) == (c.rq_seq + 1) % SEQMOD

-----------------------------------------------------------------------------
\* The answer to a command: NCR idle bytes, R1, then the state afv.
Answer(c, r1v, afv) ==
    [c EXCEPT !.resp = r1v, !.after = afv, !.wcnt = NCR, !.state = "S_NCR"]

\* A request for sector l: a new number, and the old answer is forgotten.
AskRead(c, l) ==
    [c EXCEPT !.lba = l, !.rq_rd = TRUE, !.rq_seq = nextseq(c),
              !.rd_rdy = FALSE, !.rd_err = FALSE]

r1b(c) == IF c.idle_st THEN "idle" ELSE "ok"

\* The sixth byte of a frame: the command is executed.
Execute(c0, op, argv) ==
    LET c   == [c0 EXCEPT !.fcnt = 0, !.app = FALSE]
        ref == Answer(c, "bad", "S_IDLE")
    IN  IF ~c.spi_md /\ op # "CMD0" THEN ref ELSE
        CASE op = "CMD0" ->
                Answer([c EXCEPT !.spi_md = TRUE, !.idle_st = TRUE, !.a41 = A41], "idle", "S_IDLE")
          [] op = "CMD1" \/ (c0.app /\ op = "CMD41") ->
                IF c.a41 # 0 THEN Answer([c EXCEPT !.a41 = @ - 1], "idle", "S_IDLE")
                             ELSE Answer([c EXCEPT !.idle_st = FALSE], "ok", "S_IDLE")
          [] op = "CMD9" ->
                IF c.idle_st THEN Answer(c, r1b(c), "S_IDLE")
                ELSE Answer([c EXCEPT !.multi = FALSE, !.dbase = "CSD"], "ok", "S_TOKEN")
          [] op = "CMD12" -> Answer([c EXCEPT !.multi = FALSE, !.stopnext = FALSE], r1b(c), "S_IDLE")
          [] op \in {"CMD17", "CMD18"} ->
                IF c.idle_st \/ argv >= CAP THEN ref
                ELSE Answer(AskRead([c EXCEPT !.multi = (op = "CMD18"), !.stopnext = FALSE], argv),
                            "ok", "S_NAC")
          [] op \in {"CMD24", "CMD25"} ->
                IF c.idle_st \/ argv >= CAP THEN ref
                ELSE Answer([c EXCEPT !.lba = argv, !.multi = (op = "CMD25")], "ok", "S_RXWAIT")
          [] op = "CMD41" /\ ~c0.app -> ref
          [] op = "CMD55" -> Answer([c EXCEPT !.app = TRUE], r1b(c), "S_IDLE")
          [] OTHER -> Answer(c, r1b(c), "S_IDLE")

\* S_IDLE and S_ARG: a frame is collected.
Collect(c, b) ==
    IF c.fcnt = 0
    THEN IF starts(b) THEN [c EXCEPT !.fcnt = 1, !.state = "S_ARG"] ELSE c
    ELSE IF c.fcnt < FRAME - 1 THEN [c EXCEPT !.fcnt = @ + 1]
                               ELSE Execute(c, OpOf(b), ArgOf(b))

S_NCR(c) ==
    LET n == [c EXCEPT !.wcnt = @ - 1]
    IN  IF c.wcnt <= 1 THEN [n EXCEPT !.state = "S_RESP", !.out = R1(c.resp)] ELSE n

S_RESP(c) ==
    CASE c.after = "S_NAC"   -> [c EXCEPT !.dcnt = 0, !.dlen = BLK, !.wcnt = NAC, !.state = "S_NAC"]
      [] c.after = "S_TOKEN" -> [c EXCEPT !.dcnt = 0, !.dlen = CSDLEN, !.state = "S_TOKEN",
                                          !.out = Byte("FE")]
      [] c.after = "S_BUSY"  -> [c EXCEPT !.wcnt = WBUSY, !.state = "S_BUSY", !.out = Busy]
      [] c.after = "S_IDLE"  -> [c EXCEPT !.state = "S_IDLE", !.fcnt = 0]
      [] OTHER               -> [c EXCEPT !.state = c.after]

\* The shell's answer is here: the block, or the error token.
BlockOrError(c) ==
    IF c.rd_err THEN [c EXCEPT !.state = "S_IDLE", !.fcnt = 0, !.multi = FALSE, !.out = Byte("ERR")]
                ELSE [c EXCEPT !.state = "S_TOKEN", !.dcnt = 0, !.dlen = BLK, !.out = Byte("FE")]

\* N_AC, and the gap between two blocks of a stream: idle bytes until the
\* shell has answered.
Wait(c) ==
    LET n == [c EXCEPT !.wcnt = IF @ > 0 THEN @ - 1 ELSE 0]
    IN  IF c.wcnt <= 1 /\ c.rd_rdy THEN BlockOrError(n) ELSE n

S_TOKEN(c) == [c EXCEPT !.state = "S_TX", !.dcnt = 0, !.out = c.mem[c.dbase][0]]

S_TX(c) ==
    IF c.dcnt + 1 >= c.dlen
    THEN [c EXCEPT !.state = "S_TXCRC", !.dcnt = 0]
    ELSE [c EXCEPT !.dcnt = @ + 1, !.out = c.mem[c.dbase][c.dcnt + 1]]

\* After the CRC a stream asks for its next sector.
S_TXCRC(c) ==
    CASE c.dcnt = 0 -> [c EXCEPT !.dcnt = 1]
      [] c.dcnt # 0 /\ c.multi ->
            AskRead([c EXCEPT !.dcnt = 0, !.wcnt = 1, !.state = "S_MBGAP"], c.lba + 1)
      [] OTHER -> [c EXCEPT !.dcnt = 0, !.stopnext = FALSE, !.fcnt = 0, !.state = "S_IDLE"]

S_RXWAIT(c, b) ==
    CASE b.t \in {"FE", "FC"} -> [c EXCEPT !.dcnt = 0, !.state = "S_RX"]
      [] b.t = "FD"           -> [c EXCEPT !.multi = FALSE, !.wcnt = WBUSY, !.state = "S_BUSY",
                                           !.out = Busy]
      [] OTHER                -> c

S_RXStaleReady(c, b) ==
    LET n == [c EXCEPT !.mem.WR[c.dcnt] = b]
    IN  IF c.dcnt + 1 >= BLK
        THEN IF c.wp THEN [n EXCEPT !.dcnt = 0, !.state = "S_RXCRC"]
             ELSE [n EXCEPT !.dcnt = 0, !.state = "S_RXCRC", !.rq_wr = TRUE, !.rq_seq = nextseq(c)]
        ELSE [n EXCEPT !.dcnt = @ + 1]

\* The last byte raises the write request, unless the card is write protected.
S_RX(c, b) ==
    LET n == [c EXCEPT !.mem.WR[c.dcnt] = b]
    IN  IF c.dcnt + 1 >= BLK
        THEN IF c.wp THEN [n EXCEPT !.dcnt = 0, !.state = "S_RXCRC"]
             ELSE [n EXCEPT !.dcnt = 0, !.state = "S_RXCRC", !.rq_wr = TRUE, !.rq_seq = nextseq(c),
                            !.wr_rdy = FALSE, !.wr_err = FALSE]
        ELSE [n EXCEPT !.dcnt = @ + 1]

\* The data response.
Verdict(c) ==
    [c EXCEPT !.state = "S_RXRESP", !.out = Byte(IF c.wp \/ c.wr_err THEN "ED" ELSE "E5")]

S_RXCRC(c) ==
    CASE c.dcnt = 0           -> [c EXCEPT !.dcnt = 1]
      [] c.dcnt # 0 /\ (c.wp \/ c.wr_rdy) -> Verdict([c EXCEPT !.dcnt = 0])
      [] OTHER                -> [c EXCEPT !.dcnt = 0, !.state = "S_RXACK"]

S_RXACK(c) == IF c.wr_rdy THEN Verdict(c) ELSE c

S_RXRESP(c) == [c EXCEPT !.wcnt = WBUSY, !.state = "S_BUSY", !.out = Busy]

S_BUSY(c) ==
    LET n == [c EXCEPT !.wcnt = @ - 1]
    IN  CASE c.wcnt > 1 -> [n EXCEPT !.out = Busy]
          [] c.wcnt <= 1 /\ c.multi -> [n EXCEPT !.lba = @ + 1, !.state = "S_RXWAIT"]
          [] OTHER -> [n EXCEPT !.state = "S_IDLE", !.fcnt = 0]

-----------------------------------------------------------------------------
\* While a stream flows a parallel receiver listens for CMD12.
sniff(c) == c.multi /\ c.state \in {"S_NAC", "S_TOKEN", "S_TX", "S_TXCRC", "S_MBGAP"}

\* The one place where a CMD12 caught in the stream is executed.
StopNow(c) ==
    Answer([c EXCEPT !.multi = FALSE, !.stopnext = FALSE, !.fcnt = 0], r1b(c), "S_BUSY")

Sniff(c, b, n) ==
    CASE ~sniff(c) \/ (c.fcnt = 0 /\ ~starts(b)) -> n
      [] OTHER -> [n EXCEPT !.fcnt = IF c.fcnt = FRAME - 1 THEN 0 ELSE c.fcnt + 1,
                            !.stopnext = IF c.fcnt = FRAME - 1 /\ OpOf(b) = "CMD12" THEN TRUE ELSE @]

\* One byte: b comes in; the byte that goes out with the next one is in .out.
\* A card that is taken out sees nothing and its line stays high.
ByteStep(c0, b) ==
    LET c == [c0 EXCEPT !.out = Idle]
        own == CASE c.state \in {"S_IDLE", "S_ARG"}   -> Collect(c, b)
                 [] c.state = "S_NCR"                 -> S_NCR(c)
                 [] c.state = "S_RESP"                -> S_RESP(c)
                 [] c.state \in {"S_NAC", "S_MBGAP"}  -> Wait(c)
                 [] c.state = "S_TOKEN"               -> S_TOKEN(c)
                 [] c.state = "S_TX"                  -> S_TX(c)
                 [] c.state = "S_TXCRC"               -> S_TXCRC(c)
                 [] c.state = "S_RXWAIT"              -> S_RXWAIT(c, b)
                 [] c.state = "S_RX"                  -> S_RX(c, b)
                 [] c.state = "S_RXCRC"               -> S_RXCRC(c)
                 [] c.state = "S_RXACK"               -> S_RXACK(c)
                 [] c.state = "S_RXRESP"              -> S_RXRESP(c)
                 [] c.state = "S_BUSY"                -> S_BUSY(c)
        n == IF c.stopnext /\ sniff(c) THEN StopNow(c) ELSE own
    IN  IF c0.attached THEN Sniff(c, b, n) ELSE c

-----------------------------------------------------------------------------
\* The ARM's acknowledgements: only of the request the card still holds.
AckReadAnySeq(c, seq, err, buf) ==
    IF c.rq_rd
    THEN [c EXCEPT !.rq_rd = FALSE, !.rd_rdy = TRUE, !.rd_err = err, !.rbuf = buf, !.dbase = buf]
    ELSE c

AckRead(c, seq, err, buf) ==
    IF c.rq_rd /\ seq = c.rq_seq
    THEN [c EXCEPT !.rq_rd = FALSE, !.rd_rdy = TRUE, !.rd_err = err, !.rbuf = buf, !.dbase = buf]
    ELSE c

AckWrite(c, seq, err) ==
    IF c.rq_wr /\ seq = c.rq_seq
    THEN [c EXCEPT !.rq_wr = FALSE, !.wr_rdy = TRUE, !.wr_err = err]
    ELSE c

\* FSM_RST with EN down: the card is out and its protocol starts again.  The
\* buffers and the sector number are not registers of the protocol.
FsmResetKeepsRequest(c) ==
    [InitCard EXCEPT !.attached = FALSE, !.mem = c.mem, !.lba = c.lba, !.rbuf = c.rbuf,
                     !.resp = c.resp, !.wp = c.wp, !.rd_err = c.rd_err, !.wr_err = c.wr_err,
                     !.rq_wr = c.rq_wr]

FsmReset(c) ==
    [InitCard EXCEPT !.attached = FALSE, !.mem = c.mem, !.lba = c.lba, !.rbuf = c.rbuf,
                     !.resp = c.resp, !.wp = c.wp, !.rd_err = c.rd_err, !.wr_err = c.wr_err]
=============================================================================
