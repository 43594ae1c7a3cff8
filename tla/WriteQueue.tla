----------------------------- MODULE WriteQueue -----------------------------
(***************************************************************************)
(* The firmware's write-behind queue (dm_wq_... in loader_main.c): a sector    *)
(* the machine writes is acknowledged as soon as it is in the queue, and   *)
(* goes to the image file when the machine has been quiet for 100 ms, when *)
(* the queue is full, or when the image is closed.  Reads look in the      *)
(* queue first.                                                            *)
(*                                                                         *)
(* The queue is the code's ring: hd, tl, n over the slots 0 .. N-1.  FatFs *)
(* is external: img is what f_read returns, media what is left when the    *)
(* power goes; f_write changes img, f_sync makes media equal to it.        *)
(***************************************************************************)
EXTENDS Integers

CONSTANTS N,            \* slots of the queue: DM_WQ_N, 96 in the code
          LBA,          \* sectors of the image: lba < g_dm_img_secs
          Val,          \* contents of a sector
          MediumFails,  \* f_write may fail
          SyncFails,    \* f_sync may fail
          PowerFails,   \* the power may be cut
          MaxWrites     \* bound on the accepted writes of a behaviour

ASSUME WriteQueueAssumption ==
    /\ N \in Nat \ {0}
    /\ MediumFails \in BOOLEAN /\ SyncFails \in BOOLEAN /\ PowerFails \in BOOLEAN
    /\ MaxWrites \in Nat
    /\ LBA # {} /\ Val # {}

VARIABLES lba, dat, n, hd, tl,     \* dm_wq_lba, dm_wq_dat, dm_wq_n/_hd/_tl
          quiet,                   \* 100 ms have passed since dm_wq_acc
          sync_due,                \* g_dm_sync_due
          open,                    \* g_dm_img_open, the image is open for writing
          closing,                 \* inside divmmc_close
          rq,                      \* the card holds a request up
          img, media,              \* FatFs
          c_wr, c_werr,            \* g_dm_c_wr accepted, g_dm_c_werr refused later,
                                   \* both counted on through a power cut
          past                     \* ghost: the values each sector ever had

queue == <<lba, dat, n, hd, tl>>
file  == <<img, media, sync_due>>
accepted == <<c_wr, past>>
vars  == <<queue, file, quiet, open, closing, rq, accepted, c_werr>>

Slot == 0 .. N - 1
NoSlot == -1

nextNoWrap(s) == s + 1

next(s) == IF s = N - 1 THEN 0 ELSE s + 1

\* The slot of the i-th queued sector, oldest first.
slot(i) == IF hd + i >= N THEN hd + i - N ELSE hd + i

\* The newest queued copy of sector l.
dm_wq_find(l) ==
    LET hits == {i \in 0 .. n - 1 : lba[slot(i)] = l}
    IN  IF hits = {} THEN NoSlot
        ELSE slot(CHOOSE i \in hits : \A j \in hits : j <= i)

divmmc_backend_read(l) ==
    IF dm_wq_find(l) # NoSlot THEN dat[dm_wq_find(l)] ELSE img[l]

Store == INSTANCE SectorStore WITH
    store <- [l \in LBA |-> divmmc_backend_read(l)],
    lost  <- c_werr,
    count <- c_wr

-----------------------------------------------------------------------------
Init ==
    /\ lba = [s \in Slot |-> CHOOSE l \in LBA : TRUE]   \* zeroed statics
    /\ dat = [s \in Slot |-> CHOOSE v \in Val : TRUE]
    /\ n = 0 /\ hd = 0 /\ tl = 0
    /\ img \in [LBA -> Val] /\ media = img /\ sync_due = FALSE
    /\ quiet = FALSE /\ open = FALSE /\ closing = FALSE /\ rq = FALSE
    /\ c_wr = 0 /\ c_werr = 0
    /\ past = [l \in LBA |-> {img[l]}]

dm_img_write_nowNoDue(l, v) ==
    /\ open
    /\ img' = [img EXCEPT ![l] = v]
    /\ media' \in {media, [media EXCEPT ![l] = v]}
    /\ sync_due' = sync_due

\* f_lseek and f_write of one sector; FatFs may keep it in its own buffer.
dm_img_write_now(l, v) ==
    /\ open
    /\ img' = [img EXCEPT ![l] = v]
    /\ media' \in {media, [media EXCEPT ![l] = v]}
    /\ sync_due' = TRUE

\* The oldest sector leaves the queue, written or not; a refusal is counted.
flush_head ==
    /\ \/ dm_img_write_now(lba[hd], dat[hd]) /\ c_werr' = c_werr
       \/ MediumFails /\ c_werr' = c_werr + 1 /\ UNCHANGED file
    /\ hd' = next(hd)

dm_wq_flush_one ==
    /\ n > 0
    /\ flush_head
    /\ n' = n - 1
    /\ UNCHANGED <<lba, dat, tl>>

\* dm_wq_push of a sector that is queued already: replaced in place.
PushInPlace(l, v) ==
    /\ dm_wq_find(l) # NoSlot
    /\ dat' = [dat EXCEPT ![dm_wq_find(l)] = v]
    /\ UNCHANGED <<lba, n, hd, tl, file, c_werr>>

PushNewNoRoom(l, v) ==
    /\ dm_wq_find(l) = NoSlot
    /\ n' = (IF n >= N THEN n ELSE n + 1)
    /\ hd' = (IF n >= N THEN next(hd) ELSE hd)
    /\ UNCHANGED <<file, c_werr>>
    /\ lba' = [lba EXCEPT ![tl] = l]
    /\ dat' = [dat EXCEPT ![tl] = v]
    /\ tl' = next(tl)

PushNewSecondCopy(l, v) ==
    /\ IF n >= N THEN flush_head /\ n' = n
                 ELSE n' = n + 1 /\ UNCHANGED <<hd, file, c_werr>>
    /\ lba' = [lba EXCEPT ![tl] = l]
    /\ dat' = [dat EXCEPT ![tl] = v]
    /\ tl' = next(tl)

\* dm_wq_push of a new sector; a full queue first flushes its oldest one.
PushNew(l, v) ==
    /\ dm_wq_find(l) = NoSlot
    /\ IF n >= N THEN flush_head /\ n' = n
                 ELSE n' = n + 1 /\ UNCHANGED <<hd, file, c_werr>>
    /\ lba' = [lba EXCEPT ![tl] = l]
    /\ dat' = [dat EXCEPT ![tl] = v]
    /\ tl' = next(tl)

\* The card hands a sector over: accepted into the queue, then acknowledged.
divmmc_backend_write(l, v) ==
    /\ rq /\ open /\ ~closing
    /\ c_wr < MaxWrites
    /\ PushInPlace(l, v) \/ PushNew(l, v)
    /\ quiet' = FALSE /\ rq' = FALSE
    /\ c_wr' = c_wr + 1 /\ past' = [past EXCEPT ![l] = @ \cup {v}]
    /\ UNCHANGED <<open, closing>>

-----------------------------------------------------------------------------
\* The card raises a request; a read, or a write that is refused, only ends it.
Request ==
    /\ ~rq /\ rq' = TRUE
    /\ UNCHANGED <<queue, file, quiet, open, closing, accepted, c_werr>>

ServeOther ==
    /\ rq /\ ~closing /\ rq' = FALSE
    /\ UNCHANGED <<queue, file, quiet, open, closing, accepted, c_werr>>

\* 100 ms without an accepted write.
Quiet ==
    /\ ~quiet /\ quiet' = TRUE
    /\ UNCHANGED <<queue, file, open, closing, rq, accepted, c_werr>>

\* The cycle counter behind it is 32 bits wide: 6.6 s later the same test
\* reads as if the write had just happened.
CounterWraps ==
    /\ quiet /\ quiet' = FALSE
    /\ UNCHANGED <<queue, file, open, closing, rq, accepted, c_werr>>

IdleFlushKeepsLast ==
    /\ ~closing /\ ~rq /\ quiet /\ n > 1
    /\ dm_wq_flush_one
    /\ UNCHANGED <<quiet, open, closing, rq, accepted>>

\* The main loop's idle branch, at most four sectors a pass: each only while
\* the card asks for nothing.
IdleFlush ==
    /\ ~closing /\ ~rq /\ quiet
    /\ dm_wq_flush_one
    /\ UNCHANGED <<quiet, open, closing, rq, accepted>>

\* f_sync; its result is not looked at.
f_sync == media' = img \/ (SyncFails /\ media' = media)

\* The queue is empty: the file's metadata and buffer go out.
IdleSync ==
    /\ ~closing /\ ~rq /\ n = 0 /\ sync_due /\ open
    /\ f_sync /\ sync_due' = FALSE
    /\ UNCHANGED <<queue, img, quiet, open, closing, rq, accepted, c_werr>>

OpenImage ==
    /\ ~open /\ ~closing /\ open' = TRUE
    /\ UNCHANGED <<queue, file, quiet, closing, rq, accepted, c_werr>>

\* divmmc_close: flush everything, sync if due, f_close (which syncs as well).
CloseBegin ==
    /\ ~closing /\ closing' = TRUE
    /\ UNCHANGED <<queue, file, quiet, open, rq, accepted, c_werr>>

CloseFlush ==
    /\ closing
    /\ dm_wq_flush_one
    /\ UNCHANGED <<quiet, open, closing, rq, accepted>>

CloseEndKeepsQueue ==
    /\ closing
    /\ IF open THEN f_sync /\ sync_due' = FALSE
               ELSE UNCHANGED <<media, sync_due>>
    /\ open' = FALSE /\ closing' = FALSE
    /\ UNCHANGED <<queue, img, quiet, rq, accepted, c_werr>>

CloseEnd ==
    /\ closing /\ n = 0
    /\ IF open THEN f_sync /\ sync_due' = FALSE
               ELSE UNCHANGED <<media, sync_due>>
    /\ open' = FALSE /\ closing' = FALSE
    /\ UNCHANGED <<queue, img, quiet, rq, accepted, c_werr>>

\* The power goes and comes back: RAM is gone, the file is what the medium has.
PowerCut ==
    /\ PowerFails
    /\ n' = 0 /\ hd' = 0 /\ tl' = 0 /\ UNCHANGED <<lba, dat>>
    /\ img' = media /\ sync_due' = FALSE /\ UNCHANGED media
    /\ quiet' = FALSE /\ open' = FALSE /\ closing' = FALSE /\ rq' = FALSE
    /\ UNCHANGED <<accepted, c_werr>>

Next ==
    \/ \E l \in LBA, v \in Val : divmmc_backend_write(l, v)
    \/ Request \/ ServeOther \/ Quiet \/ CounterWraps
    \/ IdleFlush \/ IdleSync
    \/ OpenImage \/ CloseBegin \/ CloseFlush \/ CloseEnd
    \/ PowerCut

Spec == Init /\ [][Next]_vars

\* The main loop keeps coming round and time passes; it comes round often
\* enough to find the counter outside the 100 ms after each wrap (SF).  Nothing
\* obliges the machine to ask, or the user to open and close the image.
Fairness ==
    /\ WF_vars(ServeOther) /\ WF_vars(Quiet)
    /\ SF_vars(IdleFlush) /\ WF_vars(IdleSync)
    /\ WF_vars(CloseFlush) /\ WF_vars(CloseEnd)

FairSpec == Spec /\ Fairness

-----------------------------------------------------------------------------
DataTypes ==
    /\ lba \in [Slot -> LBA] /\ dat \in [Slot -> Val]
    /\ n \in 0 .. N /\ hd \in Slot /\ tl \in Slot
    /\ img \in [LBA -> Val] /\ media \in [LBA -> Val]
    /\ c_werr \in Nat

FlagTypes ==
    /\ sync_due \in BOOLEAN /\ quiet \in BOOLEAN /\ open \in BOOLEAN
    /\ closing \in BOOLEAN /\ rq \in BOOLEAN

TypeOK == DataTypes /\ FlagTypes /\ c_wr \in 0 .. MaxWrites

\* A sector is queued at most once.  A second copy would be written after the
\* first, or found instead of it, and which of them wins would depend on the
\* ring's position.
OneCopy ==
    \A i, j \in 0 .. n - 1 : lba[slot(i)] = lba[slot(j)] => i = j

\* Nothing waits in the queue for a file that is not open: dm_img_write_now
\* would refuse it, and the loss would look like a medium failure.
QueuedOnlyWhileOpen == n > 0 => open

\* When the queue is empty and no sync is due, a power cut costs nothing,
\* unless an f_sync failed: nobody looks at its result.
QuietMeansDurable ==
    ~SyncFails /\ n = 0 /\ ~sync_due => media = img

\* The queue implements the sector store: a read returns the last accepted
\* write of its sector, whatever is queued, flushed or evicted; an older value
\* only after a counted refusal or a power cut, and never another sector's.
ImplementsStore == Store!Spec

\* Once the card stops asking, everything accepted ends up on the medium and
\* stays there, but for what was refused (and if f_sync does not fail).
Durable == \A l \in LBA : media[l] = divmmc_backend_read(l)
EventuallyDurable == <>[](~rq) => <>[]Durable

=============================================================================
