-------------------------- MODULE WriteQueueProofs --------------------------
(***************************************************************************)
(* Proofs about WriteQueue, for every queue length, image and history: the *)
(* queue is well formed, and it implements SectorStore.                    *)
(*                                                                         *)
(* The inductive invariant adds Ring, the redundancy of the code's three   *)
(* indices: tl is n slots beyond hd.  OneCopy rests on it (a new sector    *)
(* must not land on a queued one), and the refinement rests on OneCopy (the *)
(* flushed copy is the one a read would have found) and on Known: nothing  *)
(* is in the queue or in the file that was not written to its sector.      *)
(***************************************************************************)
EXTENDS WriteQueue, TLAPS

Ring == tl = slot(n)

QInv == DataTypes /\ Ring /\ OneCopy

Read(l) == divmmc_backend_read(l)

\* The i-th and the j-th queued sector never share a slot.
LEMMA Slots ==
    ASSUME DataTypes, NEW i \in 0 .. n - 1
    PROVE  /\ slot(i) \in Slot
           /\ \A j \in 0 .. n - 1 : slot(i) = slot(j) => i = j
           /\ n < N /\ tl = slot(n) => slot(i) # tl
           /\ n = N /\ tl = slot(n) => tl = hd
BY WriteQueueAssumption DEF DataTypes, slot, Slot

\* A queued sector is found where it is, and only a queued sector is found.
LEMMA Find ==
    ASSUME DataTypes, OneCopy, NEW l
    PROVE  /\ \A i \in 0 .. n - 1 : lba[slot(i)] = l => dm_wq_find(l) = slot(i)
           /\ (\A i \in 0 .. n - 1 : lba[slot(i)] # l) => dm_wq_find(l) = NoSlot
           /\ dm_wq_find(l) # NoSlot =>
                  \E i \in 0 .. n - 1 : lba[slot(i)] = l /\ dm_wq_find(l) = slot(i)
<1> DEFINE hits == {i \in 0 .. n - 1 : lba[slot(i)] = l}
           newest == CHOOSE i \in hits : \A j \in hits : j <= i
<1>1. ASSUME NEW i \in 0 .. n - 1, lba[slot(i)] = l
      PROVE  hits # {} /\ newest = i
    <2>1. hits = {i}
        BY <1>1 DEF OneCopy
    <2>2. \A j \in hits : j <= i
        BY <2>1 DEF DataTypes
    <2> QED
        BY <2>1, <2>2
<1>2. ASSUME NEW i \in 0 .. n - 1, lba[slot(i)] = l
      PROVE  dm_wq_find(l) = slot(i)
    BY <1>1, <1>2 DEF dm_wq_find
<1>3. (\A i \in 0 .. n - 1 : lba[slot(i)] # l) => dm_wq_find(l) = NoSlot
    BY DEF dm_wq_find
<1> QED
    BY <1>2, <1>3

\* What a read returns, without the search.
ReadsRight ==
    \A l \in LBA :
        /\ \A i \in 0 .. n - 1 : lba[slot(i)] = l => Read(l) = dat[slot(i)]
        /\ (\A i \in 0 .. n - 1 : lba[slot(i)] # l) => Read(l) = img[l]

LEMMA ReadValue == QInv => ReadsRight
<1> SUFFICES ASSUME QInv, NEW l \in LBA
             PROVE  /\ \A i \in 0 .. n - 1 : lba[slot(i)] = l => Read(l) = dat[slot(i)]
                    /\ (\A i \in 0 .. n - 1 : lba[slot(i)] # l) => Read(l) = img[l]
    BY DEF ReadsRight
<1> USE DEF QInv
<1>1. ASSUME NEW i \in 0 .. n - 1, lba[slot(i)] = l
      PROVE  Read(l) = dat[slot(i)]
    <2>1. dm_wq_find(l) = slot(i) /\ slot(i) # NoSlot
        BY <1>1, Find, Slots DEF Slot, NoSlot, DataTypes
    <2> QED
        BY <2>1 DEF Read, divmmc_backend_read
<1>2. (\A i \in 0 .. n - 1 : lba[slot(i)] # l) => Read(l) = img[l]
    BY Find DEF Read, divmmc_backend_read
<1> QED
    BY <1>1, <1>2

ReadsTyped == \A l \in LBA : Read(l) \in Val

LEMMA ReadTypes == QInv => ReadsTyped
<1> SUFFICES ASSUME QInv, NEW l \in LBA
             PROVE  Read(l) \in Val
    BY DEF ReadsTyped
<1>1. CASE \E i \in 0 .. n - 1 : lba[slot(i)] = l
    BY <1>1, ReadValue, Slots DEF ReadsRight, QInv, DataTypes
<1>2. CASE \A i \in 0 .. n - 1 : lba[slot(i)] # l
    BY <1>2, ReadValue DEF ReadsRight, QInv, DataTypes
<1> QED
    BY <1>1, <1>2

\* The queue's state and what it holds, before any request.
LEMMA InitQInv == Init => QInv
<1> SUFFICES ASSUME Init
             PROVE  QInv
    OBVIOUS
<1>1. DataTypes
    BY WriteQueueAssumption DEF Init, DataTypes, Slot
<1>2. Ring /\ OneCopy
    BY WriteQueueAssumption DEF Init, Ring, OneCopy, slot
<1> QED
    BY <1>1, <1>2 DEF QInv

-----------------------------------------------------------------------------
\* A step of the queue changes what reads return in one of four ways.
SameReads == \A l \in LBA : Read(l)' = Read(l)
Reads(l, v) == Read(l)' = v /\ \A k \in LBA \ {l} : Read(k)' = Read(k)

\* The oldest sector leaves.
LEMMA FlushStep ==
    ASSUME QInv, dm_wq_flush_one
    PROVE  /\ QInv'
           /\ \/ SameReads /\ c_werr' = c_werr
              \/ \E l \in LBA, v \in Val : Reads(l, v) /\ c_werr' = c_werr + 1
<1> USE WriteQueueAssumption DEF QInv
<1>1. /\ n > 0 /\ n' = n - 1 /\ hd' = next(hd) /\ tl' = tl
      /\ lba' = lba /\ dat' = dat
    BY DEF dm_wq_flush_one, flush_head
<1>2. PICK h \in LBA, d \in Val : lba[hd] = h /\ dat[hd] = d
    BY DEF DataTypes
<1>3. DataTypes'
    <2>1. img' \in [LBA -> Val] /\ media' \in [LBA -> Val] /\ c_werr' \in Nat
        BY <1>2 DEF dm_wq_flush_one, flush_head, dm_img_write_now, file, DataTypes
    <2>2. n' \in 0 .. N /\ hd' \in Slot
        BY <1>1 DEF DataTypes, next, Slot
    <2> QED
        BY <1>1, <2>1, <2>2 DEF DataTypes
<1>4. /\ slot(0) = hd
      /\ \A i \in 0 .. n' - 1 : slot(i)' = slot(i + 1)
      /\ Ring'
    BY <1>1 DEF DataTypes, slot, Ring, next, Slot
<1>5. OneCopy'
    BY <1>1, <1>4 DEF OneCopy, DataTypes
<1>6. QInv'
    BY <1>3, <1>4, <1>5
<1>7. ReadsRight /\ ReadsRight'
    BY <1>6, ReadValue, PTL
<1>8. \A k \in LBA : k # h /\ img'[k] = img[k] => Read(k)' = Read(k)
    <2> SUFFICES ASSUME NEW k \in LBA, k # h, img'[k] = img[k]
                 PROVE  Read(k)' = Read(k)
        OBVIOUS
    <2>1. CASE \E i \in 0 .. n - 1 : lba[slot(i)] = k
        <3>1. PICK i \in 0 .. n - 1 : lba[slot(i)] = k
            BY <2>1
        <3>2. i # 0 /\ i - 1 \in 0 .. n' - 1 /\ slot(i - 1)' = slot(i)
            BY <1>1, <1>2, <1>4, <3>1 DEF DataTypes
        <3> QED
            BY <1>1, <1>7, <3>1, <3>2 DEF ReadsRight
    <2>2. CASE \A i \in 0 .. n - 1 : lba[slot(i)] # k
        <3>1. \A i \in 0 .. n' - 1 : (lba[slot(i)])' # k
            BY <1>1, <1>4, <2>2 DEF DataTypes
        <3> QED
            BY <1>7, <2>2, <3>1 DEF ReadsRight
    <2> QED
        BY <2>1, <2>2
<1>9. Read(h) = d /\ Read(h)' = img'[h]
    <2>1. \A i \in 0 .. n' - 1 : (lba[slot(i)])' # h
        BY <1>1, <1>2, <1>4 DEF OneCopy, DataTypes
    <2> QED
        BY <1>1, <1>2, <1>4, <1>7, <2>1 DEF ReadsRight, DataTypes
<1>10. CASE dm_img_write_now(lba[hd], dat[hd]) /\ c_werr' = c_werr
    BY <1>2, <1>6, <1>8, <1>9, <1>10 DEF SameReads, dm_img_write_now, DataTypes
<1>11. CASE c_werr' = c_werr + 1 /\ UNCHANGED file
    <2>1. Reads(h, img[h])
        BY <1>2, <1>8, <1>9, <1>11 DEF Reads, file, DataTypes
    <2> QED
        BY <1>2, <1>6, <1>11, <2>1 DEF DataTypes
<1> QED
    BY <1>6, <1>10, <1>11 DEF dm_wq_flush_one, flush_head

\* A queued sector is replaced in place.
LEMMA InPlaceStep ==
    ASSUME QInv, NEW l \in LBA, NEW v \in Val, PushInPlace(l, v)
    PROVE  QInv' /\ Reads(l, v) /\ c_werr' = c_werr
<1> USE WriteQueueAssumption DEF QInv
<1>1. PICK j \in 0 .. n - 1 : lba[slot(j)] = l /\ dm_wq_find(l) = slot(j)
    BY Find DEF PushInPlace
<1>2. /\ dat' = [dat EXCEPT ![slot(j)] = v]
      /\ UNCHANGED <<lba, n, hd, tl, img, media, c_werr>>
    BY <1>1 DEF PushInPlace, file
<1>3. slot(j) \in Slot /\ \A i \in 0 .. n - 1 : slot(i) \in Slot
    BY Slots
<1>4. \A i \in 0 .. n : slot(i)' = slot(i)
    BY <1>2 DEF slot
<1>5. QInv'
    BY <1>2, <1>3, <1>4 DEF DataTypes, Ring, OneCopy
<1>6. ReadsRight /\ ReadsRight'
    BY <1>5, ReadValue, PTL
<1>7. Read(l)' = v
    BY <1>1, <1>2, <1>3, <1>4, <1>6 DEF ReadsRight, DataTypes
<1>8. ASSUME NEW k \in LBA, k # l
      PROVE  Read(k)' = Read(k)
    <2>1. CASE \E i \in 0 .. n - 1 : lba[slot(i)] = k
        <3>1. PICK i \in 0 .. n - 1 : lba[slot(i)] = k
            BY <2>1
        <3>2. slot(i) # slot(j)
            BY <1>1, <1>8, <3>1
        <3>3. dat'[slot(i)] = dat[slot(i)]
            BY <1>2, <1>3, <3>2 DEF DataTypes
        <3> QED
            BY <1>2, <1>4, <1>6, <3>1, <3>3 DEF ReadsRight, DataTypes
    <2>2. CASE \A i \in 0 .. n - 1 : lba[slot(i)] # k
        BY <1>2, <1>4, <1>6, <2>2 DEF ReadsRight, DataTypes
    <2> QED
        BY <2>1, <2>2
<1> QED
    BY <1>2, <1>5, <1>7, <1>8 DEF Reads

\* A new sector when there is room.
LEMMA PushRoomStep ==
    ASSUME QInv, NEW l \in LBA, NEW v \in Val, n < N, PushNew(l, v)
    PROVE  QInv' /\ Reads(l, v) /\ c_werr' = c_werr
<1> USE WriteQueueAssumption DEF QInv
<1>0. PICK m \in 0 .. N - 1, t \in Slot : m = n /\ t = tl
    BY DEF DataTypes
<1>1. /\ n = m /\ tl = t /\ n' = m + 1 /\ tl' = next(tl)
      /\ lba' = [lba EXCEPT ![t] = l] /\ dat' = [dat EXCEPT ![t] = v]
      /\ UNCHANGED <<hd, img, media, c_werr>>
    BY <1>0 DEF PushNew, DataTypes, file
<1>2. \A i \in 0 .. m - 1 : lba[slot(i)] # l
    BY <1>1, Find, Slots DEF PushNew, Slot, NoSlot
<1>3. /\ \A i \in 0 .. m : slot(i)' = slot(i)
      /\ \A i \in 0 .. m - 1 : slot(i) \in Slot /\ slot(i) # t
      /\ slot(m) = t
    BY <1>1, Slots DEF slot, Ring
<1>4. /\ \A i \in 0 .. m - 1 : lba'[slot(i)'] = lba[slot(i)] /\ dat'[slot(i)'] = dat[slot(i)]
      /\ slot(m)' = t /\ lba'[t] = l /\ dat'[t] = v
    BY <1>1, <1>3 DEF DataTypes
<1>5. DataTypes'
    BY <1>1 DEF DataTypes, next, Slot
<1>6. Ring'
    BY <1>1 DEF Ring, slot, next, DataTypes, Slot
<1>7. OneCopy'
    <2>1. \A i \in 0 .. n' - 1 : i \in 0 .. m - 1 \/ i = m
        BY <1>1
    <2>2. \A i \in 0 .. m - 1 : lba'[slot(i)'] = lba[slot(i)] /\ lba[slot(i)] # l
        BY <1>2, <1>4
    <2>3. ASSUME NEW i \in 0 .. n' - 1, NEW j \in 0 .. n' - 1, lba'[slot(i)'] = lba'[slot(j)']
          PROVE  i = j
        BY <1>1, <1>4, <2>1, <2>2, <2>3 DEF OneCopy
    <2> QED
        BY <2>3 DEF OneCopy
<1>8. QInv'
    BY <1>5, <1>6, <1>7
<1>9. ReadsRight /\ ReadsRight'
    BY <1>8, ReadValue, PTL
<1>10. Read(l)' = v
    <2>1. m \in 0 .. n' - 1
        BY <1>1
    <2> QED
        BY <1>4, <1>9, <2>1 DEF ReadsRight
<1>11. ASSUME NEW k \in LBA, k # l
       PROVE  Read(k)' = Read(k)
    <2>1. CASE \E i \in 0 .. n - 1 : lba[slot(i)] = k
        <3>1. PICK i \in 0 .. n - 1 : lba[slot(i)] = k
            BY <2>1
        <3>2. i \in 0 .. n' - 1 /\ i \in 0 .. m - 1
            BY <1>1 DEF DataTypes
        <3> QED
            BY <1>4, <1>9, <3>1, <3>2 DEF ReadsRight
    <2>2. CASE \A i \in 0 .. n - 1 : lba[slot(i)] # k
        <3>1. \A i \in 0 .. n' - 1 : i \in 0 .. m - 1 \/ i = m
            BY <1>1
        <3>2. \A i \in 0 .. n' - 1 : lba'[slot(i)'] # k
            BY <1>1, <1>4, <1>11, <2>2, <3>1
        <3> QED
            BY <1>1, <1>9, <2>2, <3>2 DEF ReadsRight
    <2> QED
        BY <2>1, <2>2
<1> QED
    BY <1>1, <1>8, <1>10, <1>11 DEF Reads

\* A new sector in a full queue: the oldest one leaves and its slot is taken.
LEMMA PushFullStep ==
    ASSUME QInv, NEW l \in LBA, NEW v \in Val, n = N, PushNew(l, v)
    PROVE  /\ QInv'
           /\ \/ Reads(l, v) /\ c_werr' = c_werr
              \/ /\ \E h \in LBA \ {l}, u \in Val :
                        /\ Read(l)' = v /\ Read(h)' = u
                        /\ \A k \in LBA \ {l, h} : Read(k)' = Read(k)
                 /\ c_werr' = c_werr + 1
<1> USE WriteQueueAssumption DEF QInv
<1>0. PICK t \in Slot, h \in LBA, d \in Val : t = hd /\ h = lba[t] /\ d = dat[t]
    BY DEF DataTypes
<1>1. /\ hd = t /\ tl = t /\ lba[t] = h /\ dat[t] = d
      /\ n' = N /\ tl' = next(t) /\ hd' = next(t)
      /\ lba' = [lba EXCEPT ![t] = l] /\ dat' = [dat EXCEPT ![t] = v]
    <2>1. tl = hd
        BY DEF Ring, slot, DataTypes, Slot
    <2> QED
        BY <1>0, <2>1 DEF PushNew, flush_head
<1>2. \A i \in 0 .. N - 1 : lba[slot(i)] # l
    BY Find, Slots DEF PushNew, Slot, NoSlot
<1>3. /\ \A i \in 0 .. N - 2 : slot(i)' = slot(i + 1)
      /\ \A i \in 1 .. N - 1 : slot(i) \in Slot /\ slot(i) # t
      /\ slot(0) = t /\ slot(N - 1)' = t
    BY <1>1 DEF slot, next, Slot
<1>4. /\ \A i \in 0 .. N - 2 : /\ lba'[slot(i)'] = lba[slot(i + 1)]
                               /\ dat'[slot(i)'] = dat[slot(i + 1)]
      /\ lba'[t] = l /\ dat'[t] = v
    BY <1>1, <1>3 DEF DataTypes
<1>5. DataTypes'
    <2>1. img' \in [LBA -> Val] /\ media' \in [LBA -> Val] /\ c_werr' \in Nat
        BY <1>1 DEF PushNew, flush_head, dm_img_write_now, file, DataTypes
    <2>2. next(t) \in Slot
        BY DEF next, Slot
    <2> QED
        BY <1>1, <2>1, <2>2 DEF DataTypes
<1>6. Ring'
    BY <1>1 DEF Ring, slot, next, Slot
<1>7. OneCopy'
    <2>1. \A i \in 0 .. n' - 1 : i \in 0 .. N - 2 \/ i = N - 1
        BY <1>1
    <2>2. \A i \in 0 .. N - 2 : lba'[slot(i)'] = lba[slot(i + 1)] /\ lba[slot(i + 1)] # l
        BY <1>2, <1>4
    <2>3. ASSUME NEW i \in 0 .. n' - 1, NEW j \in 0 .. n' - 1, lba'[slot(i)'] = lba'[slot(j)']
          PROVE  i = j
        <3>1. CASE i \in 0 .. N - 2 /\ j \in 0 .. N - 2
            <4>1. lba[slot(i + 1)] = lba[slot(j + 1)] /\ i + 1 \in 0 .. n - 1 /\ j + 1 \in 0 .. n - 1
                BY <2>2, <2>3, <3>1
            <4>2. i + 1 = j + 1
                BY <4>1 DEF OneCopy
            <4> QED
                BY <4>2
        <3>2. CASE i = N - 1 \/ j = N - 1
            BY <1>3, <1>4, <2>1, <2>2, <2>3, <3>2
        <3> QED
            BY <2>1, <3>1, <3>2
    <2> QED
        BY <2>3 DEF OneCopy
<1>8. QInv'
    BY <1>5, <1>6, <1>7
<1>9. ReadsRight /\ ReadsRight'
    BY <1>8, ReadValue, PTL
<1>10. Read(l)' = v
    BY <1>1, <1>3, <1>4, <1>9 DEF ReadsRight
<1>11. h # l /\ \A i \in 1 .. N - 1 : lba[slot(i)] # h
    <2>1. h # l
        BY <1>1, <1>2, <1>3
    <2>2. ASSUME NEW i \in 1 .. N - 1, lba[slot(i)] = h
          PROVE  FALSE
        <3>1. i \in 0 .. n - 1 /\ 0 \in 0 .. n - 1 /\ lba[slot(i)] = lba[slot(0)]
            BY <1>1, <1>3, <2>2
        <3> QED
            BY <3>1 DEF OneCopy
    <2> QED
        BY <2>1, <2>2
<1>12. Read(h) = d /\ Read(h)' = img'[h]
    <2>1. Read(h) = d
        BY <1>1, <1>3, <1>9 DEF ReadsRight
    <2>2. ASSUME NEW i \in 0 .. n' - 1
          PROVE  lba'[slot(i)'] # h
        <3>1. i \in 0 .. N - 2 \/ i = N - 1
            BY <1>1
        <3> QED
            BY <1>3, <1>4, <1>11, <3>1
    <2> QED
        BY <1>9, <2>1, <2>2 DEF ReadsRight
<1>13. ASSUME NEW k \in LBA, k # l, k # h, img'[k] = img[k]
       PROVE  Read(k)' = Read(k)
    <2>1. CASE \E i \in 0 .. n - 1 : lba[slot(i)] = k
        <3>1. PICK i \in 0 .. n - 1 : lba[slot(i)] = k
            BY <2>1
        <3>2. i # 0
            BY <1>1, <1>3, <1>13, <3>1
        <3>3. PICK j \in 0 .. N - 2 : i = j + 1 /\ j \in 0 .. n' - 1
            BY <1>1, <3>2
        <3> QED
            BY <1>4, <1>9, <3>1, <3>3 DEF ReadsRight
    <2>2. CASE \A i \in 0 .. n - 1 : lba[slot(i)] # k
        <3>1. ASSUME NEW i \in 0 .. n' - 1
              PROVE  lba'[slot(i)'] # k
            <4>1. i \in 0 .. N - 2 \/ i = N - 1
                BY <1>1
            <4>2. i \in 0 .. N - 2 => i + 1 \in 0 .. n - 1
                OBVIOUS
            <4> QED
                BY <1>3, <1>4, <1>13, <2>2, <4>1, <4>2
        <3> QED
            BY <1>9, <1>13, <2>2, <3>1 DEF ReadsRight
    <2> QED
        BY <2>1, <2>2
<1>14. CASE dm_img_write_now(h, d) /\ c_werr' = c_werr
    <2>1. img' = [img EXCEPT ![h] = d]
        BY <1>14 DEF dm_img_write_now
    <2>2. \A k \in LBA \ {l} : Read(k)' = Read(k)
        BY <1>12, <1>13, <2>1 DEF DataTypes
    <2> QED
        BY <1>8, <1>10, <1>14, <2>2 DEF Reads
<1>15. CASE c_werr' = c_werr + 1 /\ UNCHANGED file
    <2>1. img' = img /\ img[h] \in Val
        BY <1>15 DEF file, DataTypes
    <2>2. \A k \in LBA \ {l, h} : Read(k)' = Read(k)
        BY <1>13, <2>1
    <2>3. h \in LBA \ {l} /\ Read(h)' = img[h]
        BY <1>11, <1>12, <2>1
    <2> QED
        BY <1>8, <1>10, <1>15, <2>1, <2>2, <2>3
<1> QED
    BY <1>1, <1>14, <1>15 DEF PushNew, flush_head

-----------------------------------------------------------------------------
\* The steps that leave the queue and the file's contents alone.
LEMMA QuietStep ==
    ASSUME QInv, UNCHANGED <<queue, img, c_werr>>, media' \in [LBA -> Val]
    PROVE  QInv' /\ SameReads
<1>1. UNCHANGED <<lba, dat, n, hd, tl, img, c_werr>>
    BY DEF queue
<1>2. \A i : slot(i)' = slot(i)
    BY <1>1 DEF slot
<1>3. QInv'
    BY <1>1, <1>2 DEF QInv, DataTypes, Ring, OneCopy
<1>4. \A l : Read(l)' = Read(l)
    BY <1>1 DEF Read, divmmc_backend_read, dm_wq_find, slot
<1> QED
    BY <1>3, <1>4 DEF SameReads

\* The restart after a power cut: the queue is empty, the file is the medium.
LEMMA PowerCutStep ==
    ASSUME QInv, PowerCut
    PROVE  QInv' /\ c_werr' = c_werr
<1>1. /\ n' = 0 /\ hd' = 0 /\ tl' = 0 /\ img' = media /\ media' = media
      /\ UNCHANGED <<lba, dat, c_werr>>
    BY DEF PowerCut
<1> QED
    BY <1>1, WriteQueueAssumption DEF QInv, DataTypes, Ring, OneCopy, slot, Slot

\* How each step of the system moves the queue: it keeps QInv, and the reads
\* and the counts change as the sector store allows.
Counted(l, v) ==
    /\ c_wr' = c_wr + 1
    /\ past' = [past EXCEPT ![l] = @ \cup {v}]

AcceptStep ==
    \E l \in LBA, v \in Val : Reads(l, v) /\ c_werr' = c_werr /\ Counted(l, v)
LoseStep ==
    \E l \in LBA, v \in Val : Reads(l, v) /\ c_werr' = c_werr + 1 /\ UNCHANGED accepted
LoseAndAcceptStep ==
    \E l \in LBA, h \in LBA, u \in Val, v \in Val :
        /\ l # h /\ Read(l)' = v /\ Read(h)' = u
        /\ \A k \in LBA \ {l, h} : Read(k)' = Read(k)
        /\ c_werr' = c_werr + 1 /\ Counted(l, v)
StoreStep ==
    \/ SameReads /\ c_werr' = c_werr /\ UNCHANGED accepted
    \/ AcceptStep \/ LoseStep \/ LoseAndAcceptStep
    \/ PowerFails /\ QInv' /\ c_werr' = c_werr /\ UNCHANGED accepted

LEMMA NextQInv ==
    ASSUME QInv, [Next]_vars
    PROVE  QInv' /\ StoreStep
<1>1. CASE \E l \in LBA, v \in Val : divmmc_backend_write(l, v)
    <2>1. PICK l \in LBA, v \in Val : divmmc_backend_write(l, v)
        BY <1>1
    <2>2. Counted(l, v)
        BY <2>1 DEF divmmc_backend_write, Counted
    <2>3. CASE PushInPlace(l, v)
        BY <2>2, <2>3, InPlaceStep DEF StoreStep, AcceptStep
    <2>4. CASE PushNew(l, v) /\ n < N
        BY <2>2, <2>4, PushRoomStep DEF StoreStep, AcceptStep
    <2>5. CASE PushNew(l, v) /\ n = N
        <3>1. /\ QInv'
              /\ \/ Reads(l, v) /\ c_werr' = c_werr
                 \/ /\ \E h \in LBA \ {l}, u \in Val :
                           /\ Read(l)' = v /\ Read(h)' = u
                           /\ \A k \in LBA \ {l, h} : Read(k)' = Read(k)
                    /\ c_werr' = c_werr + 1
            BY <2>5, PushFullStep
        <3> QED
            BY <2>2, <3>1 DEF StoreStep, AcceptStep, LoseAndAcceptStep
    <2>6. n < N \/ n = N
        BY WriteQueueAssumption DEF QInv, DataTypes
    <2> QED
        BY <2>1, <2>3, <2>4, <2>5, <2>6 DEF divmmc_backend_write
<1>2. CASE IdleFlush \/ CloseFlush
    <2>1. dm_wq_flush_one /\ UNCHANGED accepted
        BY <1>2 DEF IdleFlush, CloseFlush
    <2> QED
        BY <2>1, FlushStep DEF StoreStep, LoseStep
<1>3. CASE PowerCut
    BY <1>3, PowerCutStep DEF StoreStep, PowerCut
<1>4. CASE Request \/ ServeOther \/ Quiet \/ CounterWraps \/ OpenImage \/ CloseBegin \/ UNCHANGED vars
    <2>1. UNCHANGED <<queue, img, media, accepted, c_werr>>
        BY <1>4 DEF Request, ServeOther, Quiet, CounterWraps, OpenImage, CloseBegin, vars, file
    <2> QED
        BY <2>1, QuietStep DEF QInv, DataTypes, StoreStep
<1>5. CASE IdleSync \/ CloseEnd
    <2>1. UNCHANGED <<queue, img, accepted, c_werr>> /\ media' \in {media, img}
        BY <1>5 DEF IdleSync, CloseEnd, f_sync
    <2> QED
        BY <2>1, QuietStep DEF QInv, DataTypes, StoreStep
<1> QED
    BY <1>1, <1>2, <1>3, <1>4, <1>5 DEF Next

-----------------------------------------------------------------------------
\* Nothing is anywhere that was not written to its sector.
Queued == {slot(i) : i \in 0 .. n - 1}

Known ==
    /\ past \in [LBA -> SUBSET Val]
    /\ \A l \in LBA : img[l] \in past[l] /\ media[l] \in past[l]
    /\ \A s \in Queued : dat[s] \in past[lba[s]]

LEMMA InitKnown == Init => Known
<1> SUFFICES ASSUME Init
             PROVE  Known
    OBVIOUS
<1>1. past \in [LBA -> SUBSET Val] /\ \A l \in LBA : img[l] \in past[l] /\ media[l] \in past[l]
    BY DEF Init
<1>2. Queued = {}
    BY DEF Init, Queued
<1> QED
    BY <1>1, <1>2 DEF Known

\* What reads return has been written, too.
ReadsKnown == \A l \in LBA : Read(l) \in past[l]

LEMMA ReadKnown == QInv /\ Known => ReadsKnown
<1> SUFFICES ASSUME QInv, Known, NEW l \in LBA
             PROVE  Read(l) \in past[l]
    BY DEF ReadsKnown
<1>1. CASE \E i \in 0 .. n - 1 : lba[slot(i)] = l
    BY <1>1, ReadValue DEF ReadsRight, Known, Queued
<1>2. CASE \A i \in 0 .. n - 1 : lba[slot(i)] # l
    BY <1>2, ReadValue DEF ReadsRight, Known
<1> QED
    BY <1>1, <1>2

\* The head's data goes to the head's sector.
LEMMA FlushHeadKnown ==
    ASSUME QInv, Known, n > 0, flush_head
    PROVE  \A l \in LBA : img'[l] \in past[l] /\ media'[l] \in past[l]
<1>1. hd \in Queued /\ hd \in Slot /\ lba[hd] \in LBA
    BY WriteQueueAssumption DEF QInv, DataTypes, Queued, slot, Slot
<1>2. dat[hd] \in past[lba[hd]]
    BY <1>1 DEF Known
<1>3. CASE dm_img_write_now(lba[hd], dat[hd])
    BY <1>1, <1>2, <1>3 DEF dm_img_write_now, Known, QInv, DataTypes
<1>4. CASE UNCHANGED file
    BY <1>4 DEF file, Known
<1> QED
    BY <1>3, <1>4 DEF flush_head

LEMMA NextKnown ==
    ASSUME QInv, QInv', Known, [Next]_vars
    PROVE  Known'
<1> USE WriteQueueAssumption
<1>1. CASE \E l \in LBA, v \in Val : divmmc_backend_write(l, v)
    <2>1. PICK l \in LBA, v \in Val : divmmc_backend_write(l, v)
        BY <1>1
    <2>2. past' = [past EXCEPT ![l] = @ \cup {v}]
        BY <2>1 DEF divmmc_backend_write
    <2>3. /\ past' \in [LBA -> SUBSET Val] /\ v \in past'[l]
          /\ \A k \in LBA : past[k] \subseteq past'[k]
        BY <2>2 DEF Known
    <2>4. \A s \in Queued : s \in Slot /\ lba[s] \in LBA
        BY Slots DEF QInv, DataTypes, Queued
    <2>5. CASE PushInPlace(l, v)
        <3>1. PICK j \in 0 .. n - 1 : lba[slot(j)] = l /\ dm_wq_find(l) = slot(j)
            BY <2>5, Find DEF PushInPlace, QInv
        <3>2. /\ dat' = [dat EXCEPT ![slot(j)] = v]
              /\ UNCHANGED <<lba, n, hd, img, media>>
            BY <2>5, <3>1 DEF PushInPlace, file
        <3>3. Queued' = Queued
            BY <3>2 DEF Queued, slot
        <3>4. \A s \in Queued : dat'[s] \in past'[lba'[s]]
            BY <2>3, <2>4, <3>1, <3>2 DEF Known, QInv, DataTypes
        <3> QED
            BY <2>3, <3>2, <3>3, <3>4 DEF Known
    <2>6. CASE PushNew(l, v)
        <3>1. \A k \in LBA : img'[k] \in past[k] /\ media'[k] \in past[k]
            BY <2>6, FlushHeadKnown DEF PushNew, file, Known, QInv, DataTypes
        <3>2. lba' = [lba EXCEPT ![tl] = l] /\ dat' = [dat EXCEPT ![tl] = v]
            BY <2>6 DEF PushNew
        <3>3. ASSUME NEW s \in Queued'
              PROVE  s \in Queued \/ s = tl
            <4>1. PICK i \in 0 .. n' - 1 : s = slot(i)'
                BY <3>3 DEF Queued
            <4>2. CASE n < N
                <5>1. n' = n + 1 /\ hd' = hd
                    BY <2>6, <4>2 DEF PushNew, QInv, DataTypes
                <5>2. slot(i)' = slot(i) /\ (i \in 0 .. n - 1 \/ i = n)
                    BY <5>1 DEF slot, QInv, DataTypes
                <5> QED
                    BY <4>1, <5>2 DEF Queued, QInv, Ring
            <4>3. CASE n = N
                <5>1. n' = n /\ hd' = next(hd) /\ tl = hd
                    BY <2>6, <4>3 DEF PushNew, flush_head, QInv, DataTypes, Ring, slot, Slot
                <5>2. (i + 1 \in 0 .. n - 1 /\ slot(i)' = slot(i + 1)) \/ slot(i)' = hd
                    BY <4>3, <5>1 DEF slot, next, QInv, DataTypes, Slot
                <5> QED
                    BY <4>1, <5>1, <5>2 DEF Queued
            <4> QED
                BY <4>2, <4>3 DEF QInv, DataTypes
        <3>4. \A s \in Queued' : dat'[s] \in past'[lba'[s]]
            BY <2>3, <2>4, <3>2, <3>3 DEF Known, QInv, DataTypes
        <3> QED
            BY <2>3, <3>1, <3>4 DEF Known
    <2> QED
        BY <2>1, <2>5, <2>6 DEF divmmc_backend_write
<1>2. CASE IdleFlush \/ CloseFlush
    <2>1. dm_wq_flush_one /\ past' = past
        BY <1>2 DEF IdleFlush, CloseFlush, accepted
    <2>2. n > 0 /\ flush_head /\ n' = n - 1 /\ hd' = next(hd) /\ UNCHANGED <<lba, dat>>
        BY <2>1 DEF dm_wq_flush_one, flush_head
    <2>3. \A i \in 0 .. n' - 1 : i + 1 \in 0 .. n - 1 /\ slot(i)' = slot(i + 1)
        BY <2>2 DEF slot, next, QInv, DataTypes, Slot
    <2>4. Queued' \subseteq Queued
        BY <2>3 DEF Queued
    <2> QED
        BY <2>1, <2>2, <2>4, FlushHeadKnown DEF Known
<1>3. CASE PowerCut
    <2>1. n' = 0 /\ img' = media /\ media' = media /\ past' = past
        BY <1>3 DEF PowerCut, accepted
    <2>2. Queued' = {}
        BY <2>1 DEF Queued
    <2> QED
        BY <2>1, <2>2 DEF Known
<1>4. CASE \/ Request \/ ServeOther \/ Quiet \/ CounterWraps \/ OpenImage \/ CloseBegin
           \/ IdleSync \/ CloseEnd \/ UNCHANGED vars
    <2>1. UNCHANGED <<lba, dat, n, hd, img, past>> /\ media' \in {media, img}
        BY <1>4 DEF Request, ServeOther, Quiet, CounterWraps, OpenImage, CloseBegin, IdleSync,
                    CloseEnd, f_sync, vars, file, queue, accepted
    <2>2. Queued' = Queued
        BY <2>1 DEF Queued, slot
    <2> QED
        BY <2>1, <2>2 DEF Known
<1> QED
    BY <1>1, <1>2, <1>3, <1>4 DEF Next

\* A sector is queued at most once, however the ring has wrapped (dm_wq_push).
THEOREM OneCopyAlways == Spec => []OneCopy
<1>1. QInv /\ [Next]_vars => QInv'
    BY NextQInv
<1>2. QInv => OneCopy
    BY DEF QInv
<1> QED
    BY InitQInv, <1>1, <1>2, PTL DEF Spec

\* Every variable keeps its type.
THEOREM TypeCorrect == Spec => []TypeOK
<1>1. Init => FlagTypes
    BY Zenon DEF Init, FlagTypes
<1>2. Init => c_wr \in 0 .. MaxWrites
    BY WriteQueueAssumption DEF Init
<1>3. FlagTypes /\ [Next]_vars => FlagTypes'
    <2> SUFFICES ASSUME FlagTypes, [Next]_vars
                 PROVE  FlagTypes'
        OBVIOUS
    <2> USE DEF FlagTypes
    <2>1. CASE \E l \in LBA, v \in Val : divmmc_backend_write(l, v)
        BY <2>1, Zenon DEF divmmc_backend_write, PushInPlace, PushNew, flush_head,
                           dm_img_write_now, file
    <2>2. CASE IdleFlush \/ CloseFlush
        BY <2>2, Zenon DEF IdleFlush, CloseFlush, dm_wq_flush_one, flush_head,
                           dm_img_write_now, file
    <2>3. CASE Request \/ ServeOther \/ Quiet \/ CounterWraps \/ OpenImage \/ CloseBegin
        BY <2>3, Zenon DEF Request, ServeOther, Quiet, CounterWraps, OpenImage, CloseBegin, file
    <2>4. CASE IdleSync \/ CloseEnd \/ PowerCut
        BY <2>4, Zenon DEF IdleSync, CloseEnd, PowerCut
    <2>5. CASE UNCHANGED vars
        BY <2>5, Zenon DEF vars, file
    <2> QED
        BY <2>1, <2>2, <2>3, <2>4, <2>5, Zenon DEF Next
<1>4. c_wr \in 0 .. MaxWrites /\ [Next]_vars => (c_wr \in 0 .. MaxWrites)'
    BY WriteQueueAssumption
    DEF Next, divmmc_backend_write, Request, ServeOther, Quiet, CounterWraps, IdleFlush,
        IdleSync, OpenImage, CloseBegin, CloseFlush, CloseEnd, PowerCut, vars, accepted
<1>5. QInv /\ [Next]_vars => QInv'
    BY NextQInv
<1>6. QInv /\ FlagTypes /\ c_wr \in 0 .. MaxWrites => TypeOK
    BY DEF QInv, TypeOK
<1> QED
    BY InitQInv, <1>1, <1>2, <1>3, <1>4, <1>5, <1>6, PTL DEF Spec

\* A sector waits only for a file that is open (divmmc_close flushes first).
THEOREM QueuedOnlyWhileOpenAlways == Spec => []QueuedOnlyWhileOpen
<1>1. Init => QueuedOnlyWhileOpen
    BY DEF Init, QueuedOnlyWhileOpen
<1>2. QInv /\ QueuedOnlyWhileOpen /\ [Next]_vars => QueuedOnlyWhileOpen'
    <2> SUFFICES ASSUME QInv, QueuedOnlyWhileOpen, [Next]_vars, n' > 0
                 PROVE  open'
        BY DEF QueuedOnlyWhileOpen
    <2> USE DEF QueuedOnlyWhileOpen, QInv, DataTypes
    <2>1. CASE \E l \in LBA, v \in Val : divmmc_backend_write(l, v)
        BY <2>1 DEF divmmc_backend_write
    <2>2. CASE IdleFlush \/ CloseFlush
        BY <2>2, WriteQueueAssumption DEF IdleFlush, CloseFlush, dm_wq_flush_one
    <2>3. CASE Request \/ ServeOther \/ Quiet \/ CounterWraps \/ CloseBegin \/ IdleSync
               \/ UNCHANGED vars
        BY <2>3 DEF Request, ServeOther, Quiet, CounterWraps, CloseBegin, IdleSync, vars, queue
    <2>4. CASE OpenImage \/ CloseEnd \/ PowerCut
        BY <2>4 DEF OpenImage, CloseEnd, PowerCut, queue
    <2> QED
        BY <2>1, <2>2, <2>3, <2>4 DEF Next
<1>3. QInv /\ [Next]_vars => QInv'
    BY NextQInv
<1> QED
    BY InitQInv, <1>1, <1>2, <1>3, PTL DEF Spec

\* Whenever no f_sync is due, the medium has what the file has, if f_sync works:
\* each f_write raises g_dm_sync_due, nothing else changes the file, and what
\* clears it has synced, or has lost the difference with the power.
SyncedOrDue == ~SyncFails /\ ~sync_due => media = img

LEMMA FlushKeepsDue ==
    ASSUME SyncedOrDue, flush_head
    PROVE  SyncedOrDue'
  BY DEF SyncedOrDue, flush_head, dm_img_write_now, file

\* Nothing is lost by a power cut while the queue is empty and no sync is due,
\* however the writes, flushes, closes and earlier power cuts came about.
THEOREM QuietMeansDurableAlways == Spec => []QuietMeansDurable
<1>1. Init => SyncedOrDue
  BY DEF Init, SyncedOrDue
<1>2. SyncedOrDue /\ [Next]_vars => SyncedOrDue'
  <2> SUFFICES ASSUME SyncedOrDue, [Next]_vars
               PROVE  SyncedOrDue'
    OBVIOUS
  <2>1. ASSUME NEW l \in LBA, NEW x \in Val, divmmc_backend_write(l, x)
        PROVE  SyncedOrDue'
    BY <2>1, FlushKeepsDue DEF divmmc_backend_write, PushInPlace, PushNew, SyncedOrDue, file
  <2>2. CASE Request \/ ServeOther \/ Quiet \/ CounterWraps \/ OpenImage \/ CloseBegin
    BY <2>2 DEF Request, ServeOther, Quiet, CounterWraps, OpenImage, CloseBegin,
                SyncedOrDue, file
  <2>3. CASE IdleFlush \/ CloseFlush
    BY <2>3, FlushKeepsDue DEF IdleFlush, CloseFlush, dm_wq_flush_one
  <2>4. CASE IdleSync \/ CloseEnd
    BY <2>4 DEF IdleSync, CloseEnd, f_sync, SyncedOrDue
  <2>5. CASE PowerCut
    BY <2>5 DEF PowerCut, SyncedOrDue
  <2>6. CASE UNCHANGED vars
    BY <2>6 DEF vars, file, SyncedOrDue
  <2> QED BY <2>1, <2>2, <2>3, <2>4, <2>5, <2>6 DEF Next
<1>3. SyncedOrDue => QuietMeansDurable
  BY DEF SyncedOrDue, QuietMeansDurable
<1> QED BY <1>1, <1>2, <1>3, PTL DEF Spec

\* The queue implements the sector store: at any moment a read returns the
\* last accepted write of its sector, or an earlier one if a loss has been
\* counted or the power was cut (dm_wq_push, dm_wq_flush_one,
\* divmmc_backend_read).
THEOREM StoreImplemented == Spec => ImplementsStore
<1> DEFINE s == [l \in LBA |-> divmmc_backend_read(l)]
           t == [l \in LBA |-> divmmc_backend_read(l)']
<1>1. Init => Store!Init
    <2> SUFFICES ASSUME Init
                 PROVE  Store!Init
        OBVIOUS
    <2>1. QInv /\ c_werr = 0 /\ c_wr = 0
        BY InitQInv DEF Init
    <2>2. \A l \in LBA : divmmc_backend_read(l) \in Val
        BY <2>1, ReadTypes DEF Read, ReadsTyped
    <2>3. \A l \in LBA : divmmc_backend_read(l) \in past[l]
        BY <2>1, InitKnown, ReadKnown DEF Read, ReadsKnown
    <2>4. past = [l \in LBA |-> {divmmc_backend_read(l)}]
        BY <2>3 DEF Init
    <2> QED
        BY <2>1, <2>2, <2>4 DEF Store!Init
<1>2. QInv /\ [Next]_vars => QInv'
    BY NextQInv
<1>3. QInv /\ QInv' /\ Known /\ [Next]_vars => Known'
    BY NextKnown
<1>4. QInv /\ QInv' /\ Known /\ Known' /\ [Next]_vars => [Store!Next]_<<s, past, c_wr, c_werr>>
    <2> SUFFICES ASSUME QInv, QInv', Known, Known', [Next]_vars
                 PROVE  Store!Next \/ UNCHANGED <<s, past, c_wr, c_werr>>
        OBVIOUS
    <2>1. StoreStep
        BY NextQInv
    <2>2. s' = t
        OBVIOUS
    <2>3. \A l \in LBA : Read(l)' \in past'[l]
        <3>1. ReadsKnown'
            BY ReadKnown, PTL
        <3> QED
            BY <3>1 DEF ReadsKnown
    <2>4. CASE SameReads /\ c_werr' = c_werr /\ UNCHANGED accepted
        BY <2>2, <2>4 DEF SameReads, Read, accepted
    <2>5. CASE AcceptStep
        <3>1. PICK l \in LBA, v \in Val : Reads(l, v) /\ c_werr' = c_werr /\ Counted(l, v)
            BY <2>5 DEF AcceptStep
        <3>2. t = [s EXCEPT ![l] = v]
            BY <3>1 DEF Reads, Read
        <3>3. Store!Accept(l, v)
            BY <2>2, <3>1, <3>2 DEF Store!Accept, Store!Remember, Counted
        <3> QED
            BY <3>3 DEF Store!Next
    <2>6. CASE LoseStep
        <3>1. PICK l \in LBA, v \in Val :
                  Reads(l, v) /\ c_werr' = c_werr + 1 /\ UNCHANGED accepted
            BY <2>6 DEF LoseStep
        <3>2. t = [s EXCEPT ![l] = v]
            BY <3>1 DEF Reads, Read
        <3>3. v \in past[l] /\ UNCHANGED <<past, c_wr>>
            BY <2>3, <3>1 DEF Reads, accepted
        <3>4. Store!Lose(l, v)
            BY <2>2, <3>1, <3>2, <3>3 DEF Store!Lose
        <3> QED
            BY <3>4 DEF Store!Next
    <2>7. CASE LoseAndAcceptStep
        <3>1. PICK l \in LBA, h \in LBA, u \in Val, v \in Val :
                   /\ l # h /\ Read(l)' = v /\ Read(h)' = u
                   /\ \A k \in LBA \ {l, h} : Read(k)' = Read(k)
                   /\ c_werr' = c_werr + 1 /\ Counted(l, v)
            BY <2>7 DEF LoseAndAcceptStep
        <3>2. t = [s EXCEPT ![h] = u, ![l] = v]
            BY <3>1 DEF Read
        <3>3. u \in past[h]
            BY <2>3, <3>1 DEF Counted, Known
        <3>4. Store!LoseAndAccept(h, u, l, v)
            BY <2>2, <3>1, <3>2, <3>3 DEF Store!LoseAndAccept, Store!Remember, Counted
        <3> QED
            BY <3>4 DEF Store!Next
    <2>8. CASE PowerFails /\ c_werr' = c_werr /\ UNCHANGED accepted
        <3>1. ReadsTyped'
            BY ReadTypes, PTL
        <3>2. t \in [LBA -> Val]
            BY <3>1 DEF Read, ReadsTyped
        <3>3. \A l \in LBA : t[l] \in past[l]
            BY <2>3, <2>8 DEF Read, accepted
        <3>4. Store!PowerCut
            BY <2>2, <2>8, <3>2, <3>3 DEF Store!PowerCut, accepted
        <3> QED
            BY <3>4 DEF Store!Next
    <2> QED
        BY <2>1, <2>4, <2>5, <2>6, <2>7, <2>8 DEF StoreStep
<1> QED
    BY InitQInv, InitKnown, <1>1, <1>2, <1>3, <1>4, PTL DEF Spec, ImplementsStore, Store!Spec
=============================================================================
