----------------------------- MODULE TapeProofs -----------------------------
(***************************************************************************)
(* Tape for any files, any sizes of ring and FIFO, any cushion, any number *)
(* of pauses and of tapes started over a playing one: what the machine     *)
(* hears is the recording the file says, in its order from its beginning;  *)
(* a tape that ends by itself was heard to the end, but for what the       *)
(* player held when nothing had moved for three seconds; and the replay    *)
(* time tape_total_T works out before the first pulse is the time of what  *)
(* is delivered.                                                           *)
(*                                                                         *)
(* The invariant is one equation: heard, queued in the fabric, queued in   *)
(* the ring and still to come are together what the code sends of the      *)
(* file.  What is still to come is read off the producer: the rest of its  *)
(* block from its phase and counters, and the rest of the file from where  *)
(* its walk stands, half-way through a loop included.  Apart from it, what *)
(* the code sends replays what the file says, block by block.              *)
(*                                                                         *)
(* Sequences are folded by recursive functions, so the proof first shows   *)
(* that such functions exist, by induction on the length over sets.        *)
(***************************************************************************)
EXTENDS Tape, WellFoundedInduction, TLAPS

LEMMA LeastNat ==
    ASSUME NEW T, T \subseteq Nat, T # {}
    PROVE  \E m \in T : \A k \in T : m <= k
<1>1. OpToRel(<, Nat) = {ss \in Nat \X Nat : ss[1] < ss[2]}
  BY DEF OpToRel
<1>2. PICK m \in T : \A k \in T : ~ (<<k, m>> \in OpToRel(<, Nat))
  BY WFMin, NatLessThanWellFounded
<1>3. \A k \in T : ~(k < m)
  BY <1>1, <1>2
<1> QED BY <1>3

LEMMA Induction ==
    ASSUME NEW S, 0 \in S, \A n \in Nat : n \in S => n + 1 \in S
    PROVE  \A n \in Nat : n \in S
<1> DEFINE T == {n \in Nat : n \notin S}
<1> SUFFICES ASSUME T # {} PROVE FALSE
  OBVIOUS
<1>1. PICK m \in T : \A k \in T : m <= k
  BY LeastNat
<1>2. m # 0
  BY <1>1
<1>3. m - 1 \in Nat /\ m - 1 \notin T
  BY <1>1, <1>2
<1> QED BY <1>1, <1>3

\* Recursion: a function on 0 .. n that begins with c and goes on by D exists.
Goes(g, n, X, c, D) ==
    /\ g \in [0 .. n -> X] /\ g[0] = c
    /\ \A k \in 1 .. n : g[k] = D[k][g[k - 1]]

LEMMA Recursion ==
    ASSUME NEW n \in Nat, NEW X, NEW c \in X, NEW D \in [1 .. n -> [X -> X]]
    PROVE  \E g : Goes(g, n, X, c, D)
<1> DEFINE Upto(m, g) == Goes(g, m, X, c, D)
           S == {m \in Nat : m <= n => \E g : Upto(m, g)}
<1>1. 0 \in S
  <2>1. Upto(0, [k \in 0 .. 0 |-> c])
    BY DEF Goes
  <2> QED BY <2>1
<1>2. ASSUME NEW m \in Nat, m \in S  PROVE m + 1 \in S
  <2> SUFFICES ASSUME m + 1 <= n PROVE \E g : Upto(m + 1, g)
    OBVIOUS
  <2>1. PICK g : Upto(m, g)
    BY <1>2
  <2> DEFINE h == [k \in 0 .. m + 1 |-> IF k <= m THEN g[k] ELSE D[m + 1][g[m]]]
  <2>2. g[m] \in X /\ m + 1 \in 1 .. n
    BY <2>1 DEF Goes
  <2>3. D[m + 1][g[m]] \in X
    BY <2>2
  <2>4. h \in [0 .. m + 1 -> X] /\ h[0] = c
    BY <2>1, <2>3 DEF Goes
  <2>5. \A k \in 1 .. m + 1 : h[k] = D[k][h[k - 1]]
    BY <2>1 DEF Goes
  <2>6. Upto(m + 1, h)
    BY <2>4, <2>5 DEF Goes
  <2> QED BY <2>6
<1> HIDE DEF S
<1>3. n \in S
  BY <1>1, <1>2, Induction
<1> QED BY <1>3 DEF S

-----------------------------------------------------------------------------
(* Sequences of sequences laid end to end. *)
Flat(ss) ==
    CHOOSE g : g = [i \in 1 .. Len(ss) |-> IF i = 1 THEN ss[i] ELSE g[i - 1] \o ss[i]]

Laid(ss, X) ==
    /\ Len(ss) \in Nat /\ \A k \in 1 .. Len(ss) : Flat(ss)[k] \in Seq(X)
    /\ Len(ss) > 0 => Flat(ss)[1] = ss[1]
    /\ \A k \in 2 .. Len(ss) : Flat(ss)[k] = Flat(ss)[k - 1] \o ss[k]
    /\ FlattenSeq(ss) = IF Len(ss) = 0 THEN <<>> ELSE Flat(ss)[Len(ss)]

LEMMA FlatDef == ASSUME NEW X, NEW ss \in Seq(Seq(X)) PROVE Laid(ss, X)
<1> DEFINE n == Len(ss)
           D == [k \in 1 .. n |-> [x \in Seq(X) |-> x \o ss[k]]]
           Is(g) == g = [i \in 1 .. Len(ss) |-> IF i = 1 THEN ss[i] ELSE g[i - 1] \o ss[i]]
<1>1. n \in Nat /\ \A k \in 1 .. n : ss[k] \in Seq(X)
  OBVIOUS
<1>2. D \in [1 .. n -> [Seq(X) -> Seq(X)]]
  <2> SUFFICES ASSUME NEW k \in 1 .. n, NEW x \in Seq(X)  PROVE x \o ss[k] \in Seq(X)
    OBVIOUS
  <2> QED BY <1>1
<1>3. PICK h : Goes(h, n, Seq(X), <<>>, D)
  <2> HIDE DEF D, n
  <2>1. <<>> \in Seq(X)
    OBVIOUS
  <2> QED BY <1>1, <1>2, <2>1, Recursion
<1>4. \A k \in 1 .. n : h[k] = h[k - 1] \o ss[k] /\ h[k] \in Seq(X) /\ h[k - 1] \in Seq(X)
  <2> SUFFICES ASSUME NEW k \in 1 .. n
               PROVE h[k] = h[k - 1] \o ss[k] /\ h[k] \in Seq(X) /\ h[k - 1] \in Seq(X)
    OBVIOUS
  <2>1. k - 1 \in 0 .. n /\ k \in 0 .. n
    BY <1>1
  <2> HIDE DEF D
  <2>2. h[k - 1] \in Seq(X) /\ h[k] \in Seq(X) /\ h[k] = D[k][h[k - 1]]
    BY <1>3, <2>1 DEF Goes
  <2> QED BY <2>2 DEF D
<1>5. n > 0 => h[1] = ss[1]
  <2> SUFFICES ASSUME n > 0 PROVE h[1] = ss[1]
    OBVIOUS
  <2>1. 1 \in 1 .. n /\ 1 - 1 = 0
    BY ONLY <1>1, n > 0
  <2>2. ss[1] \in Seq(X)
    BY ONLY <1>1, <2>1
  <2>3. h[1] = h[0] \o ss[1]
    BY ONLY <1>4, <2>1
  <2>4. h[0] = <<>>
    BY <1>3 DEF Goes
  <2> HIDE DEF n
  <2> QED BY ONLY <2>2, <2>3, <2>4
<1> DEFINE g == [i \in 1 .. n |-> h[i]]
<1>6. Is(g)
  <2>1. ASSUME NEW i \in 1 .. n  PROVE g[i] = IF i = 1 THEN ss[i] ELSE g[i - 1] \o ss[i]
    <3>1. CASE i = 1
      BY <1>1, <1>5, <3>1
    <3>2. CASE i # 1
      <4>1. i - 1 \in 1 .. n
        BY <1>1, <3>2
      <4>2. h[i] = h[i - 1] \o ss[i]
        BY ONLY <1>4, i \in 1 .. n
      <4> QED BY ONLY <4>1, <4>2, <3>2, i \in 1 .. n
    <3> QED BY <3>1, <3>2
  <2> QED BY <2>1
<1>7. Is(Flat(ss))
  <2> HIDE DEF g
  <2> QED BY <1>6 DEF Flat
<1>8. \A k \in 2 .. n : Flat(ss)[k] = Flat(ss)[k - 1] \o ss[k]
  <2> SUFFICES ASSUME NEW k \in 2 .. n  PROVE Flat(ss)[k] = Flat(ss)[k - 1] \o ss[k]
    OBVIOUS
  <2>1. k \in 1 .. n /\ k # 1
    BY <1>1
  <2> QED BY <1>7, <2>1
<1>9. n > 0 => Flat(ss)[1] = ss[1]
  <2> SUFFICES ASSUME n > 0 PROVE Flat(ss)[1] = ss[1]
    OBVIOUS
  <2>1. 1 \in 1 .. n
    BY <1>1
  <2> QED BY <1>7, <2>1
<1> DEFINE S == {k \in Nat : k + 1 <= n => Flat(ss)[k + 1] \in Seq(X)}
<1>10. 0 \in S
  BY <1>1, <1>9
<1>11. ASSUME NEW k \in Nat, k \in S  PROVE k + 1 \in S
  <2> SUFFICES ASSUME k + 2 <= n PROVE Flat(ss)[k + 2] \in Seq(X)
    OBVIOUS
  <2>1. Flat(ss)[k + 1] \in Seq(X) /\ ss[k + 2] \in Seq(X)
    BY <1>1, <1>11
  <2>2. Flat(ss)[k + 2] = Flat(ss)[k + 1] \o ss[k + 2]
    <3> HIDE DEF n
    <3>1. n \in Nat
      BY <1>1
    <3>2. k + 2 \in 2 .. n /\ (k + 2) - 1 = k + 1
      BY ONLY <3>1, k \in Nat, k + 2 <= n
    <3> QED BY ONLY <1>8, <3>2
  <2> QED BY ONLY <2>1, <2>2
<1>12. \A k \in Nat : k \in S
  <2> HIDE DEF S
  <2> QED BY <1>10, <1>11, Induction
<1>13. \A k \in 1 .. n : Flat(ss)[k] \in Seq(X)
  <2> SUFFICES ASSUME NEW k \in 1 .. n PROVE Flat(ss)[k] \in Seq(X)
    OBVIOUS
  <2>1. k - 1 \in Nat /\ (k - 1) + 1 = k /\ k <= n
    BY ONLY <1>1, k \in 1 .. n
  <2>2. k - 1 \in S
    BY ONLY <1>12, <2>1
  <2> QED BY <2>1, <2>2
<1>14. FlattenSeq(ss) = IF n = 0 THEN <<>> ELSE Flat(ss)[n]
  <2>1. n = 0 => ss = <<>>
    OBVIOUS
  <2> QED BY <2>1 DEF FlattenSeq, Flat
<1> HIDE DEF n
<1>15. n = Len(ss)
  BY DEF n
<1> QED BY ONLY <1>1, <1>8, <1>9, <1>13, <1>14, <1>15 DEF Laid

LEMMA FlatType ==
    ASSUME NEW X, NEW ss \in Seq(Seq(X))
    PROVE  FlattenSeq(ss) \in Seq(X)
<1>1. Laid(ss, X)
  BY FlatDef
<1>2. <<>> \in Seq(X)
  OBVIOUS
<1> QED BY ONLY <1>1, <1>2 DEF Laid

LEMMA FlatEmpty == FlattenSeq(<<>>) = <<>>
  BY DEF FlattenSeq

\* One more at the end.
LEMMA FlatAppend ==
    ASSUME NEW X, NEW ss \in Seq(Seq(X)), NEW x \in Seq(X)
    PROVE  FlattenSeq(Append(ss, x)) = FlattenSeq(ss) \o x
<1> DEFINE n == Len(ss)
           rr == Append(ss, x)
           S == {k \in Nat : k + 1 <= n => Flat(rr)[k + 1] = Flat(ss)[k + 1]}
<1>1. /\ rr \in Seq(Seq(X)) /\ Len(rr) = n + 1 /\ n \in Nat /\ rr[n + 1] = x
      /\ \A k \in 1 .. n : rr[k] = ss[k]
  OBVIOUS
<1>2. Laid(ss, X)
  BY FlatDef
<1> HIDE DEF rr
<1>3. Laid(rr, X)
  BY <1>1, FlatDef
<1>4. FlattenSeq(ss) = IF n = 0 THEN <<>> ELSE Flat(ss)[n]
  BY <1>2 DEF Laid
<1> HIDE DEF n
<1>5. n = Len(ss)
  BY DEF n
<1>6. 0 \in S
  BY ONLY <1>1, <1>2, <1>3, <1>5 DEF Laid, S
<1>7. ASSUME NEW k \in Nat, k \in S  PROVE k + 1 \in S
  <2> SUFFICES ASSUME k + 2 <= n PROVE Flat(rr)[k + 2] = Flat(ss)[k + 2]
    OBVIOUS
  <2>1. k + 2 \in 2 .. n /\ k + 2 \in 2 .. n + 1 /\ (k + 2) - 1 = k + 1 /\ k + 2 \in 1 .. n
    BY ONLY <1>1, k \in Nat, k + 2 <= n
  <2>2. Flat(rr)[k + 2] = Flat(rr)[k + 1] \o rr[k + 2]
    BY ONLY <1>1, <1>3, <2>1 DEF Laid
  <2>3. Flat(ss)[k + 2] = Flat(ss)[k + 1] \o ss[k + 2]
    BY ONLY <1>2, <1>5, <2>1 DEF Laid
  <2>4. Flat(rr)[k + 1] = Flat(ss)[k + 1]
    BY <1>7, <1>1
  <2> QED BY ONLY <1>1, <2>1, <2>2, <2>3, <2>4
<1>8. \A k \in Nat : k \in S
  <2> HIDE DEF S
  <2> QED BY <1>6, <1>7, Induction
<1>9. FlattenSeq(rr) = Flat(rr)[n + 1]
  BY ONLY <1>1, <1>3 DEF Laid
<1>10. CASE n = 0
  <2>1. Flat(rr)[1] = rr[1]
    BY ONLY <1>1, <1>3 DEF Laid
  <2>2. FlattenSeq(ss) = <<>> /\ FlattenSeq(rr) = x
    BY ONLY <1>1, <1>4, <1>9, <1>10, <2>1
  <2>3. <<>> \o x = x
    BY ONLY x \in Seq(X)
  <2> QED BY ONLY <2>2, <2>3 DEF rr
<1>11. CASE n # 0
  <2>1. n - 1 \in Nat /\ (n - 1) + 1 = n /\ n + 1 \in 2 .. n + 1 /\ (n + 1) - 1 = n /\ n <= n
    BY ONLY <1>1, <1>11
  <2>2. n - 1 \in S
    BY ONLY <1>8, <2>1
  <2>3. Flat(rr)[n] = Flat(ss)[n]
    BY ONLY <2>1, <2>2 DEF S
  <2>4. Flat(rr)[n + 1] = Flat(rr)[n] \o x
    BY ONLY <1>1, <1>3, <2>1 DEF Laid
  <2> QED BY ONLY <1>4, <1>9, <1>11, <2>3, <2>4 DEF rr
<1> QED BY <1>10, <1>11

LEMMA ConcatEmpty ==
    ASSUME NEW X, NEW s \in Seq(X)
    PROVE  s \o <<>> = s /\ <<>> \o s = s
  OBVIOUS

LEMMA Associative ==
    ASSUME NEW X, NEW a \in Seq(X), NEW b \in Seq(X), NEW c \in Seq(X)
    PROVE  (a \o b) \o c = a \o (b \o c) /\ a \o b \in Seq(X) /\ b \o c \in Seq(X)
  OBVIOUS

Regrouped(a, b, c) == (a \o b) \o c = a \o (b \o c)
LEMMA Regroup ==
    ASSUME NEW X, NEW a \in Seq(X), NEW b \in Seq(X), NEW c \in Seq(X)
    PROVE  Regrouped(a, b, c)
  BY Associative DEF Regrouped

\* The last of a sequence that is not empty.
LEMMA EndOf ==
    ASSUME NEW X, NEW n \in Nat, NEW s \in Seq(X), Len(s) = n + 1
    PROVE  \E r \in Seq(X), x \in X : s = Append(r, x) /\ Len(r) = n
<1> DEFINE r == SubSeq(s, 1, n)
<1>1. r \in Seq(X) /\ Len(r) = n /\ s[n + 1] \in X /\ s = Append(r, s[n + 1])
  OBVIOUS
<1> QED BY <1>1

LEMMA FlatConcat ==
    ASSUME NEW X, NEW a \in Seq(Seq(X)), NEW b \in Seq(Seq(X))
    PROVE  FlattenSeq(a \o b) = FlattenSeq(a) \o FlattenSeq(b)
<1> DEFINE Y == Seq(X)
           S == {n \in Nat : \A c \in Seq(Y) :
                    Len(c) = n => FlattenSeq(a \o c) = FlattenSeq(a) \o FlattenSeq(c)}
<1>1. 0 \in S
  <2> SUFFICES ASSUME NEW c \in Seq(Y), Len(c) = 0
               PROVE FlattenSeq(a \o c) = FlattenSeq(a) \o FlattenSeq(c)
    OBVIOUS
  <2>1. c = <<>> /\ a \o c = a
    OBVIOUS
  <2>2. FlattenSeq(a) \o <<>> = FlattenSeq(a)
    BY FlatType, ConcatEmpty
  <2> QED BY <2>1, <2>2, FlatEmpty
<1>2. ASSUME NEW n \in Nat, n \in S  PROVE n + 1 \in S
  <2> SUFFICES ASSUME NEW c \in Seq(Y), Len(c) = n + 1
               PROVE FlattenSeq(a \o c) = FlattenSeq(a) \o FlattenSeq(c)
    OBVIOUS
  <2>1. PICK r \in Seq(Y), x \in Y : c = Append(r, x) /\ Len(r) = n
    <3> HIDE DEF Y
    <3> QED BY EndOf
  <2>2. a \o c = Append(a \o r, x) /\ a \o r \in Seq(Y)
    <3> HIDE DEF Y
    <3>1. a \in Seq(Y)
      BY DEF Y
    <3> QED BY <2>1, <3>1
  <2>3. FlattenSeq(a \o r) = FlattenSeq(a) \o FlattenSeq(r)
    BY <1>2, <2>1
  <2>4. FlattenSeq(a \o c) = (FlattenSeq(a) \o FlattenSeq(r)) \o x
    BY <2>2, <2>3, FlatAppend, ZenonT(40)
  <2>5. FlattenSeq(c) = FlattenSeq(r) \o x
    BY <2>1, FlatAppend
  <2>6. FlattenSeq(a) \in Seq(X) /\ FlattenSeq(r) \in Seq(X) /\ x \in Seq(X)
    BY FlatType
  <2>7. (FlattenSeq(a) \o FlattenSeq(r)) \o x = FlattenSeq(a) \o (FlattenSeq(r) \o x)
    <3>1. Regrouped(FlattenSeq(a), FlattenSeq(r), x)
      BY ONLY <2>6, Regroup, ZenonT(40)
    <3> QED BY ONLY <3>1, Zenon DEF Regrouped
  <2> QED BY ONLY <2>4, <2>5, <2>7
<1>3. \A n \in Nat : n \in S
  <2> HIDE DEF S
  <2> QED BY <1>1, <1>2, Induction
<1>4. Len(b) \in S /\ b \in Seq(Y)
  BY <1>3
<1> QED BY <1>4

LEMMA FlatOne ==
    ASSUME NEW X, NEW x \in Seq(X)
    PROVE  FlattenSeq(<<x>>) = x
<1>1. <<x>> \in Seq(Seq(X)) /\ Len(<<x>>) = 1 /\ <<x>>[1] = x
  OBVIOUS
<1>2. Laid(<<x>>, X)
  BY <1>1, FlatDef
<1> QED BY ONLY <1>1, <1>2 DEF Laid

\* The first of those from k on, and the rest.
LEMMA FlatSplit ==
    ASSUME NEW X, NEW ss \in Seq(Seq(X)), NEW e \in Nat, e <= Len(ss), NEW k \in 1 .. e
    PROVE  /\ FlattenSeq(SubSeq(ss, k, e)) = ss[k] \o FlattenSeq(SubSeq(ss, k + 1, e))
           /\ ss[k] \in Seq(X) /\ FlattenSeq(SubSeq(ss, k + 1, e)) \in Seq(X)
           /\ FlattenSeq(SubSeq(ss, k, e)) \in Seq(X)
<1> DEFINE Y == Seq(X)
<1>1. ss \in Seq(Y)
  OBVIOUS
<1>2. /\ SubSeq(ss, k, e) = <<ss[k]>> \o SubSeq(ss, k + 1, e) /\ ss[k] \in Y
      /\ SubSeq(ss, k + 1, e) \in Seq(Y) /\ SubSeq(ss, k, e) \in Seq(Y) /\ <<ss[k]>> \in Seq(Y)
  <2> HIDE DEF Y
  <2> QED BY ONLY <1>1, e \in Nat, e <= Len(ss), k \in 1 .. e
<1>3. FlattenSeq(<<ss[k]>> \o SubSeq(ss, k + 1, e)) =
         FlattenSeq(<<ss[k]>>) \o FlattenSeq(SubSeq(ss, k + 1, e))
  BY <1>2, FlatConcat
<1> QED BY <1>2, <1>3, FlatOne, FlatType

LEMMA FlatNone ==
    ASSUME NEW ss, NEW k \in Int, NEW e \in Int, k > e
    PROVE  FlattenSeq(SubSeq(ss, k, e)) = <<>>
<1>1. SubSeq(ss, k, e) = <<>>
  OBVIOUS
<1> QED BY <1>1, FlatEmpty

\* A sequence repeated once more.
LEMMA TimesMore ==
    ASSUME NEW X, NEW s \in Seq(X), NEW n \in Nat
    PROVE  /\ Times(n, s) \in Seq(X) /\ Times(0, s) = <<>>
           /\ Times(n + 1, s) = s \o Times(n, s)
<1> DEFINE Y == Seq(X)
           R(m) == [i \in 1 .. m |-> s]
<1>1. \A m \in Nat : R(m) \in Seq(Y)
  <2> HIDE DEF Y
  <2>1. s \in Y
    BY DEF Y
  <2> QED BY <2>1
<1>2. R(n + 1) = <<s>> \o R(n) /\ <<s>> \in Seq(Y)
  <2> HIDE DEF Y
  <2>1. s \in Y
    BY DEF Y
  <2> QED BY <2>1
<1>3. R(0) = <<>>
  OBVIOUS
<1>4. FlattenSeq(<<s>> \o R(n)) = FlattenSeq(<<s>>) \o FlattenSeq(R(n))
  BY <1>1, <1>2, FlatConcat
<1> QED BY <1>1, <1>2, <1>3, <1>4, FlatOne, FlatType, FlatEmpty DEF Times

-----------------------------------------------------------------------------
(* What a well-formed block says. *)
Steering == {"loop", "endloop", "info", "bad"}
Sound == [dur : Duration, rom : BOOLEAN, first : BOOLEAN]
WithData == {"std", "turbo", "data"}

(***************************************************************************)
(* What the code sends of a file, in the order the file says: a pause with *)
(* the length of a descriptor, each pulse with the level after the one     *)
(* before.                                                                 *)
(***************************************************************************)
SentMarked(b, lens, start) ==
    [i \in 1 .. Len(lens) |-> [dur |-> lens[i], rom |-> b.id = "std", first |-> start /\ i = 1]]
SentSilence(b) ==
    IF PauseLen(b) = 0 THEN <<>>
    ELSE <<[dur |-> Wire(PauseLen(b)), rom |-> FALSE, first |-> FALSE]>>
SentBlock(b) == SentMarked(b, Lengths(b), TRUE) \o SentSilence(b)
SentPlain(t) ==
    [i \in DOMAIN Blocks(t) |->
        IF Blocks(t)[i].id \in Steering THEN <<>> ELSE SentBlock(Blocks(t)[i])]
SentBody(t, i) == FlattenSeq(SubSeq(SentPlain(t), i + 1, LoopEnd(t, i) - 1))
SentParts(t) ==
    [i \in DOMAIN Blocks(t) |->
        CASE Cut(t, i) -> <<>>
          [] ~Cut(t, i) /\ Blocks(t)[i].id = "loop" ->
               IF Blocks(t)[i].times > 1 THEN Times(Blocks(t)[i].times - 1, SentBody(t, i)) ELSE <<>>
          [] OTHER -> SentPlain(t)[i]]
SentUnrolled(t) == FlattenSeq(SentParts(t))
Levelled(s, level) ==
    [i \in 1 .. Len(s) |->
        [dur |-> s[i].dur, lvl |-> (level + i - 1) % 2, rom |-> s[i].rom, first |-> s[i].first]]
Sent(t) == IF Listed(t) THEN Tapes[t].pulses ELSE Levelled(SentUnrolled(t), 0)

LEMMA Fields ==
    ASSUME NEW x \in Block
    PROVE  /\ x.id \in {"std", "turbo", "tone", "pulses", "data", "pause"} \cup Steering
           /\ x.id \in WithData => x.data \in Bytes
           /\ x.id \in WithData \cup {"pause"} => x.ms \in Word
           /\ x.id \in {"turbo", "data"} => x.bit \in Word \X Word /\ x.used \in 1 .. BITS
           /\ x.id \in {"turbo", "tone"} => x.pilot \in Word /\ x.count \in Word
           /\ x.id = "turbo" => x.sync \in Word \X Word
           /\ x.id = "std" => x.header \in BOOLEAN
           /\ x.id = "pulses" => x.lens \in Seq(Word)
           /\ x.id = "loop" => x.times \in Word
<1>1. CASE x \in [id : {"std"}, header : BOOLEAN, data : Bytes, ms : Word]
  BY <1>1 DEF Steering, WithData
<1>2. CASE x \in [id : {"turbo"}, pilot : Word, count : Word, sync : Word \X Word, bit : Word \X Word,
                  used : 1 .. BITS, data : Bytes, ms : Word]
  BY <1>2 DEF Steering, WithData
<1>3. CASE x \in [id : {"tone"}, pilot : Word, count : Word]
  BY <1>3 DEF Steering, WithData
<1>4. CASE x \in [id : {"pulses"}, lens : Seq(Word)]
  BY <1>4 DEF Steering, WithData
<1>5. CASE x \in [id : {"data"}, bit : Word \X Word, used : 1 .. BITS, data : Bytes, ms : Word]
  BY <1>5 DEF Steering, WithData
<1>6. CASE x \in [id : {"pause"}, ms : Word]
  BY <1>6 DEF Steering, WithData
<1>7. CASE x \in [id : {"loop"}, times : Word]
  BY <1>7 DEF Steering, WithData
<1>8. CASE x \in [id : {"endloop", "info", "bad"}]
  BY <1>8 DEF Steering, WithData
<1> QED BY <1>1, <1>2, <1>3, <1>4, <1>5, <1>6, <1>7, <1>8 DEF Block

LEMMA Modulo == ASSUME NEW d \in Nat, NEW m \in Nat, d < m PROVE d % m = d
  BY SMT

LEMMA WordNat == ASSUME NEW d \in Word PROVE d \in Nat /\ d >= 0 /\ d \in Duration /\ Wire(d) = d
<1>1. d \in Nat /\ d < WIRE /\ WIRE \in Nat
  BY TapeAssumption DEF Word
<1>2. d % WIRE = d
  BY ONLY <1>1, Modulo
<1> QED BY ONLY <1>1, <1>2 DEF Duration, Wire

LEMMA WireNat == ASSUME NEW d \in Nat PROVE Wire(d) \in Duration /\ Wire(d) \in Nat
<1>1. WIRE \in Nat /\ WIRE > 0
  BY TapeAssumption
<1> QED BY ONLY <1>1, d \in Nat DEF Duration, Wire

LEMMA BlockFields ==
    ASSUME NEW x \in Block, x.id \in WithData
    PROVE  /\ Len(x.data) \in Nat \ {0} /\ \A i \in 1 .. Len(x.data) : x.data[i] \in [1 .. BITS -> {0, 1}]
           /\ Used(x) \in 1 .. BITS /\ \A i \in Nat : Kept(x, i) \in 1 .. BITS
           /\ BitLen(x, 0) \in Word /\ BitLen(x, 1) \in Word
<1>1. BITS \in Nat \ {0}
  BY TapeAssumption
<1>2. x.data \in Bytes
  BY Fields
<1>3. Len(x.data) \in Nat \ {0} /\ \A i \in 1 .. Len(x.data) : x.data[i] \in [1 .. BITS -> {0, 1}]
  <2> DEFINE B == [1 .. BITS -> {0, 1}]
  <2>1. x.data \in Seq(B) /\ x.data # <<>>
    BY <1>2 DEF Bytes
  <2> HIDE DEF B
  <2>2. Len(x.data) \in Nat \ {0} /\ \A i \in 1 .. Len(x.data) : x.data[i] \in B
    BY ONLY <2>1
  <2> QED BY <2>2 DEF B
<1>4. Used(x) \in 1 .. BITS
  <2>1. CASE x.id = "std"
    BY <1>1, <2>1 DEF Used
  <2>2. CASE x.id # "std"
    <3>1. x.used \in 1 .. BITS
      BY <2>2, Fields DEF WithData
    <3> QED BY <2>2, <3>1 DEF Used
  <2> QED BY <2>1, <2>2
<1>5. \A i \in Nat : Kept(x, i) \in 1 .. BITS
  BY <1>1, <1>4 DEF Kept
<1>6. BitLen(x, 0) \in Word /\ BitLen(x, 1) \in Word
  <2>1. CASE x.id = "std"
    <3>1. WORD \in Nat /\ 2168 <= WORD
      BY TapeAssumption, SMT
    <3>2. 855 \in Word /\ 1710 \in Word
      BY ONLY <3>1, SMT DEF Word
    <3> QED BY ONLY <2>1, <3>2, SMT DEF BitLen
  <2>2. CASE x.id # "std"
    <3>1. x.bit \in Word \X Word
      BY <2>2, Fields DEF WithData
    <3>2. x.bit[1] \in Word /\ x.bit[2] \in Word
      BY <3>1
    <3> QED BY <2>2, <3>2 DEF BitLen
  <2> QED BY <2>1, <2>2
<1> QED BY <1>3, <1>4, <1>5, <1>6

Bits(x) == [i \in 1 .. Len(x.data) |-> BytePulses(x, i)]

LEMMA BitsType ==
    ASSUME NEW x \in Block, x.id \in WithData
    PROVE  /\ Bits(x) \in Seq(Seq(Word)) /\ Len(Bits(x)) = Len(x.data)
           /\ \A i \in 1 .. Len(x.data) :
                 /\ BytePulses(x, i) \in Seq(Word) /\ Len(BytePulses(x, i)) = 2 * Kept(x, i)
                 /\ Bits(x)[i] = BytePulses(x, i)
           /\ BitPulses(x) = FlattenSeq(Bits(x)) /\ BitPulses(x) \in Seq(Word)
<1>1. Len(x.data) \in Nat
  BY BlockFields
<1>2. ASSUME NEW i \in 1 .. Len(x.data)
      PROVE  BytePulses(x, i) \in Seq(Word) /\ Len(BytePulses(x, i)) = 2 * Kept(x, i)
  <2>1. PICK n \in 1 .. BITS : n = Kept(x, i)
    BY <1>1, BlockFields
  <2>2. PICK d \in [1 .. BITS -> {0, 1}] : d = x.data[i]
    BY BlockFields
  <2>3. BITS \in Nat
    BY TapeAssumption
  <2> DEFINE F(k) == BitLen(x, d[(k + 1) \div 2])
  <2>4. ASSUME NEW k \in 1 .. 2 * n  PROVE F(k) \in Word
    <3>1. (k + 1) \div 2 \in 1 .. n
      BY ONLY n \in 1 .. BITS, BITS \in Nat, k \in 1 .. 2 * n, <2>3
    <3>2. (k + 1) \div 2 \in 1 .. BITS
      BY ONLY <3>1, <2>3, n \in 1 .. BITS
    <3>3. d[(k + 1) \div 2] \in {0, 1}
      BY ONLY <3>2, d \in [1 .. BITS -> {0, 1}]
    <3> QED BY <3>3, BlockFields
  <2>5. BytePulses(x, i) = [k \in 1 .. 2 * n |-> F(k)]
    BY <2>1, <2>2 DEF BytePulses
  <2> HIDE DEF F
  <2>6. 2 * n \in Nat
    BY <2>3
  <2>7. [k \in 1 .. 2 * n |-> F(k)] \in Seq(Word) /\ Len([k \in 1 .. 2 * n |-> F(k)]) = 2 * n
    BY <2>4, <2>6
  <2> QED BY <2>1, <2>5, <2>7
<1>3. Bits(x) \in Seq(Seq(Word)) /\ Len(Bits(x)) = Len(x.data)
  <2> DEFINE Y == Seq(Word)
             m == Len(x.data)
  <2>1. \A i \in 1 .. m : BytePulses(x, i) \in Y
    BY <1>2
  <2>2. m \in Nat
    BY <1>1
  <2>3. Bits(x) = [i \in 1 .. m |-> BytePulses(x, i)]
    BY DEF Bits
  <2> HIDE DEF Y, m
  <2>4. Bits(x) \in Seq(Y) /\ Len(Bits(x)) = m
    BY ONLY <2>1, <2>2, <2>3
  <2> QED BY <2>4 DEF Y, m
<1>4. BitPulses(x) = FlattenSeq(Bits(x))
  BY DEF BitPulses, Bits
<1>5. FlattenSeq(Bits(x)) \in Seq(Word)
  BY <1>3, FlatType
<1>6. \A i \in 1 .. Len(x.data) : Bits(x)[i] = BytePulses(x, i)
  BY DEF Bits
<1> QED BY <1>2, <1>3, <1>4, <1>5, <1>6

LEMMA LeadFields ==
    ASSUME NEW x \in Block, x.id \in {"std", "turbo"}
    PROVE  /\ Pilots(x) \in Nat /\ PilotLen(x) \in Word
           /\ Sync(x) \in Word \X Word
           /\ x.id = "std" => Pilots(x) > 0
<1>1. PilotHeader \in Nat \ {0} /\ PilotData \in Nat \ {0}
  BY TapeAssumption
<1>2. CASE x.id = "std"
  <2>1. Pilots(x) = PilotHeader \/ Pilots(x) = PilotData
    BY ONLY <1>2 DEF Pilots
  <2>2. PilotLen(x) = 2168 /\ Sync(x) = <<667, 735>>
    BY ONLY <1>2, SMT DEF PilotLen, Sync
  <2>3. 2168 \in Word /\ 667 \in Word /\ 735 \in Word
    <3>1. WORD \in Nat /\ 2168 <= WORD
      BY TapeAssumption, SMT
    <3> QED BY ONLY <3>1, SMT DEF Word
  <2>4. Pilots(x) \in Nat /\ Pilots(x) > 0
    BY ONLY <1>1, <2>1
  <2>5. PICK l \in Word, u \in Word, v \in Word : l = 2168 /\ u = 667 /\ v = 735
    BY ONLY <2>3
  <2>6. PilotLen(x) = l /\ Sync(x) = <<u, v>>
    BY ONLY <2>2, <2>5, SMT
  <2> QED BY ONLY <2>4, <2>6
<1>3. CASE x.id = "turbo"
  <2>1. x.pilot \in Word /\ x.count \in Word /\ x.sync \in Word \X Word
    BY <1>3, Fields
  <2>2. x.count \in Nat
    BY ONLY <2>1, WordNat
  <2>3. Pilots(x) = x.count /\ PilotLen(x) = x.pilot /\ Sync(x) = x.sync /\ x.id # "std"
    BY ONLY <1>3, SMT DEF Pilots, PilotLen, Sync
  <2> QED BY ONLY <2>1, <2>2, <2>3
<1> QED BY <1>2, <1>3

LEMMA PauseType ==
    ASSUME NEW x \in Block, x.id \notin Steering
    PROVE  PauseLen(x) \in Nat /\ Wire(PauseLen(x)) \in Duration /\ SentSilence(x) \in Seq(Sound)
<1>1. PICK p : p = PauseLen(x)
  OBVIOUS
<1>2. p \in Nat
  <2>1. CASE x.id \in {"tone", "pulses"}
    BY <1>1, <2>1, SMT DEF PauseLen
  <2>2. CASE x.id \notin {"tone", "pulses"}
    <3>1. x.ms \in Word
      BY <2>2, Fields DEF WithData
    <3>2. PICK m \in Nat : m = x.ms
      BY ONLY <3>1, WordNat
    <3>3. p = IF x.id = "pause" /\ m = 0 THEN 500 * MS ELSE m * MS
      BY <1>1, <2>2, <3>2, SMT DEF PauseLen
    <3>4. MS \in Nat
      BY SMT DEF MS
    <3> QED BY ONLY <3>3, <3>4, m \in Nat
  <2> QED BY <2>1, <2>2
<1>3. Wire(p) \in Duration
  BY <1>2, WireNat
<1>4. SentSilence(x) \in Seq(Sound)
  <2> DEFINE u == [dur |-> Wire(p), rom |-> FALSE, first |-> FALSE]
  <2>1. u \in Sound
    BY ONLY <1>3 DEF Sound
  <2>2. SentSilence(x) = IF p = 0 THEN <<>> ELSE <<u>>
    BY <1>1 DEF SentSilence
  <2> HIDE DEF u
  <2>3. <<u>> \in Seq(Sound) /\ <<>> \in Seq(Sound)
    BY ONLY <2>1
  <2> QED BY ONLY <2>2, <2>3
<1> QED BY <1>1, <1>2, <1>3, <1>4

LEMMA MarkedType ==
    ASSUME NEW x, NEW s \in Seq(Word), NEW f \in BOOLEAN
    PROVE  SentMarked(x, s, f) \in Seq(Sound) /\ Len(SentMarked(x, s, f)) = Len(s)
<1> DEFINE R(i) == [dur |-> s[i], rom |-> x.id = "std", first |-> f /\ i = 1]
<1>1. Len(s) \in Nat /\ \A i \in 1 .. Len(s) : s[i] \in Duration
  <2>1. Len(s) \in Nat /\ \A i \in 1 .. Len(s) : s[i] \in Word
    BY ONLY s \in Seq(Word)
  <2> QED BY ONLY <2>1, WordNat
<1>2. ASSUME NEW i \in 1 .. Len(s)  PROVE R(i) \in Sound
  <2>1. (x.id = "std") \in BOOLEAN /\ (f /\ i = 1) \in BOOLEAN
    OBVIOUS
  <2>2. s[i] \in Duration
    BY <1>1
  <2> QED BY ONLY <2>1, <2>2 DEF Sound
<1> DEFINE n == Len(s)
<1>3. SentMarked(x, s, f) = [i \in 1 .. n |-> R(i)]
  BY DEF SentMarked
<1> HIDE DEF R, n
<1>4. n \in Nat /\ \A i \in 1 .. n : R(i) \in Sound
  BY <1>1, <1>2 DEF n
<1>5. SentMarked(x, s, f) \in Seq(Sound) /\ Len(SentMarked(x, s, f)) = n
  BY ONLY <1>3, <1>4
<1> QED BY <1>5 DEF n

LEMMA ConstType ==
    ASSUME NEW X, NEW d \in X, NEW n \in Nat
    PROVE  [i \in 1 .. n |-> d] \in Seq(X) /\ Len([i \in 1 .. n |-> d]) = n
  OBVIOUS

LEMMA PairType ==
    ASSUME NEW X, NEW s \in X \X X
    PROVE  s \in Seq(X) /\ Len(s) = 2 /\ s[1] \in X /\ s[2] \in X
<1>1. s = <<s[1], s[2]>> /\ s[1] \in X /\ s[2] \in X
  OBVIOUS
<1>2. PICK u \in X, v \in X : u = s[1] /\ v = s[2]
  BY <1>1
<1>3. <<u, v>> \in Seq(X) /\ Len(<<u, v>>) = 2
  BY ONLY u \in X, v \in X
<1> QED BY <1>1, <1>2, <1>3

\* The first of a sequence from k on.
LEMMA Shift ==
    ASSUME NEW X, NEW s \in Seq(X), NEW k \in 1 .. Len(s)
    PROVE  /\ SubSeq(s, k, Len(s)) = <<s[k]>> \o SubSeq(s, k + 1, Len(s)) /\ s[k] \in X
           /\ SubSeq(s, k + 1, Len(s)) \in Seq(X) /\ SubSeq(s, k, Len(s)) \in Seq(X)
           /\ SubSeq(s, 1, Len(s)) = s /\ SubSeq(s, Len(s) + 1, Len(s)) = <<>>
  OBVIOUS

LEMMA LengthsType ==
    ASSUME NEW x \in Block, x.id \notin Steering
    PROVE  Lengths(x) \in Seq(Word)
<1>1. CASE x.id \in {"std", "turbo"}
  <2> DEFINE p == [i \in 1 .. Pilots(x) |-> PilotLen(x)]
  <2>0. Pilots(x) \in Nat /\ PilotLen(x) \in Word
    BY <1>1, LeadFields
  <2>1. p \in Seq(Word)
    BY ONLY <2>0, ConstType
  <2>2. Sync(x) \in Seq(Word)
    BY <1>1, LeadFields, PairType
  <2>3. BitPulses(x) \in Seq(Word)
    BY <1>1, BitsType DEF WithData
  <2>4. Lengths(x) = p \o Sync(x) \o BitPulses(x)
    BY <1>1 DEF Lengths
  <2> HIDE DEF p
  <2> QED BY ONLY <2>1, <2>2, <2>3, <2>4
<1>2. CASE x.id = "tone"
  <2>0. x.pilot \in Word /\ x.count \in Word
    BY <1>2, Fields
  <2>1. x.pilot \in Word /\ x.count \in Nat
    BY ONLY <2>0, WordNat
  <2>2. Lengths(x) = [i \in 1 .. x.count |-> x.pilot]
    BY <1>2 DEF Lengths
  <2> QED BY <2>1, <2>2, ConstType
<1>3. CASE x.id = "pulses"
  BY <1>3, Fields DEF Lengths
<1>4. CASE x.id = "data"
  <2>1. BitPulses(x) \in Seq(Word)
    BY <1>4, BitsType DEF WithData
  <2> QED BY <1>4, <2>1 DEF Lengths
<1>5. CASE x.id = "pause"
  <2>1. Lengths(x) = <<>>
    BY <1>5 DEF Lengths
  <2> QED BY <2>1
<1>6. x.id \in {"std", "turbo", "tone", "pulses", "data", "pause"}
  BY Fields
<1> QED BY <1>1, <1>2, <1>3, <1>4, <1>5, <1>6

LEMMA PulsesType ==
    ASSUME NEW x \in Block, x.id \notin Steering
    PROVE  SentBlock(x) \in Seq(Sound)
<1>1. SentMarked(x, Lengths(x), TRUE) \in Seq(Sound)
  BY LengthsType, MarkedType
<1>2. SentSilence(x) \in Seq(Sound)
  BY PauseType
<1>3. SentBlock(x) = SentMarked(x, Lengths(x), TRUE) \o SentSilence(x)
  BY DEF SentBlock
<1>4. PICK u \in Seq(Sound) : u = SentMarked(x, Lengths(x), TRUE)
  BY <1>1
<1>5. PICK v \in Seq(Sound) : v = SentSilence(x)
  BY <1>2
<1>6. SentBlock(x) = u \o v
  BY <1>3, <1>4, <1>5
<1> HIDE DEF Sound
<1> QED BY ONLY <1>6, u \in Seq(Sound), v \in Seq(Sound)

-----------------------------------------------------------------------------
(* The walk through a file: what is still to come. *)
From(s, k) == FlattenSeq(SubSeq(s, k, Len(s)))
Between(s, k, e) == FlattenSeq(SubSeq(s, k, e - 1))

\* A walk that can be at block p with c passes of the loop whose body begins at s.
Walking(t, p, c, s) ==
    /\ p \in 1 .. Len(Blocks(t)) + 1 /\ c \in Nat /\ s \in Nat \ {0}
    /\ \A k \in 1 .. p - 1 : Blocks(t)[k].id # "bad"
    /\ c > 1 => /\ s \in 2 .. p /\ Blocks(t)[s - 1].id = "loop"
                /\ p <= LoopEnd(t, s - 1)

\* The rest of this pass, the passes after it but one, and the last one with
\* all that follows.
Rest(t, p, c, s) ==
    IF c <= 1 THEN From(SentParts(t), p)
    ELSE Between(SentPlain(t), p, LoopEnd(t, s - 1))
         \o (Times(c - 2, SentBody(t, s - 1)) \o From(SentParts(t), s))

IsFile(t) == t \in DOMAIN Tapes /\ ~Listed(t)

LEMMA FileFacts ==
    ASSUME NEW t, IsFile(t)
    PROVE  /\ Blocks(t) \in Seq(Block) /\ Looping(Blocks(t)) /\ Len(Blocks(t)) \in Nat
           /\ \A k \in 1 .. Len(Blocks(t)) : Blocks(t)[k] \in Block
           /\ DOMAIN Blocks(t) = 1 .. Len(Blocks(t))
<1>1. Tapes[t] \in TapeFile /\ Tapes[t].fmt # "list"
  BY TapeAssumption DEF IsFile, Listed
<1>2. Tapes[t].blocks \in {b \in Seq(Block) : Looping(b)}
  BY ONLY <1>1 DEF TapeFile
<1>3. Blocks(t) \in Seq(Block) /\ Looping(Blocks(t))
  BY ONLY <1>2 DEF Blocks
<1> QED BY ONLY <1>3

LEMMA PlainType ==
    ASSUME NEW t, IsFile(t)
    PROVE  /\ SentPlain(t) \in Seq(Seq(Sound)) /\ Len(SentPlain(t)) = Len(Blocks(t))
           /\ \A k \in 1 .. Len(Blocks(t)) :
                 SentPlain(t)[k] = IF Blocks(t)[k].id \in Steering THEN <<>> ELSE SentBlock(Blocks(t)[k])
<1> DEFINE n == Len(Blocks(t))
           Y == Seq(Sound)
           P(k) == IF Blocks(t)[k].id \in Steering THEN <<>> ELSE SentBlock(Blocks(t)[k])
<1>1. n \in Nat /\ SentPlain(t) = [k \in 1 .. n |-> P(k)]
  BY FileFacts DEF SentPlain, Steering
<1>2. ASSUME NEW k \in 1 .. n  PROVE P(k) \in Y
  <2>1. Blocks(t)[k] \in Block
    BY FileFacts
  <2>2. CASE Blocks(t)[k].id \in Steering
    <3>1. <<>> \in Y
      OBVIOUS
    <3> QED BY <2>2, <3>1
  <2>3. CASE Blocks(t)[k].id \notin Steering
    BY <2>1, <2>3, PulsesType
  <2> QED BY <2>2, <2>3
<1> HIDE DEF n, Y, P
<1>3. SentPlain(t) \in Seq(Y) /\ Len(SentPlain(t)) = n /\ \A k \in 1 .. n : SentPlain(t)[k] = P(k)
  BY ONLY <1>1, <1>2
<1> QED BY <1>3 DEF n, Y, P

LEMMA LoopFacts ==
    ASSUME NEW t, IsFile(t), NEW i \in 1 .. Len(Blocks(t)), Blocks(t)[i].id = "loop"
    PROVE  /\ LoopEnd(t, i) \in i + 1 .. Len(Blocks(t)) /\ Blocks(t)[LoopEnd(t, i)].id = "endloop"
           /\ \A k \in i + 1 .. LoopEnd(t, i) - 1 :
                 Blocks(t)[k].id \notin {"loop", "endloop", "bad"}
<1>1. \E j \in i + 1 .. Len(Blocks(t)) : ClosedLoop(Blocks(t), i, j)
  BY FileFacts DEF Looping
<1>2. LoopEnd(t, i) \in i + 1 .. Len(Blocks(t)) /\ ClosedLoop(Blocks(t), i, LoopEnd(t, i))
  BY <1>1 DEF LoopEnd
<1> QED BY <1>2 DEF ClosedLoop

LEMMA BodyType ==
    ASSUME NEW t, IsFile(t), NEW i \in 1 .. Len(Blocks(t)), Blocks(t)[i].id = "loop"
    PROVE  /\ SentBody(t, i) \in Seq(Sound) /\ SentBody(t, i) = Between(SentPlain(t), i + 1, LoopEnd(t, i))
<1>1. SentBody(t, i) = Between(SentPlain(t), i + 1, LoopEnd(t, i))
  BY DEF SentBody, Between
<1>2. SentPlain(t) \in Seq(Seq(Sound)) /\ Len(SentPlain(t)) = Len(Blocks(t)) /\ Len(Blocks(t)) \in Nat
  BY PlainType, FileFacts
<1>3. PICK e \in i + 1 .. Len(Blocks(t)) : e = LoopEnd(t, i)
  BY LoopFacts
<1>4. SentBody(t, i) = FlattenSeq(SubSeq(SentPlain(t), i + 1, e - 1))
  BY <1>3 DEF SentBody
<1>5. CASE i + 1 > e - 1
  <2>1. FlattenSeq(SubSeq(SentPlain(t), i + 1, e - 1)) = <<>>
    BY <1>2, <1>5, FlatNone
  <2>2. <<>> \in Seq(Sound)
    OBVIOUS
  <2> QED BY ONLY <1>1, <1>4, <2>1, <2>2
<1>6. CASE i + 1 <= e - 1
  <2>1. e - 1 \in Nat /\ e - 1 <= Len(SentPlain(t)) /\ i + 1 \in 1 .. e - 1
    BY ONLY <1>2, <1>6, i \in 1 .. Len(Blocks(t)), e \in i + 1 .. Len(Blocks(t))
  <2>2. FlattenSeq(SubSeq(SentPlain(t), i + 1, e - 1)) \in Seq(Sound)
    BY ONLY <1>2, <2>1, FlatSplit
  <2> QED BY <1>1, <1>4, <2>2
<1> QED BY <1>2, <1>5, <1>6

LEMMA PartsType ==
    ASSUME NEW t, IsFile(t)
    PROVE  /\ SentParts(t) \in Seq(Seq(Sound)) /\ Len(SentParts(t)) = Len(Blocks(t))
           /\ \A k \in 1 .. Len(Blocks(t)) :
                 /\ Cut(t, k) => SentParts(t)[k] = <<>>
                 /\ ~Cut(t, k) /\ Blocks(t)[k].id = "loop" =>
                       SentParts(t)[k] = IF Blocks(t)[k].times > 1
                                     THEN Times(Blocks(t)[k].times - 1, SentBody(t, k)) ELSE <<>>
                 /\ ~Cut(t, k) /\ Blocks(t)[k].id # "loop" => SentParts(t)[k] = SentPlain(t)[k]
<1> DEFINE n == Len(Blocks(t))
           Y == Seq(Sound)
           L(k) == IF Blocks(t)[k].times > 1 THEN Times(Blocks(t)[k].times - 1, SentBody(t, k)) ELSE <<>>
           P(k) == IF Cut(t, k) THEN <<>> ELSE IF Blocks(t)[k].id = "loop" THEN L(k) ELSE SentPlain(t)[k]
<1>1. n \in Nat /\ SentParts(t) = [k \in 1 .. n |-> P(k)]
  BY FileFacts DEF SentParts
<1>2. <<>> \in Y
  OBVIOUS
<1>3. ASSUME NEW k \in 1 .. n  PROVE P(k) \in Y
  <2>1. CASE Cut(t, k)
    BY <2>1, <1>2
  <2>2. CASE ~Cut(t, k) /\ Blocks(t)[k].id = "loop"
    <3>1. PICK m \in Nat : m = Blocks(t)[k].times
      BY <2>2, FileFacts, Fields, WordNat
    <3>2. SentBody(t, k) \in Seq(Sound)
      BY <2>2, BodyType
    <3>3. CASE m > 1
      <4>1. m - 1 \in Nat
        BY ONLY <3>3, m \in Nat
      <4>2. Times(m - 1, SentBody(t, k)) \in Y
        BY ONLY <3>2, <4>1, TimesMore DEF Y
      <4> QED BY <2>2, <3>1, <3>3, <4>2
    <3>4. CASE ~(m > 1)
      BY <2>2, <3>1, <3>4, <1>2
    <3> QED BY <3>3, <3>4
  <2>3. CASE ~Cut(t, k) /\ Blocks(t)[k].id # "loop"
    <3>1. SentPlain(t) \in Seq(Y) /\ Len(SentPlain(t)) = n
      BY PlainType
    <3> HIDE DEF Y
    <3>2. SentPlain(t)[k] \in Y
      BY ONLY <3>1, k \in 1 .. n
    <3> QED BY <2>3, <3>2
  <2> QED BY <2>1, <2>2, <2>3
<1> HIDE DEF n, Y, P
<1>4. SentParts(t) \in Seq(Y) /\ Len(SentParts(t)) = n /\ \A k \in 1 .. n : SentParts(t)[k] = P(k)
  BY ONLY <1>1, <1>3
<1> QED BY <1>4 DEF n, Y, P

\* The rest at the end, at a bad block, and at a block that plays or steers.
LEMMA FromNext ==
    ASSUME NEW t, IsFile(t), NEW p \in 1 .. Len(Blocks(t))
    PROVE  /\ From(SentParts(t), p) = SentParts(t)[p] \o From(SentParts(t), p + 1)
           /\ SentParts(t)[p] \in Seq(Sound) /\ From(SentParts(t), p + 1) \in Seq(Sound)
           /\ From(SentParts(t), p) \in Seq(Sound)
<1>1. SentParts(t) \in Seq(Seq(Sound)) /\ Len(SentParts(t)) = Len(Blocks(t)) /\ Len(Blocks(t)) \in Nat
  BY PartsType, FileFacts
<1>2. PICK e \in Nat : e = Len(SentParts(t)) /\ p \in 1 .. e /\ e <= Len(SentParts(t))
  BY <1>1
<1>3. /\ FlattenSeq(SubSeq(SentParts(t), p, e)) = SentParts(t)[p] \o FlattenSeq(SubSeq(SentParts(t), p + 1, e))
      /\ SentParts(t)[p] \in Seq(Sound) /\ FlattenSeq(SubSeq(SentParts(t), p + 1, e)) \in Seq(Sound)
      /\ FlattenSeq(SubSeq(SentParts(t), p, e)) \in Seq(Sound)
  BY ONLY <1>1, <1>2, e \in Nat, FlatSplit, ZenonT(40)
<1> QED BY ONLY <1>2, <1>3 DEF From

LEMMA FromType ==
    ASSUME NEW t, IsFile(t), NEW p \in 1 .. Len(Blocks(t)) + 1
    PROVE  /\ From(SentParts(t), p) \in Seq(Sound)
           /\ p = Len(Blocks(t)) + 1 => From(SentParts(t), p) = <<>>
<1>1. CASE p \in 1 .. Len(Blocks(t))
  <2>1. p # Len(Blocks(t)) + 1
    BY <1>1, FileFacts
  <2> QED BY <1>1, <2>1, FromNext
<1>2. CASE p = Len(Blocks(t)) + 1
  <2>1. Len(SentParts(t)) = Len(Blocks(t)) /\ Len(Blocks(t)) \in Nat
    BY PartsType, FileFacts
  <2>2. p \in Int /\ Len(SentParts(t)) \in Int /\ p > Len(SentParts(t))
    BY ONLY <1>2, <2>1
  <2>3. From(SentParts(t), p) = <<>>
    BY ONLY <2>2, FlatNone DEF From
  <2> QED BY ONLY <2>3
<1>3. Len(Blocks(t)) \in Nat
  BY FileFacts
<1> QED BY <1>1, <1>2, <1>3

\* Behind a bad block nothing plays.
LEMMA FromCut ==
    ASSUME NEW t, IsFile(t), NEW i \in 1 .. Len(Blocks(t)), Blocks(t)[i].id = "bad"
    PROVE  From(SentParts(t), i) = <<>>
<1> DEFINE n == Len(Blocks(t))
           S == {d \in Nat : d <= n + 1 - i => From(SentParts(t), n + 1 - d) = <<>>}
<1>1. n \in Nat
  BY FileFacts
<1>2. 0 \in S
  <2>1. n + 1 - 0 = n + 1 /\ n + 1 \in 1 .. n + 1
    BY <1>1
  <2>2. From(SentParts(t), n + 1) = <<>>
    BY <2>1, FromType
  <2> QED BY <2>1, <2>2
<1>3. ASSUME NEW d \in Nat, d \in S  PROVE d + 1 \in S
  <2> SUFFICES ASSUME d + 1 <= n + 1 - i  PROVE From(SentParts(t), n + 1 - (d + 1)) = <<>>
    OBVIOUS
  <2>1. PICK p \in 1 .. n : p = n + 1 - (d + 1) /\ p + 1 = n + 1 - d /\ i \in 1 .. p
    <3> HIDE DEF n
    <3>1. i \in 1 .. n
      BY DEF n
    <3> QED BY ONLY <1>1, d \in Nat, d + 1 <= n + 1 - i, <3>1
  <2>2. From(SentParts(t), p + 1) = <<>>
    BY <1>1, <1>3, <2>1, SMTT(30)
  <2>3. Cut(t, p)
    BY <2>1 DEF Cut
  <2>4. SentParts(t)[p] = <<>>
    BY <2>3, PartsType
  <2>5. From(SentParts(t), p) = <<>> \o <<>>
    BY <2>2, <2>4, FromNext
  <2>6. <<>> \o <<>> = <<>>
    OBVIOUS
  <2> QED BY <2>1, <2>5, <2>6
<1>4. \A d \in Nat : d \in S
  <2> HIDE DEF S
  <2> QED BY <1>2, <1>3, Induction
<1>5. n + 1 - i \in Nat /\ n + 1 - (n + 1 - i) = i
  BY <1>1
<1>6. n + 1 - i \in S
  BY <1>4, <1>5
<1> QED BY <1>5, <1>6

LEMMA BetweenType ==
    ASSUME NEW t, IsFile(t), NEW e \in 1 .. Len(Blocks(t)), NEW p \in 1 .. e
    PROVE  /\ Between(SentPlain(t), p, e) \in Seq(Sound)
           /\ p = e => Between(SentPlain(t), p, e) = <<>>
           /\ p < e => /\ Between(SentPlain(t), p, e) = SentPlain(t)[p] \o Between(SentPlain(t), p + 1, e)
                       /\ Between(SentPlain(t), p + 1, e) \in Seq(Sound)
                       /\ SentPlain(t)[p] \in Seq(Sound)
<1>1. SentPlain(t) \in Seq(Seq(Sound)) /\ Len(SentPlain(t)) = Len(Blocks(t)) /\ Len(Blocks(t)) \in Nat
  BY PlainType, FileFacts
<1>2. CASE p = e
  <2>1. p \in Int /\ e - 1 \in Int /\ p > e - 1
    BY <1>2
  <2>2. Between(SentPlain(t), p, e) = <<>>
    BY ONLY <2>1, FlatNone DEF Between
  <2>3. <<>> \in Seq(Sound) /\ ~(p < e)
    BY <1>2
  <2> QED BY ONLY <1>2, <2>2, <2>3
<1>3. CASE p < e
  <2>1. PICK m \in Nat : m = e - 1 /\ m <= Len(SentPlain(t)) /\ p \in 1 .. m
    BY ONLY <1>1, <1>3, e \in 1 .. Len(Blocks(t)), p \in 1 .. e
  <2>2. /\ FlattenSeq(SubSeq(SentPlain(t), p, m)) = SentPlain(t)[p] \o FlattenSeq(SubSeq(SentPlain(t), p + 1, m))
        /\ SentPlain(t)[p] \in Seq(Sound) /\ FlattenSeq(SubSeq(SentPlain(t), p + 1, m)) \in Seq(Sound)
        /\ FlattenSeq(SubSeq(SentPlain(t), p, m)) \in Seq(Sound)
    BY ONLY <1>1, <2>1, m \in Nat, FlatSplit, ZenonT(40)
  <2>3. p # e
    BY <1>3
  <2>4. Between(SentPlain(t), p, e) = FlattenSeq(SubSeq(SentPlain(t), p, m))
    BY ONLY <2>1 DEF Between
  <2>5. Between(SentPlain(t), p + 1, e) = FlattenSeq(SubSeq(SentPlain(t), p + 1, m))
    BY ONLY <2>1 DEF Between
  <2> QED BY ONLY <2>2, <2>3, <2>4, <2>5
<1>4. p = e \/ p < e
  BY <1>1
<1> QED BY <1>2, <1>3, <1>4

\* A walk inside a loop: the loop's start and end, and what can be between.
LEMMA InLoop ==
    ASSUME NEW t, IsFile(t), NEW p, NEW c, NEW s, Walking(t, p, c, s), c > 1
    PROVE  \E e \in 1 .. Len(Blocks(t)) :
              /\ e = LoopEnd(t, s - 1) /\ Blocks(t)[e].id = "endloop"
              /\ s - 1 \in 1 .. Len(Blocks(t)) /\ Blocks(t)[s - 1].id = "loop"
              /\ s \in 1 .. e /\ p \in s .. e
              /\ \A k \in s .. e - 1 : Blocks(t)[k].id \notin {"loop", "endloop", "bad"}
              /\ SentBody(t, s - 1) \in Seq(Sound) /\ SentBody(t, s - 1) = Between(SentPlain(t), s, e)
<1>1. /\ p \in 1 .. Len(Blocks(t)) + 1 /\ s \in 2 .. p /\ Blocks(t)[s - 1].id = "loop"
      /\ p <= LoopEnd(t, s - 1)
  BY DEF Walking
<1>2. Len(Blocks(t)) \in Nat
  BY FileFacts
<1>3. PICK i \in 1 .. Len(Blocks(t)) : i = s - 1 /\ s = i + 1
  BY <1>1, <1>2
<1>4. Blocks(t)[i].id = "loop"
  BY <1>1, <1>3
<1>5. PICK e \in i + 1 .. Len(Blocks(t)) :
        /\ e = LoopEnd(t, i) /\ Blocks(t)[e].id = "endloop"
        /\ \A k \in i + 1 .. e - 1 : Blocks(t)[k].id \notin {"loop", "endloop", "bad"}
  BY <1>4, LoopFacts
<1>6. SentBody(t, i) \in Seq(Sound) /\ SentBody(t, i) = Between(SentPlain(t), i + 1, e)
  BY <1>4, <1>5, BodyType
<1>7. e \in 1 .. Len(Blocks(t)) /\ s \in 1 .. e /\ p \in s .. e
  BY <1>1, <1>2, <1>3, <1>5
<1> QED BY <1>3, <1>4, <1>5, <1>6, <1>7

LEMMA RestType ==
    ASSUME NEW t, IsFile(t), NEW p, NEW c, NEW s, Walking(t, p, c, s)
    PROVE  Rest(t, p, c, s) \in Seq(Sound)
<1>1. p \in 1 .. Len(Blocks(t)) + 1 /\ c \in Nat
  BY DEF Walking
<1>2. CASE c <= 1
  BY <1>1, <1>2, FromType DEF Rest
<1>3. CASE c > 1
  <2>1. PICK e \in 1 .. Len(Blocks(t)) :
           /\ e = LoopEnd(t, s - 1) /\ s \in 1 .. e /\ p \in s .. e /\ SentBody(t, s - 1) \in Seq(Sound)
    BY <1>3, InLoop
  <2>2. p \in 1 .. e /\ s \in 1 .. Len(Blocks(t)) + 1 /\ c - 2 \in Nat
    BY <1>1, <1>3, <2>1, FileFacts
  <2>3. Between(SentPlain(t), p, e) \in Seq(Sound)
    BY <2>2, BetweenType
  <2>4. From(SentParts(t), s) \in Seq(Sound)
    BY <2>2, FromType
  <2>5. Times(c - 2, SentBody(t, s - 1)) \in Seq(Sound)
    BY <2>1, <2>2, TimesMore
  <2>6. Rest(t, p, c, s) = Between(SentPlain(t), p, e) \o (Times(c - 2, SentBody(t, s - 1)) \o From(SentParts(t), s))
    <3>1. ~(c <= 1)
      BY <1>1, <1>3
    <3> QED BY ONLY <2>1, <3>1 DEF Rest
  <2> QED BY ONLY <2>3, <2>4, <2>5, <2>6
<1> QED BY <1>1, <1>2, <1>3

\* What a walk passes in a block: nothing where it only steers, else its pulses.
LEMMA RestPass ==
    ASSUME NEW t, IsFile(t), NEW p, NEW c, NEW s, Walking(t, p, c, s), p <= Len(Blocks(t)),
           Blocks(t)[p].id \notin {"loop", "bad"},
           ~(Blocks(t)[p].id = "endloop" /\ c > 1)
    PROVE  Walking(t, p + 1, c, s) /\ Rest(t, p, c, s) = SentPlain(t)[p] \o Rest(t, p + 1, c, s)
<1>1. p \in 1 .. Len(Blocks(t)) /\ c \in Nat /\ s \in Nat /\ Len(Blocks(t)) \in Nat
  BY FileFacts DEF Walking
<1>2. \A k \in 1 .. p : Blocks(t)[k].id # "bad"
  <2>1. \A k \in 1 .. p - 1 : Blocks(t)[k].id # "bad"
    BY DEF Walking
  <2> QED BY ONLY <1>1, <2>1, Blocks(t)[p].id \notin {"loop", "bad"}
<1>3. CASE c <= 1
  <2>1. ~Cut(t, p)
    BY <1>2 DEF Cut
  <2>2. SentParts(t)[p] = SentPlain(t)[p]
    BY <1>1, <2>1, PartsType
  <2>3. From(SentParts(t), p) = SentPlain(t)[p] \o From(SentParts(t), p + 1)
    BY <1>1, <2>2, FromNext
  <2>4. Walking(t, p + 1, c, s)
    BY <1>1, <1>2, <1>3 DEF Walking
  <2> QED BY ONLY <1>3, <2>3, <2>4 DEF Rest
<1>4. CASE c > 1
  <2>1. PICK e \in 1 .. Len(Blocks(t)) :
           /\ e = LoopEnd(t, s - 1) /\ Blocks(t)[e].id = "endloop" /\ s \in 1 .. e /\ p \in s .. e
           /\ s - 1 \in 1 .. Len(Blocks(t)) /\ Blocks(t)[s - 1].id = "loop"
           /\ SentBody(t, s - 1) \in Seq(Sound)
    BY <1>4, InLoop
  <2>2. p # e
    BY <1>4, <2>1
  <2>3. p < e /\ p \in 1 .. e /\ p + 1 \in 1 .. Len(Blocks(t)) + 1 /\ ~(c <= 1) /\ c - 2 \in Nat
        /\ s \in 2 .. p + 1 /\ p + 1 <= e /\ s \in 1 .. Len(Blocks(t)) + 1
    BY ONLY <1>1, <1>4, <2>1, <2>2
  <2>4. Walking(t, p + 1, c, s)
    BY ONLY <1>1, <1>2, <2>1, <2>3 DEF Walking
  <2>5. /\ Between(SentPlain(t), p, e) = SentPlain(t)[p] \o Between(SentPlain(t), p + 1, e)
        /\ Between(SentPlain(t), p + 1, e) \in Seq(Sound) /\ SentPlain(t)[p] \in Seq(Sound)
    BY <2>3, BetweenType
  <2>6. PICK r \in Seq(Sound) : r = Times(c - 2, SentBody(t, s - 1)) \o From(SentParts(t), s)
    <3>1. Times(c - 2, SentBody(t, s - 1)) \in Seq(Sound)
      BY <2>1, <2>3, TimesMore
    <3>2. From(SentParts(t), s) \in Seq(Sound)
      BY <2>3, FromType
    <3>3. Times(c - 2, SentBody(t, s - 1)) \o From(SentParts(t), s) \in Seq(Sound)
      BY ONLY <3>1, <3>2
    <3> QED BY ONLY <3>3
  <2>7. Rest(t, p, c, s) = Between(SentPlain(t), p, e) \o r
        /\ Rest(t, p + 1, c, s) = Between(SentPlain(t), p + 1, e) \o r
    BY ONLY <2>1, <2>3, <2>6 DEF Rest
  <2>8. (SentPlain(t)[p] \o Between(SentPlain(t), p + 1, e)) \o r = SentPlain(t)[p] \o (Between(SentPlain(t), p + 1, e) \o r)
    <3>1. PICK u \in Seq(Sound) : u = SentPlain(t)[p]
      BY ONLY <2>5
    <3>2. PICK v \in Seq(Sound) : v = Between(SentPlain(t), p + 1, e)
      BY ONLY <2>5
    <3>3. (u \o v) \o r = u \o (v \o r)
      <4>1. Regrouped(u, v, r)
        BY ONLY u \in Seq(Sound), v \in Seq(Sound), r \in Seq(Sound), Regroup, ZenonT(40)
      <4> QED BY ONLY <4>1, Zenon DEF Regrouped
    <3> QED BY ONLY <3>1, <3>2, <3>3
  <2> QED BY ONLY <2>4, <2>5, <2>7, <2>8
<1>5. c <= 1 \/ c > 1
  BY ONLY <1>1
<1> QED BY <1>3, <1>4, <1>5

LEMMA RestPlays ==
    ASSUME NEW t, IsFile(t), NEW p, NEW c, NEW s, Walking(t, p, c, s), p <= Len(Blocks(t)),
           Blocks(t)[p].id \notin Steering
    PROVE  /\ Walking(t, p + 1, c, s) /\ p \in 1 .. Len(Blocks(t))
           /\ Rest(t, p, c, s) = SentBlock(Blocks(t)[p]) \o Rest(t, p + 1, c, s)
<1>1. Blocks(t)[p].id \notin {"loop", "bad"} /\ ~(Blocks(t)[p].id = "endloop" /\ c > 1)
  BY DEF Steering
<1>2. p \in 1 .. Len(Blocks(t))
  BY FileFacts DEF Walking
<1>3. SentPlain(t)[p] = SentBlock(Blocks(t)[p])
  BY <1>2, PlainType
<1>4. Walking(t, p + 1, c, s) /\ Rest(t, p, c, s) = SentPlain(t)[p] \o Rest(t, p + 1, c, s)
  BY <1>1, RestPass, ZenonT(40)
<1> QED BY ONLY <1>2, <1>3, <1>4

LEMMA RestEnds ==
    ASSUME NEW t, IsFile(t), NEW p, NEW c, NEW s, Walking(t, p, c, s), Ends(t, p)
    PROVE  Rest(t, p, c, s) = <<>>
<1>1. p \in 1 .. Len(Blocks(t)) + 1 /\ c \in Nat /\ Len(Blocks(t)) \in Nat
  BY FileFacts DEF Walking
<1>2. CASE c > 1
  <2>1. PICK e \in 1 .. Len(Blocks(t)) :
           /\ Blocks(t)[e].id = "endloop" /\ s \in 1 .. e /\ p \in s .. e
           /\ \A k \in s .. e - 1 : Blocks(t)[k].id \notin {"loop", "endloop", "bad"}
    BY <1>2, InLoop
  <2>2. p <= Len(Blocks(t)) /\ (p = e \/ p \in s .. e - 1)
    BY ONLY <1>1, <2>1
  <2>3. Blocks(t)[p].id = "bad"
    BY <1>1, <2>2 DEF Ends
  <2> QED BY <2>1, <2>2, <2>3
<1>3. CASE c <= 1
  <2>1. CASE p = Len(Blocks(t)) + 1
    BY <1>3, <2>1, <1>1, FromType DEF Rest
  <2>2. CASE p # Len(Blocks(t)) + 1
    <3>1. p \in 1 .. Len(Blocks(t))
      BY <1>1, <2>2
    <3>2. Blocks(t)[p].id = "bad"
      BY <1>1, <3>1 DEF Ends
    <3> QED BY <1>3, <3>1, <3>2, FromCut DEF Rest
  <2> QED BY <2>1, <2>2
<1> QED BY <1>1, <1>2, <1>3

\* A turn leaves what is still to come.
TurnsTo(t, p, c, s, q, d, r) ==
    CASE Blocks(t)[p].id = "loop"              -> q = p + 1 /\ d = Blocks(t)[p].times /\ r = p + 1
      [] Blocks(t)[p].id = "endloop" /\ c > 1 -> q = s /\ d = c - 1 /\ r = s
      [] OTHER                                 -> q = p + 1 /\ d = c /\ r = s

LEMMA RestTurn ==
    ASSUME NEW t, IsFile(t), NEW p, NEW c, NEW s, Walking(t, p, c, s), Steers(t, <<p, c, s>>),
           NEW q, NEW d, NEW r, TurnsTo(t, p, c, s, q, d, r)
    PROVE  Walking(t, q, d, r) /\ Rest(t, q, d, r) = Rest(t, p, c, s)
<1>1. p \in 1 .. Len(Blocks(t)) /\ c \in Nat /\ s \in Nat /\ Len(Blocks(t)) \in Nat
      /\ Blocks(t)[p].id \in {"loop", "endloop", "info"} /\ Blocks(t)[p] \in Block
  <2>1. p <= Len(Blocks(t)) /\ Blocks(t)[p].id \in {"loop", "endloop", "info"}
    BY DEF Steers
  <2>2. p \in 1 .. Len(Blocks(t))
    BY <2>1, FileFacts DEF Walking
  <2> QED BY <2>1, <2>2, FileFacts DEF Walking
<1>2. \A k \in 1 .. p : Blocks(t)[k].id # "bad"
  <2>1. \A k \in 1 .. p - 1 : Blocks(t)[k].id # "bad"
    BY DEF Walking
  <2> QED BY ONLY <1>1, <2>1
<1>3. CASE Blocks(t)[p].id = "loop"
  <2>1. q = p + 1 /\ d = Blocks(t)[p].times /\ r = p + 1
    BY ONLY <1>3, TurnsTo(t, p, c, s, q, d, r) DEF TurnsTo
  <2>2. c <= 1
    <3> SUFFICES ASSUME c > 1 PROVE FALSE
      BY <1>1
    <3>1. PICK e \in 1 .. Len(Blocks(t)) :
             /\ Blocks(t)[e].id = "endloop" /\ s \in 1 .. e /\ p \in s .. e
             /\ \A k \in s .. e - 1 : Blocks(t)[k].id \notin {"loop", "endloop", "bad"}
      BY InLoop
    <3>2. p = e \/ p \in s .. e - 1
      BY ONLY <1>1, <3>1
    <3> QED BY <1>3, <3>1, <3>2
  <2>3. d \in Nat
    BY <1>1, <1>3, <2>1, Fields, WordNat
  <2>4. ~Cut(t, p)
    BY <1>2 DEF Cut
  <2>5. SentParts(t)[p] = IF d > 1 THEN Times(d - 1, SentBody(t, p)) ELSE <<>>
    BY <1>1, <1>3, <2>1, <2>4, PartsType
  <2>6. From(SentParts(t), p) = SentParts(t)[p] \o From(SentParts(t), p + 1) /\ From(SentParts(t), p + 1) \in Seq(Sound)
    BY <1>1, FromNext
  <2>7. Rest(t, p, c, s) = From(SentParts(t), p)
    BY ONLY <2>2 DEF Rest
  <2>8. LoopEnd(t, p) \in p + 1 .. Len(Blocks(t))
    BY <1>1, <1>3, LoopFacts
  <2>9. q \in 1 .. Len(Blocks(t)) + 1 /\ r \in 2 .. q /\ r \in Nat /\ r - 1 = p /\ q - 1 = p
    BY ONLY <1>1, <2>1
  <2>10. Walking(t, q, d, r)
    <3>1. q <= LoopEnd(t, p)
      BY ONLY <1>1, <2>1, <2>8
    <3> QED BY ONLY <1>2, <1>3, <2>3, <2>9, <3>1 DEF Walking
  <2>11. CASE d <= 1
    <3>1. <<>> \o From(SentParts(t), p + 1) = From(SentParts(t), p + 1)
      BY ONLY <2>6, ConcatEmpty
    <3>2. Rest(t, q, d, r) = From(SentParts(t), q)
      BY ONLY <2>11 DEF Rest
    <3>3. ~(d > 1)
      BY ONLY <2>3, <2>11
    <3> QED BY ONLY <2>1, <2>5, <2>6, <2>7, <2>10, <3>1, <3>2, <3>3
  <2>12. CASE d > 1
    <3>1. ~(d <= 1) /\ d - 2 \in Nat /\ d - 1 = (d - 2) + 1
      BY ONLY <2>3, <2>12
    <3>2. SentBody(t, p) \in Seq(Sound) /\ SentBody(t, p) = Between(SentPlain(t), p + 1, LoopEnd(t, p))
      BY <1>1, <1>3, BodyType
    <3>3. Rest(t, q, d, r) = SentBody(t, p) \o (Times(d - 2, SentBody(t, p)) \o From(SentParts(t), p + 1))
      BY ONLY <2>1, <2>9, <3>1, <3>2 DEF Rest
    <3>4. Times(d - 1, SentBody(t, p)) = SentBody(t, p) \o Times(d - 2, SentBody(t, p))
          /\ Times(d - 2, SentBody(t, p)) \in Seq(Sound)
      BY ONLY <3>1, <3>2, TimesMore
    <3>5. (SentBody(t, p) \o Times(d - 2, SentBody(t, p))) \o From(SentParts(t), p + 1)
          = SentBody(t, p) \o (Times(d - 2, SentBody(t, p)) \o From(SentParts(t), p + 1))
      <4>1. Regrouped(SentBody(t, p), Times(d - 2, SentBody(t, p)), From(SentParts(t), p + 1))
        BY ONLY <2>6, <3>2, <3>4, Regroup, ZenonT(40)
      <4> QED BY ONLY <4>1, Zenon DEF Regrouped
    <3> QED BY ONLY <2>5, <2>6, <2>7, <2>10, <2>12, <3>3, <3>4, <3>5
  <2> QED BY <2>3, <2>11, <2>12
<1>4. CASE Blocks(t)[p].id = "endloop" /\ c > 1
  <2>1. q = s /\ d = c - 1 /\ r = s
    BY ONLY <1>4, TurnsTo(t, p, c, s, q, d, r) DEF TurnsTo
  <2>2. PICK e \in 1 .. Len(Blocks(t)) :
           /\ e = LoopEnd(t, s - 1) /\ Blocks(t)[e].id = "endloop" /\ s \in 1 .. e /\ p \in s .. e
           /\ s - 1 \in 1 .. Len(Blocks(t)) /\ Blocks(t)[s - 1].id = "loop"
           /\ \A k \in s .. e - 1 : Blocks(t)[k].id \notin {"loop", "endloop", "bad"}
           /\ SentBody(t, s - 1) \in Seq(Sound) /\ SentBody(t, s - 1) = Between(SentPlain(t), s, e)
    BY <1>4, InLoop
  <2>3. p = e
    <3>1. p \notin s .. e - 1
      BY <1>4, <2>2
    <3> QED BY ONLY <1>1, <2>2, <3>1
  <2>4. /\ s \in 1 .. Len(Blocks(t)) + 1 /\ s \in 2 .. s /\ c - 1 \in Nat /\ c - 2 \in Nat
        /\ s <= e /\ ~(c <= 1) /\ s \in 1 .. p
    BY ONLY <1>1, <1>4, <2>2, <2>3
  <2>5. Walking(t, s, c - 1, s)
    <3>1. \A k \in 1 .. s - 1 : Blocks(t)[k].id # "bad"
      BY ONLY <1>1, <1>2, <2>4
    <3> QED BY ONLY <1>1, <2>2, <2>4, <3>1 DEF Walking
  <2>6. From(SentParts(t), s) \in Seq(Sound)
    BY <2>4, FromType
  <2>7. Between(SentPlain(t), p, e) = <<>>
    <3>1. e \in 1 .. Len(Blocks(t)) /\ e \in 1 .. e
      BY <2>2
    <3>2. Between(SentPlain(t), e, e) = <<>>
      BY <3>1, BetweenType
    <3> QED BY ONLY <2>3, <3>2
  <2>8. PICK m \in Nat : m = c - 2
    BY <2>4
  <2>z. PICK z \in Seq(Sound) : z = SentBody(t, s - 1)
    BY ONLY <2>2
  <2>f. PICK f \in Seq(Sound) : f = From(SentParts(t), s)
    BY ONLY <2>6
  <2>9. Rest(t, p, c, s) = <<>> \o (Times(m, z) \o f)
    BY ONLY <2>2, <2>4, <2>7, <2>8, <2>z, <2>f DEF Rest
  <2>10. Times(m, z) \in Seq(Sound) /\ Times(0, z) = <<>>
    BY TimesMore
  <2>11. Rest(t, p, c, s) = Times(m, z) \o f
    <3>1. Times(m, z) \o f \in Seq(Sound)
      BY ONLY f \in Seq(Sound), <2>10
    <3> QED BY ONLY <2>9, <3>1, ConcatEmpty
  <2>12. CASE m = 0
    <3>1. Rest(t, s, c - 1, s) = f
      <4>1. c - 1 <= 1
        BY ONLY <1>1, <2>8, <2>12
      <4> QED BY ONLY <4>1, <2>f DEF Rest
    <3>2. <<>> \o f = f
      BY ONLY f \in Seq(Sound), ConcatEmpty
    <3> QED BY <2>1, <2>5, <2>10, <2>11, <2>12, <3>1, <3>2
  <2>13. CASE m # 0
    <3>1. PICK j \in Nat : j + 1 = m /\ j = (c - 1) - 2 /\ ~(c - 1 <= 1)
      <4>1. m - 1 \in Nat /\ (m - 1) + 1 = m /\ m - 1 = (c - 1) - 2 /\ ~(c - 1 <= 1)
        BY ONLY <1>1, <2>8, <2>13
      <4> QED BY <4>1
    <3>2. Rest(t, s, c - 1, s) = z \o (Times(j, z) \o f)
      BY ONLY <2>2, <2>z, <2>f, <3>1 DEF Rest
    <3>3. Times(j + 1, z) = z \o Times(j, z) /\ Times(j, z) \in Seq(Sound)
      BY TimesMore
    <3>4. (z \o Times(j, z)) \o f = z \o (Times(j, z) \o f)
      <4>1. Regrouped(z, Times(j, z), f)
        BY ONLY z \in Seq(Sound), f \in Seq(Sound), <3>3, Regroup, ZenonT(40)
      <4> QED BY ONLY <4>1, Zenon DEF Regrouped
    <3> QED BY <2>1, <2>5, <2>11, <3>1, <3>2, <3>3, <3>4
  <2> QED BY <2>12, <2>13
<1>5. CASE Blocks(t)[p].id # "loop" /\ ~(Blocks(t)[p].id = "endloop" /\ c > 1)
  <2>1. q = p + 1 /\ d = c /\ r = s
    BY ONLY <1>5, TurnsTo(t, p, c, s, q, d, r) DEF TurnsTo
  <2>0. p <= Len(Blocks(t)) /\ Blocks(t)[p].id \notin {"loop", "bad"}
    BY <1>1, <1>5
  <2>2. Walking(t, p + 1, c, s) /\ Rest(t, p, c, s) = SentPlain(t)[p] \o Rest(t, p + 1, c, s)
    BY <1>5, <2>0, RestPass, ZenonT(40)
  <2>3. SentPlain(t)[p] = <<>>
    BY <1>1, PlainType DEF Steering
  <2>4. <<>> \o Rest(t, p + 1, c, s) = Rest(t, p + 1, c, s)
    BY <2>2, RestType, ConcatEmpty
  <2> QED BY ONLY <2>1, <2>2, <2>3, <2>4
<1> QED BY <1>3, <1>4, <1>5

-----------------------------------------------------------------------------
(* Seek: there is such a function, and it stops. *)
Trace(t, x, n, g) ==
    /\ g \in [0 .. n -> Walker] /\ g[0] = x
    /\ \A k \in 1 .. n : Steers(t, g[k - 1]) /\ g[k] = Turn(t, g[k - 1])
Reached(t, x) ==
    {y \in Walker : ~Steers(t, y) /\ \E n \in Nat : \E g : Trace(t, x, n, g) /\ g[n] = y}
Stop(t, x) == IF Reached(t, x) = {} THEN <<1, 0, 1>> ELSE CHOOSE y \in Reached(t, x) : TRUE

LEMMA TurnIs ==
    ASSUME NEW t, IsFile(t), NEW p \in Nat \ {0}, NEW c \in Nat, NEW s \in Nat \ {0},
           Steers(t, <<p, c, s>>)
    PROVE  \E q \in Nat \ {0}, d \in Nat, r \in Nat \ {0} :
              Turn(t, <<p, c, s>>) = <<q, d, r>> /\ TurnsTo(t, p, c, s, q, d, r)
<1>1. p \in 1 .. Len(Blocks(t)) /\ Blocks(t)[p] \in Block /\ p + 1 \in Nat \ {0}
  BY FileFacts DEF Steers
<1>2. CASE Blocks(t)[p].id = "loop"
  <2>1. Blocks(t)[p].times \in Nat
    BY <1>1, <1>2, Fields, WordNat
  <2>2. PICK d \in Nat : d = Blocks(t)[p].times
    BY <2>1
  <2>3. Turn(t, <<p, c, s>>) = <<p + 1, d, p + 1>> /\ TurnsTo(t, p, c, s, p + 1, d, p + 1)
    BY ONLY <1>2, <2>2 DEF Turn, TurnsTo
  <2> QED BY <1>1, <2>3
<1>3. CASE Blocks(t)[p].id = "endloop" /\ c > 1
  <2>1. Turn(t, <<p, c, s>>) = <<s, c - 1, s>> /\ TurnsTo(t, p, c, s, s, c - 1, s)
    BY ONLY <1>3 DEF Turn, TurnsTo
  <2>2. c - 1 \in Nat
    BY <1>3
  <2> QED BY <2>1, <2>2
<1>4. CASE Blocks(t)[p].id # "loop" /\ ~(Blocks(t)[p].id = "endloop" /\ c > 1)
  <2>1. Turn(t, <<p, c, s>>) = <<p + 1, c, s>> /\ TurnsTo(t, p, c, s, p + 1, c, s)
    BY ONLY <1>4 DEF Turn, TurnsTo
  <2> QED BY <1>1, <2>1
<1> QED BY <1>2, <1>3, <1>4

LEMMA TurnWalks ==
    ASSUME NEW t, IsFile(t), NEW x \in Walker, Steers(t, x)
    PROVE  Turn(t, x) \in Walker
<1>1. PICK p \in Nat \ {0}, c \in Nat, s \in Nat \ {0} : x = <<p, c, s>>
  BY DEF Walker
<1>2. PICK q \in Nat \ {0}, d \in Nat, r \in Nat \ {0} : Turn(t, <<p, c, s>>) = <<q, d, r>>
  BY <1>1, TurnIs
<1> QED BY <1>1, <1>2 DEF Walker

LEMMA StopHere ==
    ASSUME NEW t, NEW x \in Walker, ~Steers(t, x)
    PROVE  Stop(t, x) = x
<1>1. x \in Reached(t, x)
  <2>1. Trace(t, x, 0, [k \in 0 .. 0 |-> x]) /\ [k \in 0 .. 0 |-> x][0] = x
    BY DEF Trace
  <2> QED BY <2>1 DEF Reached
<1>2. ASSUME NEW y \in Reached(t, x)  PROVE y = x
  <2>0. PICK n \in Nat : \E g : Trace(t, x, n, g) /\ g[n] = y
    BY DEF Reached
  <2>1. PICK g : Trace(t, x, n, g) /\ g[n] = y
    BY <2>0
  <2>2. n = 0
    <3> SUFFICES ASSUME n # 0 PROVE FALSE
      OBVIOUS
    <3>1. 1 \in 1 .. n /\ 1 - 1 = 0
      OBVIOUS
    <3>2. Steers(t, g[0])
      BY ONLY <2>1, <3>1 DEF Trace
    <3> QED BY <2>1, <3>2 DEF Trace
  <2> QED BY <2>1, <2>2 DEF Trace
<1> QED BY <1>1, <1>2 DEF Stop

LEMMA StopTurned ==
    ASSUME NEW t, IsFile(t), NEW x \in Walker, Steers(t, x)
    PROVE  Stop(t, x) = Stop(t, Turn(t, x))
<1> DEFINE z == Turn(t, x)
<1>1. z \in Walker
  BY TurnWalks
<1>2. ASSUME NEW y \in Reached(t, x)  PROVE y \in Reached(t, z)
  <2>0. PICK n \in Nat : \E g : Trace(t, x, n, g) /\ g[n] = y
    BY DEF Reached
  <2>1. PICK g : Trace(t, x, n, g) /\ g[n] = y
    BY <2>0
  <2>2. y \in Walker /\ ~Steers(t, y)
    BY DEF Reached
  <2>3. n # 0
    BY <2>1, <2>2 DEF Trace
  <2>4. PICK m \in Nat : m + 1 = n
    <3>1. n - 1 \in Nat /\ (n - 1) + 1 = n
      BY ONLY <2>3, n \in Nat
    <3> QED BY <3>1
  <2> DEFINE h == [k \in 0 .. m |-> g[k + 1]]
  <2>5. h \in [0 .. m -> Walker]
    <3>1. ASSUME NEW k \in 0 .. m  PROVE g[k + 1] \in Walker
      <4>1. k + 1 \in 0 .. n
        BY ONLY k \in 0 .. m, m \in Nat, <2>4
      <4> QED BY ONLY <2>1, <4>1 DEF Trace
    <3> QED BY <3>1
  <2>6. h[0] = z /\ h[m] = y
    <3>1. 1 \in 1 .. n /\ 1 - 1 = 0 /\ 0 \in 0 .. m /\ 0 + 1 = 1 /\ m \in 0 .. m
      BY ONLY m \in Nat, <2>4
    <3>2. g[1] = Turn(t, g[0]) /\ g[0] = x
      BY ONLY <2>1, <3>1 DEF Trace
    <3>3. h[0] = g[1] /\ h[m] = g[n]
      BY ONLY <2>4, <3>1
    <3> QED BY <2>1, <3>2, <3>3
  <2>7. ASSUME NEW k \in 1 .. m  PROVE Steers(t, h[k - 1]) /\ h[k] = Turn(t, h[k - 1])
    <3>1. k + 1 \in 1 .. n /\ (k + 1) - 1 = k /\ k - 1 \in 0 .. m /\ k \in 0 .. m /\ (k - 1) + 1 = k
      BY ONLY k \in 1 .. m, m \in Nat, <2>4
    <3>2. Steers(t, g[k]) /\ g[k + 1] = Turn(t, g[k])
      BY ONLY <2>1, <3>1 DEF Trace
    <3>3. h[k - 1] = g[k] /\ h[k] = g[k + 1]
      BY ONLY <3>1
    <3> QED BY ONLY <3>2, <3>3
  <2> HIDE DEF h
  <2>8. Trace(t, z, m, h)
    BY ONLY <2>5, <2>6, <2>7 DEF Trace
  <2> QED BY <2>2, <2>6, <2>8 DEF Reached
<1>3. ASSUME NEW y \in Reached(t, z)  PROVE y \in Reached(t, x)
  <2>0. PICK n \in Nat : \E g : Trace(t, z, n, g) /\ g[n] = y
    BY DEF Reached
  <2>1. PICK g : Trace(t, z, n, g) /\ g[n] = y
    BY <2>0
  <2>2. y \in Walker /\ ~Steers(t, y)
    BY DEF Reached
  <2> DEFINE h == [k \in 0 .. n + 1 |-> IF k = 0 THEN x ELSE g[k - 1]]
  <2>3. h \in [0 .. n + 1 -> Walker]
    <3>1. ASSUME NEW k \in 0 .. n + 1, k # 0  PROVE g[k - 1] \in Walker
      <4>1. k - 1 \in 0 .. n
        BY ONLY k \in 0 .. n + 1, n \in Nat, k # 0
      <4> QED BY ONLY <2>1, <4>1 DEF Trace
    <3> QED BY <3>1
  <2>4. h[0] = x /\ h[n + 1] = y
    <3>1. 0 \in 0 .. n + 1 /\ n + 1 \in 0 .. n + 1 /\ n + 1 # 0 /\ (n + 1) - 1 = n
      BY ONLY n \in Nat
    <3> QED BY ONLY <2>1, <3>1
  <2>5. ASSUME NEW k \in 1 .. n + 1  PROVE Steers(t, h[k - 1]) /\ h[k] = Turn(t, h[k - 1])
    <3>1. CASE k = 1
      <4>1. h[k - 1] = x /\ h[k] = g[0]
        BY ONLY <3>1, k \in 1 .. n + 1, n \in Nat
      <4> QED BY <2>1, <4>1 DEF Trace
    <3>2. CASE k # 1
      <4>1. k - 1 \in 1 .. n /\ k - 1 \in 0 .. n + 1 /\ k \in 0 .. n + 1 /\ k - 1 # 0 /\ k # 0
        BY ONLY <3>2, k \in 1 .. n + 1, n \in Nat
      <4>2. Steers(t, g[(k - 1) - 1]) /\ g[k - 1] = Turn(t, g[(k - 1) - 1])
        BY ONLY <2>1, <4>1 DEF Trace
      <4>3. h[k - 1] = g[(k - 1) - 1] /\ h[k] = g[k - 1]
        BY ONLY <4>1
      <4> QED BY ONLY <4>2, <4>3
    <3> QED BY <3>1, <3>2
  <2> HIDE DEF h
  <2>6. Trace(t, x, n + 1, h)
    BY ONLY <2>3, <2>4, <2>5 DEF Trace
  <2>7. n + 1 \in Nat
    OBVIOUS
  <2> QED BY <2>2, <2>4, <2>6, <2>7 DEF Reached
<1>4. Reached(t, x) = Reached(t, z)
  BY <1>2, <1>3
<1> QED BY <1>4 DEF Stop

LEMMA SeekIs ==
    ASSUME NEW t, IsFile(t), NEW w \in Walker
    PROVE  Seek(t, w) = IF Steers(t, w) THEN Seek(t, Turn(t, w)) ELSE w
<1> DEFINE Is(f) == f = [x \in Walker |-> IF Steers(t, x) THEN f[Turn(t, x)] ELSE x]
           h == [x \in Walker |-> Stop(t, x)]
           seek == CHOOSE f : Is(f)
<1>1. Is(h)
  <2>1. ASSUME NEW x \in Walker  PROVE h[x] = IF Steers(t, x) THEN h[Turn(t, x)] ELSE x
    <3>1. CASE Steers(t, x)
      BY <3>1, TurnWalks, StopTurned
    <3>2. CASE ~Steers(t, x)
      BY <3>2, StopHere
    <3> QED BY <3>1, <3>2
  <2> QED BY <2>1
<1> HIDE DEF h
<1>2. Is(seek)
  <2>1. \E f : Is(f)
    BY <1>1
  <2> HIDE DEF Is
  <2> QED BY <2>1
<1>3. \A v \in Walker : Seek(t, v) = seek[v]
  BY DEF Seek
<1> HIDE DEF seek
<1>4. seek[w] = IF Steers(t, w) THEN seek[Turn(t, w)] ELSE w
  BY <1>2
<1>5. Steers(t, w) => Turn(t, w) \in Walker
  BY TurnWalks
<1> HIDE DEF Is
<1> QED BY <1>3, <1>4, <1>5


\* The walk comes to a block that plays or ends the tape, and the rest is the same.
Origin(p, c, s) == IF c <= 1 THEN p ELSE s
Stops(t, p, c, s) ==
    \E q \in Nat \ {0}, d \in Nat, r \in Nat \ {0} :
        /\ Seek(t, <<p, c, s>>) = <<q, d, r>> /\ ~Steers(t, <<q, d, r>>)
        /\ Walking(t, q, d, r) /\ Rest(t, q, d, r) = Rest(t, p, c, s)

LEMMA WalkerIs ==
    ASSUME NEW t, NEW p, NEW c, NEW s, Walking(t, p, c, s), IsFile(t)
    PROVE  p \in Nat \ {0} /\ c \in Nat /\ s \in Nat \ {0} /\ <<p, c, s>> \in Walker
<1>1. p \in Nat \ {0} /\ c \in Nat /\ s \in Nat \ {0}
  BY FileFacts DEF Walking
<1> QED BY ONLY <1>1 DEF Walker

LEMMA StopsHere ==
    ASSUME NEW t, IsFile(t), NEW p, NEW c, NEW s, Walking(t, p, c, s), ~Steers(t, <<p, c, s>>)
    PROVE  Stops(t, p, c, s)
<1>1. p \in Nat \ {0} /\ c \in Nat /\ s \in Nat \ {0} /\ <<p, c, s>> \in Walker
  BY WalkerIs
<1>2. Seek(t, <<p, c, s>>) = <<p, c, s>>
  BY <1>1, SeekIs
<1> QED BY <1>1, <1>2 DEF Stops

LEMMA StopsTurned ==
    ASSUME NEW t, IsFile(t), NEW p, NEW c, NEW s, Walking(t, p, c, s), Steers(t, <<p, c, s>>),
           \A q \in Nat \ {0}, d \in Nat, r \in Nat \ {0} :
               TurnsTo(t, p, c, s, q, d, r) /\ Walking(t, q, d, r) => Stops(t, q, d, r)
    PROVE  Stops(t, p, c, s)
<1>1. p \in Nat \ {0} /\ c \in Nat /\ s \in Nat \ {0} /\ <<p, c, s>> \in Walker
  BY WalkerIs
<1>2. PICK q \in Nat \ {0}, d \in Nat, r \in Nat \ {0} :
        Turn(t, <<p, c, s>>) = <<q, d, r>> /\ TurnsTo(t, p, c, s, q, d, r)
  BY <1>1, TurnIs
<1>3. Walking(t, q, d, r) /\ Rest(t, q, d, r) = Rest(t, p, c, s)
  BY <1>2, RestTurn
<1>4. Stops(t, q, d, r)
  BY <1>2, <1>3
<1>5. Seek(t, <<p, c, s>>) = Seek(t, <<q, d, r>>)
  BY <1>1, <1>2, SeekIs
<1>6. PICK u \in Nat \ {0}, v \in Nat, w \in Nat \ {0} :
        /\ Seek(t, <<q, d, r>>) = <<u, v, w>> /\ ~Steers(t, <<u, v, w>>)
        /\ Walking(t, u, v, w) /\ Rest(t, u, v, w) = Rest(t, q, d, r)
  BY ONLY <1>4 DEF Stops
<1>7. Seek(t, <<p, c, s>>) = <<u, v, w>> /\ Rest(t, u, v, w) = Rest(t, p, c, s)
  BY ONLY <1>3, <1>5, <1>6
<1> QED BY ONLY <1>6, <1>7 DEF Stops

LEMMA SeekStops ==
    ASSUME NEW t, IsFile(t), NEW p, NEW c, NEW s, Walking(t, p, c, s)
    PROVE  Stops(t, p, c, s)
<1> DEFINE n == Len(Blocks(t))
           All(o) == \A p1, c1, s1 \in Nat :
                        Walking(t, p1, c1, s1) /\ Origin(p1, c1, s1) >= o => Stops(t, p1, c1, s1)
           A == {k \in Nat : All(n + 1 - k)}
<1>0. n \in Nat
  BY FileFacts
\* Outside a loop every turn goes on.
<1>1. ASSUME NEW o \in Int, All(o + 1), NEW p1 \in Nat, NEW c1 \in Nat, NEW s1 \in Nat,
             Walking(t, p1, c1, s1), c1 <= 1, p1 >= o
      PROVE  Stops(t, p1, c1, s1)
  <2>1. CASE ~Steers(t, <<p1, c1, s1>>)
    BY <1>1, <2>1, StopsHere
  <2>2. CASE Steers(t, <<p1, c1, s1>>)
    <3>1. ASSUME NEW q \in Nat \ {0}, NEW d \in Nat, NEW r \in Nat \ {0},
                 TurnsTo(t, p1, c1, s1, q, d, r), Walking(t, q, d, r)
          PROVE  Stops(t, q, d, r)
      <4>1. q = p1 + 1 /\ (r = p1 + 1 \/ d = c1)
        BY ONLY <3>1, <1>1, c1 \in Nat DEF TurnsTo
      <4>2. Origin(q, d, r) >= o + 1
        BY ONLY <4>1, <1>1, c1 \in Nat, p1 \in Nat, o \in Int, d \in Nat DEF Origin
      <4> QED BY <1>1, <3>1, <4>2
    <3> QED BY <1>1, <2>2, <3>1, StopsTurned
  <2> QED BY <2>1, <2>2
<1>2. 0 \in A
  <2> SUFFICES ASSUME NEW p1 \in Nat, NEW c1 \in Nat, NEW s1 \in Nat,
                      Walking(t, p1, c1, s1), Origin(p1, c1, s1) >= n + 1
               PROVE  Stops(t, p1, c1, s1)
    BY <1>0
  <2>1. c1 <= 1
    <3> SUFFICES ASSUME c1 > 1 PROVE FALSE
      OBVIOUS
    <3>1. PICK e \in 1 .. n : s1 \in 1 .. e
      BY InLoop
    <3> QED BY <1>0, <3>1 DEF Origin
  <2>2. p1 >= n + 1
    BY <2>1 DEF Origin
  <2>3. ~Steers(t, <<p1, c1, s1>>)
    BY <1>0, <2>2 DEF Steers
  <2> QED BY <2>3, StopsHere
<1>3. ASSUME NEW k \in Nat, k \in A  PROVE k + 1 \in A
  <2> DEFINE o == n + 1 - (k + 1)
  <2>1. o \in Int /\ o + 1 = n + 1 - k /\ All(o + 1)
    <3>1. o \in Int /\ o + 1 = n + 1 - k
      BY <1>0
    <3> QED BY <1>3, <3>1
  <2> HIDE DEF o
  <2> SUFFICES All(o)
    BY DEF o
  \* Inside the loop whose body begins at o, by the passes still to come.
  <2> DEFINE B == {m \in Nat : \A p1, c1 \in Nat :
                      Walking(t, p1, c1, o) /\ c1 <= m + 1 /\ Origin(p1, c1, o) >= o
                          => Stops(t, p1, c1, o)}
  <2>2. ASSUME o \in Nat  PROVE 0 \in B
    <3> SUFFICES ASSUME NEW p1 \in Nat, NEW c1 \in Nat,
                        Walking(t, p1, c1, o), c1 <= 1, Origin(p1, c1, o) >= o
                 PROVE  Stops(t, p1, c1, o)
      OBVIOUS
    <3>1. p1 >= o
      BY DEF Origin
    <3> QED BY <1>1, <2>1, <2>2, <3>1
  <2>3. ASSUME NEW m \in Nat, o \in Nat, m \in B  PROVE m + 1 \in B
    <3> SUFFICES ASSUME NEW p2 \in Nat, NEW c1 \in Nat,
                        Walking(t, p2, c1, o), c1 <= m + 2, Origin(p2, c1, o) >= o
                 PROVE  Stops(t, p2, c1, o)
      BY <2>3
    <3>1. CASE c1 <= m + 1
      BY <2>3, <3>1
    <3>2. CASE c1 = m + 2
      <4>0. c1 > 1 /\ c1 - 1 = m + 1 /\ c1 - 1 \in Nat
        BY <3>2
      <4>1. PICK e \in 1 .. n :
              /\ e = LoopEnd(t, o - 1) /\ Blocks(t)[e].id = "endloop" /\ o \in 1 .. e /\ p2 \in o .. e
              /\ \A j \in o .. e - 1 : Blocks(t)[j].id \notin {"loop", "endloop", "bad"}
        BY <4>0, InLoop
      <4> DEFINE C == {j \in Nat : \A p1 \in Nat :
                          Walking(t, p1, c1, o) /\ p1 >= e - j => Stops(t, p1, c1, o)}
      <4>2. ASSUME NEW p1 \in Nat, Walking(t, p1, c1, o)
            PROVE  p1 \in o .. e
        <5>1. PICK f \in 1 .. n : f = LoopEnd(t, o - 1) /\ p1 \in o .. f
          BY <4>0, <4>2, InLoop
        <5> QED BY <4>1, <5>1
      <4>3. 0 \in C
        <5> SUFFICES ASSUME NEW p1 \in Nat, Walking(t, p1, c1, o), p1 >= e - 0
                     PROVE  Stops(t, p1, c1, o)
          OBVIOUS
        <5>1. p1 = e
          <6>1. p1 \in o .. e
            BY <4>2
          <6> HIDE DEF n
          <6> QED BY ONLY <6>1, <1>0, p1 >= e - 0, e \in 1 .. n, <2>1
        <5>2. p1 <= n
          BY <1>0, <5>1
        <5>3. Steers(t, <<p1, c1, o>>)
          BY <4>1, <5>1, <5>2 DEF Steers
        <5>4. ASSUME NEW q \in Nat \ {0}, NEW d \in Nat, NEW r \in Nat \ {0},
                     TurnsTo(t, p1, c1, o, q, d, r), Walking(t, q, d, r)
              PROVE  Stops(t, q, d, r)
          <6>1. q = o /\ d = c1 - 1 /\ r = o
            BY <4>0, <4>1, <5>1, <5>4 DEF TurnsTo
          <6>2. Origin(q, d, r) >= o
            BY <2>1, <6>1 DEF Origin
          <6>3. d <= m + 1
            BY <4>0, <6>1
          <6> QED BY <2>3, <5>4, <6>1, <6>2, <6>3
        <5> QED BY <5>3, <5>4, StopsTurned
      <4>4. ASSUME NEW j \in Nat, j \in C  PROVE j + 1 \in C
        <5> SUFFICES ASSUME NEW p1 \in Nat, Walking(t, p1, c1, o), p1 >= e - (j + 1)
                     PROVE  Stops(t, p1, c1, o)
          OBVIOUS
        <5>1. CASE p1 >= e - j
          BY <4>4, <5>1
        <5>2. CASE ~(p1 >= e - j)
          <6>1. p1 \in o .. e - 1 /\ p1 + 1 >= e - j
            <7>1. p1 \in o .. e
              BY <4>2
            <7>2. e \in Nat
              BY <1>0
            <7> QED BY ONLY <7>1, <7>2, <5>2, j \in Nat, p1 >= e - (j + 1), <2>1
          <6>2. CASE ~Steers(t, <<p1, c1, o>>)
            BY <6>2, StopsHere
          <6>3. CASE Steers(t, <<p1, c1, o>>)
            <7>1. Blocks(t)[p1].id \notin {"loop", "endloop"}
              BY <4>1, <6>1
            <7>2. ASSUME NEW q \in Nat \ {0}, NEW d \in Nat, NEW r \in Nat \ {0},
                         TurnsTo(t, p1, c1, o, q, d, r), Walking(t, q, d, r)
                  PROVE  Stops(t, q, d, r)
              <8>1. q = p1 + 1 /\ d = c1 /\ r = o
                BY <7>1, <7>2 DEF TurnsTo
              <8> QED BY <4>4, <6>1, <7>2, <8>1
            <7> QED BY <6>3, <7>2, StopsTurned
          <6> QED BY <6>2, <6>3
        <5> QED BY <5>1, <5>2
      <4>5. \A j \in Nat : j \in C
        <5> HIDE DEF C
        <5> QED BY <4>3, <4>4, Induction
      <4>6. e - p2 \in Nat /\ e - (e - p2) = p2 /\ p2 >= p2
        <5> HIDE DEF n
        <5> QED BY ONLY <1>0, e \in 1 .. n, p2 \in Nat, <4>1
      <4>7. e - p2 \in C
        BY <4>5, <4>6
      <4> QED BY <4>6, <4>7
    <3> QED BY <3>1, <3>2
  <2>4. ASSUME NEW p1 \in Nat, NEW c1 \in Nat, NEW s1 \in Nat,
               Walking(t, p1, c1, s1), Origin(p1, c1, s1) >= o
        PROVE  Stops(t, p1, c1, s1)
    <3>1. CASE c1 <= 1
      <4>1. p1 >= o
        BY <2>4, <3>1 DEF Origin
      <4> QED BY <1>1, <2>1, <2>4, <3>1, <4>1
    <3>2. CASE c1 > 1 /\ s1 = o
      <4>1. \A m \in Nat : m \in B
        <5> HIDE DEF B
        <5>1. o \in Nat
          BY <3>2
        <5> QED BY <2>2, <2>3, <5>1, Induction
      <4>2. c1 \in B /\ c1 <= c1 + 1
        BY <4>1
      <4> QED BY <2>4, <3>2, <4>2
    <3>3. CASE c1 > 1 /\ s1 # o
      <4>1. Origin(p1, c1, s1) >= o + 1
        BY <2>1, <2>4, <3>3 DEF Origin
      <4> QED BY <2>1, <2>4, <4>1
    <3> QED BY <3>1, <3>2, <3>3
  <2> QED BY <2>4
<1>4. \A k \in Nat : k \in A
  <2> HIDE DEF A
  <2> QED BY <1>2, <1>3, Induction
<1>5. n + 1 \in Nat /\ n + 1 - (n + 1) = 0
  BY ONLY <1>0
<1>6. n + 1 \in A
  BY ONLY <1>4, <1>5
<1>7. All(0)
  BY ONLY <1>5, <1>6
<1>8. p \in Nat /\ c \in Nat /\ s \in Nat
  BY WalkerIs
<1>9. Origin(p, c, s) >= 0
  BY ONLY <1>8 DEF Origin
<1> QED BY ONLY <1>7, <1>8, <1>9, Walking(t, p, c, s)

-----------------------------------------------------------------------------
(* What is left of the block in the producer. *)
Slice(s, k, e) == SubSeq(s, k, e)
Run(n, d) == [i \in 1 .. n |-> d]
Left(x, phase, left, byte, bit, half) ==
    CASE phase = 1 -> Run(left, PilotLen(x))
                      \o (IF x.id = "tone" THEN <<>> ELSE Sync(x) \o BitPulses(x))
      [] phase = 2 -> Sync(x) \o BitPulses(x)
      [] phase = 3 -> SubSeq(Sync(x), 2, 2) \o BitPulses(x)
      [] phase = 4 -> Slice(BytePulses(x, byte), 2 * bit - 1 + half, 2 * Kept(x, byte))
                      \o From(Bits(x), byte + 1)
      [] phase = 5 -> <<>>
      [] phase = 6 -> Slice(x.lens, byte, Len(x.lens))

\* The counters each phase can have.
Phased(x, phase, left, byte, bit, half, first) ==
    /\ phase \in 1 .. 6 /\ x.id \notin Steering /\ first \in BOOLEAN
    /\ phase = 1 => x.id \in {"std", "turbo", "tone"} /\ left \in Nat \ {0}
    /\ phase \in {2, 3} => x.id \in {"std", "turbo"}
    /\ phase \in 1 .. 3 => byte = 1 /\ bit = 1 /\ half = 0
    /\ phase \in {3, 5} => ~first
    /\ phase = 4 => /\ x.id \in WithData /\ byte \in 1 .. Len(x.data)
                    /\ bit \in 1 .. Kept(x, byte) /\ half \in {0, 1}
    /\ phase = 6 => x.id = "pulses" /\ byte \in 1 .. Len(x.lens)

LEMMA BitsFrom ==
    ASSUME NEW x \in Block, x.id \in WithData, NEW i \in 1 .. Len(x.data)
    PROVE  /\ From(Bits(x), i) = BytePulses(x, i) \o From(Bits(x), i + 1)
           /\ From(Bits(x), i + 1) \in Seq(Word) /\ From(Bits(x), i) \in Seq(Word)
           /\ i = Len(x.data) => From(Bits(x), i + 1) = <<>>
           /\ From(Bits(x), 1) = BitPulses(x)
<1>1. Bits(x) \in Seq(Seq(Word)) /\ Len(Bits(x)) = Len(x.data) /\ Len(x.data) \in Nat
  BY BitsType, BlockFields
<1>2. PICK e \in Nat : e = Len(Bits(x)) /\ i \in 1 .. e /\ e <= Len(Bits(x))
  BY <1>1
<1>3. /\ FlattenSeq(SubSeq(Bits(x), i, e)) = Bits(x)[i] \o FlattenSeq(SubSeq(Bits(x), i + 1, e))
      /\ FlattenSeq(SubSeq(Bits(x), i + 1, e)) \in Seq(Word)
      /\ FlattenSeq(SubSeq(Bits(x), i, e)) \in Seq(Word)
  BY ONLY <1>1, <1>2, e \in Nat, FlatSplit, ZenonT(40)
<1>4. Bits(x)[i] = BytePulses(x, i)
  BY BitsType
<1>5. i = Len(x.data) => From(Bits(x), i + 1) = <<>>
  <2> SUFFICES ASSUME i = Len(x.data) PROVE From(Bits(x), i + 1) = <<>>
    OBVIOUS
  <2>1. i + 1 \in Int /\ e \in Int /\ i + 1 > e
    BY ONLY <1>1, <1>2, i = Len(x.data)
  <2> QED BY ONLY <1>2, <2>1, FlatNone DEF From
<1>6. From(Bits(x), 1) = BitPulses(x)
  <2> DEFINE Y == Seq(Word)
  <2>1. Bits(x) \in Seq(Y)
    BY <1>1
  <2> HIDE DEF Y
  <2>2. SubSeq(Bits(x), 1, Len(Bits(x))) = Bits(x)
    BY ONLY <2>1
  <2> QED BY <2>2, BitsType DEF From
<1> QED BY ONLY <1>2, <1>3, <1>4, <1>5, <1>6 DEF From

LEMMA ByteAt ==
    ASSUME NEW x \in Block, x.id \in WithData, NEW i \in 1 .. Len(x.data),
           NEW k \in 1 .. Kept(x, i), NEW h \in {0, 1}
    PROVE  /\ 2 * k - 1 + h \in 1 .. Len(BytePulses(x, i))
           /\ BytePulses(x, i)[2 * k - 1 + h] = BitLen(x, x.data[i][k])
           /\ BitLen(x, x.data[i][k]) \in Word
<1>1. PICK n \in 1 .. BITS : n = Kept(x, i)
  <2>1. i \in Nat
    BY BlockFields
  <2> QED BY <2>1, BlockFields
<1>2. BITS \in Nat
  BY TapeAssumption
<1>3. Len(BytePulses(x, i)) = 2 * n
  BY <1>1, BitsType
<1>4. 2 * k - 1 + h \in 1 .. 2 * n /\ (2 * k - 1 + h + 1) \div 2 = k /\ k \in 1 .. BITS
  BY ONLY <1>1, <1>2, n \in 1 .. BITS, k \in 1 .. Kept(x, i), h \in {0, 1}
<1>5. BytePulses(x, i) = [j \in 1 .. 2 * n |-> BitLen(x, x.data[i][(j + 1) \div 2])]
  BY <1>1 DEF BytePulses
<1>6. PICK m : m = 2 * k - 1 + h
  OBVIOUS
<1>7. BytePulses(x, i)[m] = BitLen(x, x.data[i][(m + 1) \div 2])
  BY ONLY <1>4, <1>5, <1>6
<1>8. (m + 1) \div 2 = k
  BY ONLY <1>4, <1>6
<1>9. x.data[i][k] \in {0, 1}
  <2>1. x.data[i] \in [1 .. BITS -> {0, 1}]
    BY BlockFields
  <2> QED BY ONLY <1>4, <2>1
<1>10. BitLen(x, x.data[i][k]) \in Word
  BY <1>9, BlockFields
<1> QED BY ONLY <1>3, <1>4, <1>6, <1>7, <1>8, <1>10

LEMMA LeadTail ==
    ASSUME NEW x \in Block, x.id \in {"std", "turbo"}
    PROVE  /\ Sync(x)[1] \in Word /\ Sync(x)[2] \in Word /\ BitPulses(x) \in Seq(Word)
           /\ Sync(x) \o BitPulses(x) = <<Sync(x)[1]>> \o (SubSeq(Sync(x), 2, 2) \o BitPulses(x))
           /\ SubSeq(Sync(x), 2, 2) \o BitPulses(x) = <<Sync(x)[2]>> \o BitPulses(x)
           /\ SubSeq(Sync(x), 2, 2) \o BitPulses(x) \in Seq(Word)
           /\ Sync(x) \o BitPulses(x) \in Seq(Word)
<1>1. Sync(x) \in Seq(Word) /\ Len(Sync(x)) = 2 /\ Sync(x)[1] \in Word /\ Sync(x)[2] \in Word
  BY LeadFields, PairType
<1>2. PICK y \in Seq(Word) : y = Sync(x)
  BY <1>1
<1>3. BitPulses(x) \in Seq(Word)
  BY BitsType DEF WithData
<1>4. PICK z \in Seq(Word) : z = BitPulses(x)
  BY <1>3
<1>5. PICK u \in Word, v \in Word : u = y[1] /\ v = y[2]
  BY <1>1, <1>2
<1>6. SubSeq(y, 2, 2) = <<v>> /\ y = <<u>> \o <<v>> /\ <<u>> \in Seq(Word) /\ <<v>> \in Seq(Word)
  <2>1. 1 \in 1 .. Len(y) /\ 2 \in 1 .. Len(y) /\ 1 + 1 = 2 /\ 2 + 1 = Len(y) + 1 /\ Len(y) = 2
    <3>1. Len(y) = 2
      BY ONLY <1>1, <1>2
    <3> QED BY ONLY <3>1
  <2>2. y = <<y[1]>> \o SubSeq(y, 2, 2)
    BY ONLY y \in Seq(Word), <2>1, Shift
  <2>3. SubSeq(y, 2, 2) = <<y[2]>> \o <<>>
    <3>1. SubSeq(y, 2, Len(y)) = <<y[2]>> \o SubSeq(y, 2 + 1, Len(y))
      BY ONLY y \in Seq(Word), <2>1, Shift
    <3>2. SubSeq(y, Len(y) + 1, Len(y)) = <<>>
      BY ONLY y \in Seq(Word), <2>1, Shift
    <3>3. SubSeq(y, 2 + 1, Len(y)) = <<>>
      BY ONLY <2>1, <3>2
    <3> QED BY ONLY <2>1, <3>1, <3>3
  <2>4. <<u>> \in Seq(Word) /\ <<v>> \in Seq(Word)
    BY ONLY u \in Word, v \in Word
  <2>5. <<v>> \o <<>> = <<v>>
    BY ONLY <2>4, ConcatEmpty
  <2> QED BY ONLY <1>5, <2>2, <2>3, <2>4, <2>5
<1>7. /\ y \o z = <<u>> \o (<<v>> \o z) /\ y \o z \in Seq(Word) /\ <<v>> \o z \in Seq(Word)
  BY ONLY <1>6, z \in Seq(Word), Associative
<1> QED BY ONLY <1>1, <1>2, <1>3, <1>4, <1>5, <1>6, <1>7

LEMMA ConstNext ==
    ASSUME NEW X, NEW d \in X, NEW n \in Nat
    PROVE  Run(n + 1, d) = <<d>> \o Run(n, d) /\ Run(0, d) = <<>> /\ Run(n, d) \in Seq(X)
  BY DEF Run

LEMMA LeftType ==
    ASSUME NEW x \in Block, NEW phase, NEW left, NEW byte, NEW bit, NEW half, NEW first,
           Phased(x, phase, left, byte, bit, half, first)
    PROVE  Left(x, phase, left, byte, bit, half) \in Seq(Word)
<1>0. phase \in 1 .. 6
  BY DEF Phased
<1>1. CASE phase = 1
  <2>1. x.id \in {"std", "turbo", "tone"} /\ left \in Nat
    BY <1>1 DEF Phased
  <2>2. PilotLen(x) \in Word
    <3>1. CASE x.id = "tone"
      BY <3>1, Fields DEF PilotLen
    <3>2. CASE x.id # "tone"
      BY <2>1, <3>2, LeadFields
    <3> QED BY <3>1, <3>2
  <2>3. PICK p \in Seq(Word) : p = Run(left, PilotLen(x))
    BY <2>1, <2>2, ConstNext
  <2>4. (IF x.id = "tone" THEN <<>> ELSE Sync(x) \o BitPulses(x)) \in Seq(Word)
    <3>1. <<>> \in Seq(Word)
      OBVIOUS
    <3> QED BY <2>1, <3>1, LeadTail
  <2>5. PICK q \in Seq(Word) : q = (IF x.id = "tone" THEN <<>> ELSE Sync(x) \o BitPulses(x))
    BY <2>4
  <2>6. Left(x, phase, left, byte, bit, half) = p \o q
    BY ONLY <1>1, <2>3, <2>5 DEF Left
  <2> QED BY ONLY <2>6, p \in Seq(Word), q \in Seq(Word)
<1>2. CASE phase \in {2, 3}
  <2>1. x.id \in {"std", "turbo"}
    BY <1>2 DEF Phased
  <2>2. /\ phase = 2 => Left(x, phase, left, byte, bit, half) = Sync(x) \o BitPulses(x)
        /\ phase = 3 => Left(x, phase, left, byte, bit, half) = SubSeq(Sync(x), 2, 2) \o BitPulses(x)
    BY ONLY <1>2 DEF Left
  <2> QED BY <1>2, <2>1, <2>2, LeadTail
<1>3. CASE phase = 4
  <2>1. /\ x.id \in WithData /\ byte \in 1 .. Len(x.data)
        /\ bit \in 1 .. Kept(x, byte) /\ half \in {0, 1}
    BY <1>3 DEF Phased
  <2>2. BytePulses(x, byte) \in Seq(Word) /\ Len(BytePulses(x, byte)) = 2 * Kept(x, byte)
    BY <2>1, BitsType
  <2>3. 2 * bit - 1 + half \in 1 .. Len(BytePulses(x, byte))
    BY <2>1, ByteAt
  <2>4. Slice(BytePulses(x, byte), 2 * bit - 1 + half, 2 * Kept(x, byte)) \in Seq(Word)
    BY ONLY <2>2, <2>3, Shift DEF Slice
  <2>5. From(Bits(x), byte + 1) \in Seq(Word)
    BY <2>1, BitsFrom
  <2>6. PICK p \in Seq(Word) :
           p = Slice(BytePulses(x, byte), 2 * bit - 1 + half, 2 * Kept(x, byte))
    BY <2>4
  <2>7. PICK q \in Seq(Word) : q = From(Bits(x), byte + 1)
    BY <2>5
  <2>8. Left(x, phase, left, byte, bit, half) = p \o q
    BY ONLY <1>3, <2>6, <2>7 DEF Left
  <2> QED BY ONLY <2>8, p \in Seq(Word), q \in Seq(Word)
<1>4. CASE phase = 5
  <2>1. Left(x, phase, left, byte, bit, half) = <<>>
    BY ONLY <1>4 DEF Left
  <2> QED BY <2>1
<1>5. CASE phase = 6
  <2>1. x.id = "pulses" /\ byte \in 1 .. Len(x.lens)
    BY <1>5 DEF Phased
  <2>2. x.lens \in Seq(Word)
    BY <2>1, Fields
  <2>3. Left(x, phase, left, byte, bit, half) = Slice(x.lens, byte, Len(x.lens))
    BY ONLY <1>5 DEF Left
  <2> QED BY ONLY <2>1, <2>2, <2>3, Shift DEF Slice
<1> QED BY <1>0, <1>1, <1>2, <1>3, <1>4, <1>5

\* A block as tape_load_seg begins it.
LEMMA LeftStart ==
    ASSUME NEW x \in Block, x.id \notin Steering,
           NEW left, left = IF x.id \in {"std", "turbo", "tone"} THEN Pilots(x) ELSE 0
    PROVE  /\ Phased(x, StartPhase(x), left, 1, 1, 0, StartsBlock(x))
           /\ Left(x, StartPhase(x), left, 1, 1, 0) = Lengths(x)
           /\ StartsBlock(x) \/ Lengths(x) = <<>>
<1>0. x.id \in {"std", "turbo", "tone", "pulses", "data", "pause"}
  BY Fields
<1>1. CASE x.id \in {"std", "turbo"}
  <2>1. PICK n \in Nat : n = Pilots(x) /\ left = n
    BY <1>1, LeadFields
  <2>2. PilotLen(x) \in Word
    BY <1>1, LeadFields
  <2>3. PICK z \in Seq(Word) : z = Sync(x) \o BitPulses(x)
    BY <1>1, LeadTail
  <2>4. StartsBlock(x) = TRUE
    BY <1>1 DEF StartsBlock
  <2>5. Lengths(x) = Run(n, PilotLen(x)) \o z
    <3>1. Lengths(x) = (Run(n, PilotLen(x)) \o Sync(x)) \o BitPulses(x)
      BY ONLY <1>1, <2>1 DEF Lengths, Run
    <3>2. PICK p \in Seq(Word) : p = Run(n, PilotLen(x))
      BY <2>2, ConstNext
    <3>3. PICK u \in Seq(Word) : u = Sync(x)
      BY <1>1, LeadFields, PairType
    <3>4. PICK v \in Seq(Word) : v = BitPulses(x)
      BY <1>1, LeadTail
    <3>5. (p \o u) \o v = p \o (u \o v)
      <4>1. Regrouped(p, u, v)
        BY ONLY p \in Seq(Word), u \in Seq(Word), v \in Seq(Word), Regroup, ZenonT(40)
      <4> QED BY ONLY <4>1, Zenon DEF Regrouped
    <3> QED BY ONLY <2>3, <3>1, <3>2, <3>3, <3>4, <3>5
  <2>6. CASE n > 0
    <3>1. StartPhase(x) = 1
      <4>1. x.id = "turbo" => x.count = n
        BY ONLY <2>1 DEF Pilots
      <4> QED BY ONLY <1>1, <2>6, <4>1 DEF StartPhase
    <3>2. Left(x, 1, n, 1, 1, 0) = Run(n, PilotLen(x)) \o z
      BY ONLY <1>1, <2>3, SMTT(30) DEF Left
    <3>3. Phased(x, 1, n, 1, 1, 0, TRUE)
      BY <1>1, <2>6 DEF Phased
    <3> QED BY ONLY <2>1, <2>4, <2>5, <3>1, <3>2, <3>3
  <2>7. CASE n = 0
    <3>1. StartPhase(x) = 2
      <4>1. x.id = "turbo"
        <5>1. x.id = "std" => Pilots(x) > 0
          BY <1>1, LeadFields
        <5> QED BY ONLY <1>1, <2>1, <2>7, <5>1
      <4>2. x.count = n
        BY ONLY <2>1, <4>1 DEF Pilots
      <4> QED BY ONLY <4>1, <4>2, <2>7 DEF StartPhase
    <3>2. Left(x, 2, n, 1, 1, 0) = z
      BY ONLY <2>3 DEF Left
    <3>3. Phased(x, 2, n, 1, 1, 0, TRUE)
      BY <1>1 DEF Phased
    <3>4. Run(n, PilotLen(x)) = <<>>
      BY ONLY <2>2, <2>7, ConstNext
    <3>5. <<>> \o z = z
      BY ONLY z \in Seq(Word)
    <3> QED BY ONLY <2>1, <2>4, <2>5, <3>1, <3>2, <3>3, <3>4, <3>5
  <2> QED BY <2>6, <2>7
<1>2. CASE x.id = "tone"
  <2>1. PICK n \in Nat : n = Pilots(x) /\ left = n /\ x.count = n
    <3>1. x.count \in Word
      BY <1>2, Fields
    <3>2. x.count \in Nat
      BY <3>1, WordNat
    <3> QED BY <1>2, <3>2 DEF Pilots
  <2>2. PICK d \in Word : d = x.pilot
    BY <1>2, Fields
  <2>3. PilotLen(x) = d
    BY ONLY <1>2, <2>2 DEF PilotLen
  <2>4. PICK p \in Seq(Word) : p = Run(n, d) /\ (n = 0 => p = <<>>)
    BY ConstNext, ConstNext
  <2>5. Lengths(x) = p
    BY ONLY <1>2, <2>1, <2>2, <2>4 DEF Lengths, Run
  <2>6. CASE n > 0
    <3>1. StartPhase(x) = 1
      BY ONLY <1>2, <2>1, <2>6 DEF StartPhase
    <3>2. StartsBlock(x) = TRUE
      BY ONLY <3>1 DEF StartsBlock
    <3>3. Left(x, 1, n, 1, 1, 0) = p \o <<>>
      BY ONLY <1>2, <2>3, <2>4 DEF Left
    <3>4. p \o <<>> = p
      BY ONLY p \in Seq(Word), ConcatEmpty
    <3>5. Phased(x, 1, n, 1, 1, 0, TRUE)
      BY <1>2, <2>6 DEF Phased
    <3> QED BY ONLY <2>1, <2>5, <3>1, <3>2, <3>3, <3>4, <3>5
  <2>7. CASE n = 0
    <3>1. StartPhase(x) = 5
      BY ONLY <1>2, <2>1, <2>7 DEF StartPhase
    <3>2. StartsBlock(x) = FALSE
      BY ONLY <1>2, <3>1 DEF StartsBlock
    <3>3. Left(x, 5, n, 1, 1, 0) = <<>>
      BY ONLY DEF Left
    <3>4. Phased(x, 5, n, 1, 1, 0, FALSE)
      BY <1>2 DEF Phased
    <3> QED BY ONLY <2>1, <2>4, <2>5, <2>7, <3>1, <3>2, <3>3, <3>4
  <2> QED BY <2>6, <2>7
<1>3. CASE x.id = "pulses"
  <2>1. PICK y \in Seq(Word) : y = x.lens
    BY <1>3, Fields
  <2>2. Lengths(x) = y
    BY ONLY <1>3, <2>1 DEF Lengths
  <2>3. CASE y # <<>>
    <3>1. StartPhase(x) = 6
      BY ONLY <1>3, <2>1, <2>3 DEF StartPhase
    <3>2. StartsBlock(x) = TRUE
      BY ONLY <3>1 DEF StartsBlock
    <3>3. 1 \in 1 .. Len(y) /\ Slice(y, 1, Len(y)) = y
      BY ONLY y \in Seq(Word), <2>3 DEF Slice
    <3>4. Left(x, 6, left, 1, 1, 0) = y
      BY ONLY <2>1, <3>3 DEF Left
    <3>5. Phased(x, 6, left, 1, 1, 0, TRUE)
      BY <1>3, <2>1, <3>3 DEF Phased
    <3> QED BY ONLY <2>2, <3>1, <3>2, <3>4, <3>5
  <2>4. CASE y = <<>>
    <3>1. StartPhase(x) = 5
      BY ONLY <1>3, <2>1, <2>4 DEF StartPhase
    <3>2. StartsBlock(x) = FALSE
      BY ONLY <1>3, <3>1 DEF StartsBlock
    <3>3. Left(x, 5, left, 1, 1, 0) = <<>>
      BY ONLY DEF Left
    <3>4. Phased(x, 5, left, 1, 1, 0, FALSE)
      BY <1>3 DEF Phased
    <3> QED BY ONLY <2>2, <2>4, <3>1, <3>2, <3>3, <3>4
  <2> QED BY <2>3, <2>4
<1>4. CASE x.id = "data"
  <2>1. StartPhase(x) = 4 /\ StartsBlock(x) = TRUE
    BY ONLY <1>4 DEF StartPhase, StartsBlock
  <2>2. Len(x.data) \in Nat \ {0} /\ Kept(x, 1) \in 1 .. BITS /\ BITS \in Nat
    BY <1>4, BlockFields, TapeAssumption DEF WithData
  <2>3. 1 \in 1 .. Len(x.data) /\ 1 \in 1 .. Kept(x, 1)
    BY ONLY <2>2
  <2>4. From(Bits(x), 1) = BytePulses(x, 1) \o From(Bits(x), 1 + 1) /\ From(Bits(x), 1) = BitPulses(x)
    BY <1>4, <2>3, BitsFrom DEF WithData
  <2>5. BytePulses(x, 1) \in Seq(Word) /\ Len(BytePulses(x, 1)) = 2 * Kept(x, 1)
    BY <1>4, <2>3, BitsType DEF WithData
  <2>6. Slice(BytePulses(x, 1), 2 * 1 - 1 + 0, 2 * Kept(x, 1)) = BytePulses(x, 1)
    <3>1. 2 * 1 - 1 + 0 = 1
      OBVIOUS
    <3> QED BY ONLY <2>5, <3>1 DEF Slice
  <2>7. Left(x, 4, left, 1, 1, 0) = BytePulses(x, 1) \o From(Bits(x), 1 + 1)
    BY ONLY <2>6 DEF Left
  <2>8. Lengths(x) = BitPulses(x)
    BY ONLY <1>4 DEF Lengths
  <2>9. Phased(x, 4, left, 1, 1, 0, TRUE)
    BY <1>4, <2>3 DEF Phased, WithData
  <2> QED BY ONLY <2>1, <2>4, <2>7, <2>8, <2>9
<1>5. CASE x.id = "pause"
  <2>1. StartPhase(x) = 5
    BY ONLY <1>5 DEF StartPhase
  <2>2. StartsBlock(x) = FALSE
    BY ONLY <1>5, <2>1 DEF StartsBlock
  <2>3. Left(x, 5, left, 1, 1, 0) = <<>> /\ Lengths(x) = <<>>
    BY ONLY <1>5 DEF Left, Lengths
  <2>4. Phased(x, 5, left, 1, 1, 0, FALSE)
    BY <1>5 DEF Phased
  <2> QED BY ONLY <2>1, <2>2, <2>3, <2>4
<1> QED BY <1>0, <1>1, <1>2, <1>3, <1>4, <1>5

LEMMA LeftIs ==
    ASSUME NEW x, NEW left, NEW byte, NEW bit, NEW half
    PROVE  /\ Left(x, 1, left, byte, bit, half)
              = Run(left, PilotLen(x)) \o (IF x.id = "tone" THEN <<>> ELSE Sync(x) \o BitPulses(x))
           /\ Left(x, 2, left, byte, bit, half) = Sync(x) \o BitPulses(x)
           /\ Left(x, 3, left, byte, bit, half) = SubSeq(Sync(x), 2, 2) \o BitPulses(x)
           /\ Left(x, 4, left, byte, bit, half)
              = Slice(BytePulses(x, byte), 2 * bit - 1 + half, 2 * Kept(x, byte))
                \o From(Bits(x), byte + 1)
           /\ Left(x, 5, left, byte, bit, half) = <<>>
           /\ Left(x, 6, left, byte, bit, half) = Slice(x.lens, byte, Len(x.lens))
<1>1. Left(x, 1, left, byte, bit, half)
      = Run(left, PilotLen(x)) \o (IF x.id = "tone" THEN <<>> ELSE Sync(x) \o BitPulses(x))
  BY DEF Left
<1>2. Left(x, 2, left, byte, bit, half) = Sync(x) \o BitPulses(x)
  BY DEF Left
<1>3. Left(x, 3, left, byte, bit, half) = SubSeq(Sync(x), 2, 2) \o BitPulses(x)
  BY DEF Left
<1>4. Left(x, 4, left, byte, bit, half)
      = Slice(BytePulses(x, byte), 2 * bit - 1 + half, 2 * Kept(x, byte)) \o From(Bits(x), byte + 1)
  BY DEF Left
<1>5. Left(x, 5, left, byte, bit, half) = <<>>
  BY DEF Left
<1>6. Left(x, 6, left, byte, bit, half) = Slice(x.lens, byte, Len(x.lens))
  BY DEF Left
<1> QED BY ONLY <1>1, <1>2, <1>3, <1>4, <1>5, <1>6

\* One pulse less to go: what the producer sends and what it leaves, phase by phase.
AfterPilot(x, left) == IF left > 1 THEN 1 ELSE IF x.id = "tone" THEN 5 ELSE 2
LEMMA NextPilot ==
    ASSUME NEW x \in Block, NEW left, NEW byte, NEW bit, NEW half, NEW first,
           Phased(x, 1, left, byte, bit, half, first)
    PROVE  /\ PilotLen(x) \in Word /\ left - 1 \in Nat
           /\ Phased(x, AfterPilot(x, left), left - 1, byte, bit, half, FALSE)
           /\ Left(x, 1, left, byte, bit, half)
              = <<PilotLen(x)>> \o Left(x, AfterPilot(x, left), left - 1, byte, bit, half)
<1>0. PICK next : next = AfterPilot(x, left) /\ next = IF left > 1 THEN 1 ELSE IF x.id = "tone" THEN 5 ELSE 2
  BY DEF AfterPilot
<1>1. PICK n \in Nat : left = n + 1 /\ left - 1 = n
  <2>1. left \in Nat \ {0}
    BY DEF Phased
  <2>2. left - 1 \in Nat /\ left = (left - 1) + 1
    BY ONLY <2>1
  <2> QED BY <2>2
<1>2. /\ x.id \notin Steering /\ x.id \in {"std", "turbo", "tone"}
      /\ byte = 1 /\ bit = 1 /\ half = 0
  BY DEF Phased
<1>3. PICK d \in Word : d = PilotLen(x)
  <2>1. CASE x.id = "tone"
    BY <2>1, Fields DEF PilotLen
  <2>2. CASE x.id # "tone"
    BY <1>2, <2>2, LeadFields
  <2> QED BY <2>1, <2>2
<1>4. PICK q \in Seq(Word) : q = IF x.id = "tone" THEN <<>> ELSE Sync(x) \o BitPulses(x)
  <2>1. <<>> \in Seq(Word)
    OBVIOUS
  <2> QED BY <1>2, <2>1, LeadTail
<1>5. Left(x, 1, left, byte, bit, half) = Run(n + 1, d) \o q
  <2>1. Left(x, 1, left, byte, bit, half)
        = Run(left, PilotLen(x)) \o (IF x.id = "tone" THEN <<>> ELSE Sync(x) \o BitPulses(x))
    BY ONLY LeftIs, SMTT(30)
  <2>2. Left(x, 1, left, byte, bit, half) = Run(left, d) \o q
    BY ONLY <2>1, <1>3, <1>4
  <2> QED BY ONLY <2>2, <1>1
<1>6. PICK r \in Seq(Word) : r = Run(n, d)
  BY ConstNext
<1>7. Run(n + 1, d) = <<d>> \o r /\ <<d>> \in Seq(Word)
  <2>1. <<d>> \in Seq(Word)
    BY ONLY d \in Word
  <2> QED BY <1>6, <2>1, ConstNext
<1>8. Left(x, 1, left, byte, bit, half) = <<d>> \o (r \o q)
  <2>1. PICK w \in Seq(Word) : w = <<d>>
    BY <1>7
  <2>2. (w \o r) \o q = w \o (r \o q)
    <3>1. Regrouped(w, r, q)
      BY ONLY w \in Seq(Word), r \in Seq(Word), q \in Seq(Word), Regroup, ZenonT(40)
    <3> QED BY ONLY <3>1, Zenon DEF Regrouped
  <2> QED BY ONLY <1>5, <1>7, <2>1, <2>2
<1>9. CASE n > 0
  <2>1. next = 1 /\ n \in Nat \ {0}
    BY <1>0, <1>1, <1>9
  <2>2. Left(x, 1, n, byte, bit, half) = r \o q
    BY ONLY <1>3, <1>4, <1>6 DEF Left
  <2>3. Phased(x, 1, n, byte, bit, half, FALSE)
    BY ONLY <1>2, <2>1 DEF Phased
  <2> QED BY ONLY <1>0, <1>1, <1>3, <1>8, <2>1, <2>2, <2>3
<1>10. CASE n = 0
  <2>1. next = IF x.id = "tone" THEN 5 ELSE 2
    BY <1>0, <1>1, <1>10
  <2>2. Left(x, next, n, byte, bit, half) = q
    BY ONLY <1>4, <2>1 DEF Left
  <2>3. r = <<>> /\ r \o q = q
    BY ONLY <1>6, <1>10, q \in Seq(Word), d \in Word, ConstNext, ConcatEmpty
  <2>4. Phased(x, next, n, byte, bit, half, FALSE)
    BY ONLY <1>2, <2>1 DEF Phased
  <2> QED BY ONLY <1>0, <1>1, <1>3, <1>8, <2>2, <2>3, <2>4
<1>11. n > 0 \/ n = 0
  BY ONLY n \in Nat
<1> QED BY ONLY <1>9, <1>10, <1>11

LEMMA NextSync ==
    ASSUME NEW x \in Block, NEW left, NEW byte, NEW bit, NEW half, NEW first
    PROVE  /\ Phased(x, 2, left, byte, bit, half, first) =>
                /\ Sync(x)[1] \in Word /\ Phased(x, 3, left, byte, bit, half, FALSE)
                /\ Left(x, 2, left, byte, bit, half)
                   = <<Sync(x)[1]>> \o Left(x, 3, left, byte, bit, half)
           /\ Phased(x, 3, left, byte, bit, half, first) =>
                /\ Sync(x)[2] \in Word /\ Phased(x, 4, left, byte, bit, half, FALSE)
                /\ Left(x, 3, left, byte, bit, half)
                   = <<Sync(x)[2]>> \o Left(x, 4, left, byte, bit, half)
<1> SUFFICES ASSUME Phased(x, 2, left, byte, bit, half, first) \/ Phased(x, 3, left, byte, bit, half, first)
             PROVE  /\ Sync(x)[1] \in Word /\ Phased(x, 3, left, byte, bit, half, FALSE)
                    /\ Left(x, 2, left, byte, bit, half)
                       = <<Sync(x)[1]>> \o Left(x, 3, left, byte, bit, half)
                    /\ Sync(x)[2] \in Word /\ Phased(x, 4, left, byte, bit, half, FALSE)
                    /\ Left(x, 3, left, byte, bit, half)
                       = <<Sync(x)[2]>> \o Left(x, 4, left, byte, bit, half)
  OBVIOUS
<1>1. /\ x.id \notin Steering /\ x.id \in {"std", "turbo"} /\ byte = 1 /\ bit = 1 /\ half = 0
  BY DEF Phased
<1>2. /\ Sync(x)[1] \in Word /\ Sync(x)[2] \in Word /\ BitPulses(x) \in Seq(Word)
      /\ Sync(x) \o BitPulses(x) = <<Sync(x)[1]>> \o (SubSeq(Sync(x), 2, 2) \o BitPulses(x))
      /\ SubSeq(Sync(x), 2, 2) \o BitPulses(x) = <<Sync(x)[2]>> \o BitPulses(x)
  BY <1>1, LeadTail
<1>3. PICK z : z = SubSeq(Sync(x), 2, 2) \o BitPulses(x)
  OBVIOUS
<1>4. Left(x, 3, left, byte, bit, half) = z
  BY ONLY <1>3 DEF Left
<1>5. /\ Phased(x, 3, left, byte, bit, half, FALSE)
      /\ Left(x, 2, left, byte, bit, half) = <<Sync(x)[1]>> \o Left(x, 3, left, byte, bit, half)
  <2>1. Left(x, 2, left, byte, bit, half) = <<Sync(x)[1]>> \o z
    BY ONLY <1>2, <1>3 DEF Left
  <2>2. Phased(x, 3, left, byte, bit, half, FALSE)
    BY ONLY <1>1 DEF Phased
  <2> QED BY ONLY <1>2, <1>4, <2>1, <2>2
<1>6. /\ Phased(x, 4, left, byte, bit, half, FALSE)
      /\ Left(x, 3, left, byte, bit, half) = <<Sync(x)[2]>> \o Left(x, 4, left, byte, bit, half)
  <2>1. Len(x.data) \in Nat \ {0} /\ Kept(x, 1) \in 1 .. BITS /\ BITS \in Nat
    BY <1>1, BlockFields, TapeAssumption DEF WithData
  <2>2. 1 \in 1 .. Len(x.data) /\ 1 \in 1 .. Kept(x, 1) /\ x.id \in WithData
    BY ONLY <1>1, <2>1 DEF WithData
  <2>3. From(Bits(x), 1) = BytePulses(x, 1) \o From(Bits(x), 1 + 1) /\ From(Bits(x), 1) = BitPulses(x)
    BY <2>2, BitsFrom
  <2>4. BytePulses(x, 1) \in Seq(Word) /\ Len(BytePulses(x, 1)) = 2 * Kept(x, 1)
    BY <2>2, BitsType
  <2>5. Slice(BytePulses(x, 1), 2 * 1 - 1 + 0, 2 * Kept(x, 1)) = BytePulses(x, 1)
    <3>1. 2 * 1 - 1 + 0 = 1
      OBVIOUS
    <3> QED BY ONLY <2>4, <3>1 DEF Slice
  <2>6. Left(x, 4, left, 1, 1, 0) = BitPulses(x)
    BY ONLY <2>3, <2>5 DEF Left
  <2>7. Phased(x, 4, left, 1, 1, 0, FALSE)
    BY ONLY <1>1, <2>2 DEF Phased
  <2> QED BY ONLY <1>1, <1>2, <1>3, <1>4, <2>6, <2>7
<1> QED BY ONLY <1>2, <1>5, <1>6

AfterListed(x, byte) == IF byte = Len(x.lens) THEN 5 ELSE 6
LEMMA NextListed ==
    ASSUME NEW x \in Block, NEW left, NEW byte, NEW bit, NEW half, NEW first,
           Phased(x, 6, left, byte, bit, half, first)
    PROVE  /\ x.lens[byte] \in Word /\ byte + 1 \in Nat
           /\ Phased(x, AfterListed(x, byte), left, byte + 1, bit, half, FALSE)
           /\ Left(x, 6, left, byte, bit, half)
              = <<x.lens[byte]>> \o Left(x, AfterListed(x, byte), left, byte + 1, bit, half)
<1>0. PICK next : next = AfterListed(x, byte) /\ next = IF byte = Len(x.lens) THEN 5 ELSE 6
  BY DEF AfterListed
<1>1. x.id = "pulses" /\ byte \in 1 .. Len(x.lens) /\ x.id \notin Steering
  BY DEF Phased
<1>2. x.lens \in Seq(Word)
  BY <1>1, Fields
<1>3. PICK y \in Seq(Word) : y = x.lens
  BY <1>2
<1>4. y[byte] \in Word /\ byte \in 1 .. Len(y) /\ Len(y) \in Nat
  BY ONLY <1>1, <1>3, y \in Seq(Word)
<1>5. /\ Slice(y, byte, Len(y)) = <<y[byte]>> \o Slice(y, byte + 1, Len(y))
      /\ Slice(y, Len(y) + 1, Len(y)) = <<>>
  BY ONLY <1>4, y \in Seq(Word), Shift DEF Slice
<1>6. Left(x, 6, left, byte, bit, half) = <<y[byte]>> \o Slice(y, byte + 1, Len(y))
  <2>1. Left(x, 6, left, byte, bit, half) = Slice(x.lens, byte, Len(x.lens))
    BY ONLY LeftIs
  <2> QED BY ONLY <1>3, <1>5, <2>1
<1>z. byte + 1 \in Nat
  BY ONLY <1>4
<1>7. CASE byte = Len(y)
  <2>1. next = 5
    BY ONLY <1>3, <1>0, <1>7
  <2>2. Left(x, 5, left, byte + 1, bit, half) = Slice(y, byte + 1, Len(y))
    BY ONLY <1>5, <1>7 DEF Left
  <2>3. Phased(x, 5, left, byte + 1, bit, half, FALSE)
    BY ONLY <1>1 DEF Phased
  <2> QED BY ONLY <1>0, <1>3, <1>4, <1>6, <1>z, <2>1, <2>2, <2>3
<1>8. CASE byte # Len(y)
  <2>1. next = 6
    BY ONLY <1>3, <1>0, <1>8
  <2>2. Left(x, 6, left, byte + 1, bit, half) = Slice(y, byte + 1, Len(y))
    BY ONLY <1>3 DEF Left
  <2>3. byte + 1 \in 1 .. Len(y)
    BY ONLY <1>4, <1>8
  <2>4. Phased(x, 6, left, byte + 1, bit, half, FALSE)
    BY ONLY <1>1, <1>3, <2>3 DEF Phased
  <2> QED BY ONLY <1>0, <1>3, <1>4, <1>6, <1>z, <2>1, <2>2, <2>4
<1> QED BY <1>7, <1>8

BitStep(x, left, byte, bit, half) ==
    /\ BitLen(x, x.data[byte][bit]) \in Word /\ byte \in Nat /\ bit \in Nat
    /\ half = 0 =>
         /\ Phased(x, 4, left, byte, bit, 1, FALSE)
         /\ Left(x, 4, left, byte, bit, half)
            = <<BitLen(x, x.data[byte][bit])>> \o Left(x, 4, left, byte, bit, 1)
    /\ half # 0 /\ bit < Kept(x, byte) =>
         /\ Phased(x, 4, left, byte, bit + 1, 0, FALSE)
         /\ Left(x, 4, left, byte, bit, half)
            = <<BitLen(x, x.data[byte][bit])>> \o Left(x, 4, left, byte, bit + 1, 0)
    /\ half # 0 /\ ~(bit < Kept(x, byte)) /\ byte # Len(x.data) =>
         /\ Phased(x, 4, left, byte + 1, 1, 0, FALSE)
         /\ Left(x, 4, left, byte, bit, half)
            = <<BitLen(x, x.data[byte][bit])>> \o Left(x, 4, left, byte + 1, 1, 0)
    /\ half # 0 /\ ~(bit < Kept(x, byte)) /\ byte = Len(x.data) =>
         /\ Phased(x, 5, left, byte + 1, 1, 0, FALSE)
         /\ Left(x, 4, left, byte, bit, half)
            = <<BitLen(x, x.data[byte][bit])>> \o Left(x, 5, left, byte + 1, 1, 0)

LEMMA NextBit ==
    ASSUME NEW x \in Block, NEW left, NEW byte, NEW bit, NEW half, NEW first,
           Phased(x, 4, left, byte, bit, half, first)
    PROVE  BitStep(x, left, byte, bit, half)
<1> SUFFICES
      /\ BitLen(x, x.data[byte][bit]) \in Word /\ byte \in Nat /\ bit \in Nat
      /\ half = 0 =>
           /\ Phased(x, 4, left, byte, bit, 1, FALSE)
           /\ Left(x, 4, left, byte, bit, half)
              = <<BitLen(x, x.data[byte][bit])>> \o Left(x, 4, left, byte, bit, 1)
      /\ half # 0 /\ bit < Kept(x, byte) =>
           /\ Phased(x, 4, left, byte, bit + 1, 0, FALSE)
           /\ Left(x, 4, left, byte, bit, half)
              = <<BitLen(x, x.data[byte][bit])>> \o Left(x, 4, left, byte, bit + 1, 0)
      /\ half # 0 /\ ~(bit < Kept(x, byte)) /\ byte # Len(x.data) =>
           /\ Phased(x, 4, left, byte + 1, 1, 0, FALSE)
           /\ Left(x, 4, left, byte, bit, half)
              = <<BitLen(x, x.data[byte][bit])>> \o Left(x, 4, left, byte + 1, 1, 0)
      /\ half # 0 /\ ~(bit < Kept(x, byte)) /\ byte = Len(x.data) =>
           /\ Phased(x, 5, left, byte + 1, 1, 0, FALSE)
           /\ Left(x, 4, left, byte, bit, half)
              = <<BitLen(x, x.data[byte][bit])>> \o Left(x, 5, left, byte + 1, 1, 0)
  BY DEF BitStep
<1>1. /\ x.id \in WithData /\ x.id \notin Steering /\ byte \in 1 .. Len(x.data)
      /\ bit \in 1 .. Kept(x, byte) /\ half \in {0, 1}
  BY DEF Phased
<1>2. PICK m \in Nat : m = Len(x.data) /\ byte \in 1 .. m
  BY <1>1, BlockFields
<1>3. PICK n \in Nat : n = Kept(x, byte) /\ bit \in 1 .. n
  <2>1. byte \in Nat /\ BITS \in Nat
    BY ONLY <1>2, m \in Nat, TapeAssumption
  <2>2. Kept(x, byte) \in 1 .. BITS
    BY <1>1, <2>1, BlockFields
  <2> QED BY ONLY <1>1, <2>1, <2>2
<1>4. PICK y \in Seq(Word) : y = BytePulses(x, byte) /\ Len(y) = 2 * n
  BY <1>1, <1>3, BitsType
<1>5. PICK k \in Nat : k = 2 * bit - 1 + half
  <2>1. 2 * bit - 1 + half \in Nat
    BY ONLY <1>1, <1>3, n \in Nat
  <2> QED BY <2>1
<1>6. k \in 1 .. Len(y) /\ y[k] = BitLen(x, x.data[byte][bit]) /\ y[k] \in Word
  BY <1>1, <1>4, <1>5, ByteAt, ZenonT(40)
<1>7. PICK q \in Seq(Word) : q = From(Bits(x), byte + 1)
  BY <1>1, BitsFrom
<1>8. /\ Slice(y, k, Len(y)) = <<y[k]>> \o Slice(y, k + 1, Len(y))
      /\ Slice(y, Len(y) + 1, Len(y)) = <<>> /\ Slice(y, k + 1, Len(y)) \in Seq(Word)
      /\ <<y[k]>> \in Seq(Word)
  <2>1. <<y[k]>> \in Seq(Word)
    BY ONLY <1>6
  <2> QED BY ONLY <1>6, <2>1, y \in Seq(Word), Shift DEF Slice
<1>9. Left(x, 4, left, byte, bit, half) = Slice(y, k, 2 * n) \o q
  <2>1. Left(x, 4, left, byte, bit, half)
         = Slice(BytePulses(x, byte), 2 * bit - 1 + half, 2 * Kept(x, byte))
           \o From(Bits(x), byte + 1)
    BY ONLY LeftIs
  <2> QED BY ONLY <2>1, <1>3, <1>4, <1>5, <1>7
<1>10. PICK r \in Seq(Word) : r = Slice(y, k + 1, Len(y))
  BY <1>8
<1>11. Left(x, 4, left, byte, bit, half) = <<y[k]>> \o (r \o q)
  <2>1. (<<y[k]>> \o r) \o q = <<y[k]>> \o (r \o q)
    <3>1. Regrouped(<<y[k]>>, r, q)
      BY ONLY <1>8, r \in Seq(Word), q \in Seq(Word), Regroup, ZenonT(40)
    <3> QED BY ONLY <3>1, Zenon DEF Regrouped
  <2> QED BY ONLY <1>4, <1>8, <1>9, <1>10, <2>1
<1>12. byte \in Nat /\ bit \in Nat /\ byte + 1 \in Nat /\ half \in {0, 1}
  BY ONLY <1>1, <1>2, <1>3, m \in Nat, n \in Nat
<1>13. CASE half = 0
  <2>1. k + 1 = 2 * bit - 1 + 1
    BY ONLY <1>5, <1>12, <1>13
  <2>2. Left(x, 4, left, byte, bit, 1) = r \o q
    <3>1. Left(x, 4, left, byte, bit, 1)
           = Slice(BytePulses(x, byte), 2 * bit - 1 + 1, 2 * Kept(x, byte))
             \o From(Bits(x), byte + 1)
      BY ONLY LeftIs
    <3> QED BY ONLY <3>1, <1>3, <1>4, <1>7, <1>10, <2>1
  <2>3. Phased(x, 4, left, byte, bit, 1, FALSE)
    BY ONLY <1>1 DEF Phased
  <2> QED BY ONLY <1>6, <1>11, <1>12, <1>13, <2>2, <2>3
<1>14. CASE half # 0 /\ bit < n
  <2>1. k + 1 = 2 * (bit + 1) - 1 + 0 /\ bit + 1 \in 1 .. n
    BY ONLY <1>3, <1>5, <1>12, <1>14, n \in Nat
  <2>2. Left(x, 4, left, byte, bit + 1, 0) = r \o q
    <3>1. Left(x, 4, left, byte, bit + 1, 0)
           = Slice(BytePulses(x, byte), 2 * (bit + 1) - 1 + 0, 2 * Kept(x, byte))
             \o From(Bits(x), byte + 1)
      BY ONLY LeftIs, SMTT(30)
    <3> QED BY ONLY <3>1, <1>3, <1>4, <1>7, <1>10, <2>1
  <2>3. Phased(x, 4, left, byte, bit + 1, 0, FALSE)
    BY ONLY <1>1, <1>3, <2>1 DEF Phased
  <2> QED BY ONLY <1>3, <1>6, <1>11, <1>12, <1>14, <2>2, <2>3
<1>15. CASE half # 0 /\ ~(bit < n)
  <2>1. k = Len(y) /\ r = <<>> /\ r \o q = q
    <3>1. k = Len(y)
      BY ONLY <1>3, <1>4, <1>5, <1>12, <1>15, n \in Nat
    <3> QED BY ONLY <3>1, <1>8, <1>10, q \in Seq(Word), ConcatEmpty
  <2>2. CASE byte # m
    <3>1. byte + 1 \in 1 .. m
      BY ONLY <1>2, <2>2, m \in Nat
    <3>2. byte + 1 \in 1 .. Len(x.data)
      BY ONLY <1>2, <3>1
    <3>3. PICK j : j = byte + 1
      OBVIOUS
    <3>4. /\ From(Bits(x), j) = BytePulses(x, j) \o From(Bits(x), j + 1)
          /\ BytePulses(x, j) \in Seq(Word) /\ Len(BytePulses(x, j)) = 2 * Kept(x, j)
      BY <1>1, <3>2, <3>3, BitsFrom, BitsType
    <3>5. Slice(BytePulses(x, j), 2 * 1 - 1 + 0, 2 * Kept(x, j)) = BytePulses(x, j)
      <4>1. 2 * 1 - 1 + 0 = 1
        OBVIOUS
      <4> QED BY ONLY <3>4, <4>1 DEF Slice
    <3>6. Left(x, 4, left, j, 1, 0) = q
      <4>1. Left(x, 4, left, j, 1, 0)
             = Slice(BytePulses(x, j), 2 * 1 - 1 + 0, 2 * Kept(x, j))
               \o From(Bits(x), j + 1)
        BY ONLY DEF Left
      <4> QED BY ONLY <4>1, <1>7, <3>3, <3>4, <3>5
    <3>7. Kept(x, j) \in 1 .. BITS /\ BITS \in Nat
      <4>1. j \in Nat /\ BITS \in Nat
        BY ONLY <1>12, <3>3, TapeAssumption
      <4> QED BY ONLY <1>1, <4>1, x \in Block, BlockFields
    <3>8. 1 \in 1 .. Kept(x, j)
      BY ONLY <3>7
    <3>9. Phased(x, 4, left, j, 1, 0, FALSE)
      BY ONLY <1>1, <3>2, <3>3, <3>8 DEF Phased
    <3> QED BY ONLY <1>2, <1>3, <1>6, <1>11, <1>12, <1>15, <2>1, <2>2, <3>3, <3>6, <3>9
  <2>3. CASE byte = m
    <3>1. q = <<>>
      BY <1>1, <1>2, <1>7, <2>3, BitsFrom
    <3>2. Left(x, 5, left, byte + 1, 1, 0) = <<>>
      BY ONLY LeftIs
    <3>3. Phased(x, 5, left, byte + 1, 1, 0, FALSE)
      BY ONLY <1>1 DEF Phased
    <3> QED BY ONLY <1>2, <1>3, <1>6, <1>11, <1>12, <1>15, <2>1, <2>3, <3>1, <3>2, <3>3
  <2> QED BY <2>2, <2>3
<1> QED BY <1>3, <1>13, <1>14, <1>15

Headed(s, u, m) == Len(s) = Len(m) + 1 /\ s[1] = u /\ \A i \in 1 .. Len(m) : s[i + 1] = m[i]
LEMMA SeqHead ==
    ASSUME NEW X, NEW s \in Seq(X), NEW u \in X, NEW m \in Seq(X), Headed(s, u, m)
    PROVE  s = <<u>> \o m /\ <<u>> \in Seq(X)
<1>0. Len(s) = Len(m) + 1 /\ s[1] = u /\ \A i \in 1 .. Len(m) : s[i + 1] = m[i]
  BY DEF Headed
<1>1. PICK k \in Seq(X) : k = <<u>> /\ Len(k) = 1 /\ k[1] = u
  <2>1. <<u>> \in Seq(X) /\ Len(<<u>>) = 1 /\ <<u>>[1] = u
    BY ONLY u \in X
  <2> QED BY ONLY <2>1
<1>2. PICK v \in Seq(X) : v = k \o m /\ Len(v) = Len(m) + 1 /\ v[1] = u
                          /\ \A i \in 1 .. Len(m) : v[i + 1] = m[i]
  <2>1. /\ k \o m \in Seq(X) /\ Len(k \o m) = Len(m) + 1 /\ (k \o m)[1] = u
        /\ \A i \in 1 .. Len(m) : (k \o m)[i + 1] = m[i]
    BY ONLY <1>1, k \in Seq(X), m \in Seq(X)
  <2> QED BY ONLY <2>1
<1>3. \A i \in 1 .. Len(s) : s[i] = v[i]
  <2> SUFFICES ASSUME NEW i \in 1 .. Len(s)  PROVE s[i] = v[i]
    OBVIOUS
  <2>1. CASE i = 1
    BY ONLY <1>0, <1>2, <2>1
  <2>2. CASE i # 1
    <3>1. i - 1 \in 1 .. Len(m) /\ (i - 1) + 1 = i
      BY ONLY <2>2, i \in 1 .. Len(s), <1>0, m \in Seq(X)
    <3>2. s[(i - 1) + 1] = m[i - 1] /\ v[(i - 1) + 1] = m[i - 1]
      BY ONLY <1>0, <1>2, <3>1
    <3> QED BY ONLY <3>1, <3>2
  <2> QED BY <2>1, <2>2
<1>4. s = v
  BY ONLY <1>2, <1>3, s \in Seq(X), v \in Seq(X), <1>0
<1> QED BY ONLY <1>1, <1>2, <1>4

LEMMA MarkedHead ==
    ASSUME NEW x, NEW d \in Word, NEW s \in Seq(Word), NEW f \in BOOLEAN,
           NEW u, u = [dur |-> d, rom |-> x.id = "std", first |-> f]
    PROVE  /\ u \in Sound /\ SentMarked(x, s, FALSE) \in Seq(Sound)
           /\ SentMarked(x, <<d>> \o s, f) = <<u>> \o SentMarked(x, s, FALSE)
<1> DEFINE R(l, g, i) == [dur |-> l[i], rom |-> x.id = "std", first |-> g /\ i = 1]
<1>1. u \in Sound
  <2>1. d \in Duration /\ (x.id = "std") \in BOOLEAN
    BY WordNat
  <2> QED BY ONLY <2>1, f \in BOOLEAN, u = [dur |-> d, rom |-> x.id = "std", first |-> f] DEF Sound
<1>2. PICK l \in Seq(Word) : l = <<d>> \o s /\ Len(l) = Len(s) + 1 /\ l[1] = d
                             /\ \A i \in 1 .. Len(s) : l[i + 1] = s[i]
  <2>1. <<d>> \o s \in Seq(Word) /\ Len(<<d>> \o s) = Len(s) + 1 /\ (<<d>> \o s)[1] = d
        /\ \A i \in 1 .. Len(s) : (<<d>> \o s)[i + 1] = s[i]
    BY ONLY d \in Word, s \in Seq(Word)
  <2> QED BY <2>1
<1>3. PICK m \in Seq(Sound) : m = SentMarked(x, s, FALSE) /\ Len(m) = Len(s)
  BY MarkedType
<1>4. PICK v \in Seq(Sound) : v = SentMarked(x, l, f) /\ Len(v) = Len(l)
  BY MarkedType
<1>5. \A i \in 1 .. Len(s) : m[i] = R(s, FALSE, i)
  BY <1>3 DEF SentMarked
<1>6. \A i \in 1 .. Len(l) : v[i] = R(l, f, i)
  BY <1>4 DEF SentMarked
<1>7. v[1] = u
  <2>1. 1 \in 1 .. Len(l)
    BY ONLY <1>2, s \in Seq(Word)
  <2>2. v[1] = R(l, f, 1)
    BY ONLY <1>6, <2>1
  <2>3. (f /\ 1 = 1) = f
    BY f \in BOOLEAN
  <2> QED BY ONLY <1>2, <2>2, <2>3, u = [dur |-> d, rom |-> x.id = "std", first |-> f]
<1>8. \A i \in 1 .. Len(m) : v[i + 1] = m[i]
  <2> SUFFICES ASSUME NEW i \in 1 .. Len(m)  PROVE v[i + 1] = m[i]
    OBVIOUS
  <2>1. i \in 1 .. Len(s) /\ i + 1 \in 1 .. Len(l) /\ i + 1 # 1
    <3>0. PICK n \in Nat : n = Len(s)
      BY ONLY s \in Seq(Word)
    <3>1. n = Len(s) /\ i \in 1 .. n
      BY ONLY <1>3, <3>0, i \in 1 .. Len(m)
    <3>2. i + 1 \in 1 .. n + 1 /\ i + 1 # 1
      BY ONLY <3>1, n \in Nat
    <3> QED BY ONLY <1>2, <3>1, <3>2
  <2>2. m[i] = R(s, FALSE, i) /\ v[i + 1] = R(l, f, i + 1) /\ l[i + 1] = s[i]
    BY ONLY <1>2, <1>5, <1>6, <2>1
  <2>3. (FALSE /\ i = 1) = (f /\ i + 1 = 1)
    BY ONLY <2>1
  <2> QED BY ONLY <2>2, <2>3
<1>9. Len(v) = Len(m) + 1
  BY ONLY <1>2, <1>3, <1>4
<1>z. Headed(v, u, m)
  BY ONLY <1>7, <1>8, <1>9 DEF Headed
<1>10. v = <<u>> \o m
  BY ONLY <1>1, <1>z, v \in Seq(Sound), m \in Seq(Sound), SeqHead
<1> QED BY ONLY <1>1, <1>2, <1>3, <1>4, <1>10, m \in Seq(Sound)

LEMMA MarkedNone == ASSUME NEW x, NEW f PROVE SentMarked(x, <<>>, f) = <<>>
  BY DEF SentMarked

LEMMA LevelledType ==
    ASSUME NEW s \in Seq(Sound), NEW l \in {0, 1}
    PROVE  /\ Levelled(s, l) \in Seq(Pulse) /\ Len(Levelled(s, l)) = Len(s)
           /\ \A i \in 1 .. Len(s) :
                 Levelled(s, l)[i] = [dur |-> s[i].dur, lvl |-> (l + i - 1) % 2,
                                      rom |-> s[i].rom, first |-> s[i].first]
           /\ Levelled(<<>>, l) = <<>>
<1> DEFINE n == Len(s)
           R(i) == [dur |-> s[i].dur, lvl |-> (l + i - 1) % 2, rom |-> s[i].rom, first |-> s[i].first]
<1>1. n \in Nat /\ \A i \in 1 .. n : s[i] \in Sound
  BY ONLY s \in Seq(Sound)
<1>2. ASSUME NEW i \in 1 .. n  PROVE R(i) \in Pulse
  <2>1. s[i].dur \in Duration /\ s[i].rom \in BOOLEAN /\ s[i].first \in BOOLEAN
    <3>1. s[i] \in Sound
      BY <1>1
    <3> QED BY ONLY <3>1 DEF Sound
  <2>2. (l + i - 1) % 2 \in {0, 1}
    BY ONLY <1>1, l \in {0, 1}, i \in 1 .. n
  <2> QED BY ONLY <2>1, <2>2 DEF Pulse
<1>3. Levelled(s, l) = [i \in 1 .. n |-> R(i)]
  BY DEF Levelled
<1> HIDE DEF n, R
<1>4. Levelled(s, l) \in Seq(Pulse) /\ Len(Levelled(s, l)) = n /\ \A i \in 1 .. n : Levelled(s, l)[i] = R(i)
  BY ONLY <1>1, <1>2, <1>3
<1>5. Levelled(<<>>, l) = <<>>
  BY DEF Levelled
<1> QED BY ONLY <1>4, <1>5 DEF n, R

AtLevel(u, l) == [dur |-> u.dur, lvl |-> l, rom |-> u.rom, first |-> u.first]
LEMMA LevelledHead ==
    ASSUME NEW u \in Sound, NEW s \in Seq(Sound), NEW l \in {0, 1}
    PROVE  /\ AtLevel(u, l) \in Pulse /\ 1 - l \in {0, 1} /\ Levelled(s, 1 - l) \in Seq(Pulse)
           /\ Levelled(<<u>> \o s, l) = <<AtLevel(u, l)>> \o Levelled(s, 1 - l)
<1>0. PICK p : p = AtLevel(u, l) /\ p = [dur |-> u.dur, lvl |-> l, rom |-> u.rom, first |-> u.first]
  BY DEF AtLevel
<1>1. p \in Pulse
  <2>1. u.dur \in Duration /\ u.rom \in BOOLEAN /\ u.first \in BOOLEAN
    BY ONLY u \in Sound DEF Sound
  <2> QED BY ONLY <1>0, <2>1, l \in {0, 1} DEF Pulse
<1>2. 1 - l \in {0, 1}
  BY ONLY l \in {0, 1}
<1>3. PICK k \in Seq(Sound) : k = <<u>> \o s /\ Len(k) = Len(s) + 1 /\ k[1] = u
                              /\ \A i \in 1 .. Len(s) : k[i + 1] = s[i]
  <2>1. <<u>> \o s \in Seq(Sound) /\ Len(<<u>> \o s) = Len(s) + 1 /\ (<<u>> \o s)[1] = u
        /\ \A i \in 1 .. Len(s) : (<<u>> \o s)[i + 1] = s[i]
    BY ONLY u \in Sound, s \in Seq(Sound)
  <2> QED BY <2>1
<1>4. PICK m \in Seq(Pulse) : m = Levelled(s, 1 - l) /\ Len(m) = Len(s)
  BY <1>2, LevelledType
<1>5. PICK v \in Seq(Pulse) : v = Levelled(k, l) /\ Len(v) = Len(k)
  BY LevelledType
<1>6. v[1] = p
  <2>1. 1 \in 1 .. Len(k) /\ (l + 1 - 1) % 2 = l
    <3>1. PICK n \in Nat : n = Len(s) /\ Len(k) = n + 1
      BY ONLY <1>3, s \in Seq(Sound)
    <3>2. 1 \in 1 .. n + 1 /\ (l + 1 - 1) % 2 = l
      <4>1. 1 \in 1 .. n + 1
        BY ONLY n \in Nat
      <4>2. CASE l = 0
        <5>1. (0 + 1 - 1) % 2 = 0
          OBVIOUS
        <5> QED BY ONLY <4>1, <4>2, <5>1
      <4>3. CASE l = 1
        <5>1. (1 + 1 - 1) % 2 = 1
          OBVIOUS
        <5> QED BY ONLY <4>1, <4>3, <5>1
      <4> QED BY ONLY <4>2, <4>3, l \in {0, 1}
    <3> QED BY ONLY <3>1, <3>2
  <2>2. v[1] = [dur |-> k[1].dur, lvl |-> (l + 1 - 1) % 2, rom |-> k[1].rom, first |-> k[1].first]
    BY <1>5, <2>1, LevelledType
  <2> QED BY ONLY <1>0, <1>3, <2>1, <2>2
<1>7. \A i \in 1 .. Len(m) : v[i + 1] = m[i]
  <2> SUFFICES ASSUME NEW i \in 1 .. Len(m)  PROVE v[i + 1] = m[i]
    OBVIOUS
  <2>1. i \in 1 .. Len(s) /\ i + 1 \in 1 .. Len(k)
    BY ONLY <1>3, <1>4, i \in 1 .. Len(m), s \in Seq(Sound)
  <2>2. k[i + 1] = s[i]
    BY ONLY <1>3, <2>1
  <2>3. (l + (i + 1) - 1) % 2 = (1 - l + i - 1) % 2
    <3>1. i \in Nat \ {0}
      BY ONLY <2>1
    <3> QED BY ONLY <3>1, l \in {0, 1}, SMT
  <2>4. v[i + 1] = [dur |-> k[i + 1].dur, lvl |-> (l + (i + 1) - 1) % 2,
                    rom |-> k[i + 1].rom, first |-> k[i + 1].first]
    BY <1>5, <2>1, LevelledType
  <2>5. m[i] = [dur |-> s[i].dur, lvl |-> (1 - l + i - 1) % 2, rom |-> s[i].rom, first |-> s[i].first]
    BY <1>2, <1>4, <2>1, LevelledType
  <2> QED BY ONLY <2>2, <2>3, <2>4, <2>5
<1>8. Len(v) = Len(m) + 1
  BY ONLY <1>3, <1>4, <1>5
<1>9. Headed(v, p, m)
  BY ONLY <1>6, <1>7, <1>8 DEF Headed
<1>10. v = <<p>> \o m
  BY ONLY <1>1, <1>9, v \in Seq(Pulse), m \in Seq(Pulse), SeqHead
<1> QED BY ONLY <1>0, <1>1, <1>2, <1>3, <1>4, <1>5, <1>10, m \in Seq(Pulse)

-----------------------------------------------------------------------------
(* The producer's state and what is ahead of it. *)
Segments ==
    [ptr : Nat \ {0}, cnt : Nat, start : Nat \ {0}, blk : Nat, phase : 0 .. 6, left : Nat,
     byte : Nat, bit : Nat, half : {0, 1}, rom : BOOLEAN, first : BOOLEAN]
BlockOf(t, sg) == Blocks(t)[sg.blk]
LeftOf(t, sg) == Left(BlockOf(t, sg), sg.phase, sg.left, sg.byte, sg.bit, sg.half)
RestOf(t, sg) == Rest(t, sg.ptr, sg.cnt, sg.start)
WalkingOf(t, sg) == Walking(t, sg.ptr, sg.cnt, sg.start)
PhasedOf(t, sg) == Phased(BlockOf(t, sg), sg.phase, sg.left, sg.byte, sg.bit, sg.half, sg.first)
Ahead(t, sg) ==
    IF sg.phase = 0 THEN <<>>
    ELSE SentMarked(BlockOf(t, sg), LeftOf(t, sg), sg.first) \o (SentSilence(BlockOf(t, sg)) \o RestOf(t, sg))
Segment(t, sg) ==
    /\ sg \in Segments
    /\ sg.phase # 0 =>
         /\ sg.blk \in 1 .. Len(Blocks(t)) /\ WalkingOf(t, sg) /\ PhasedOf(t, sg)
         /\ sg.rom = (BlockOf(t, sg).id = "std")

LEMMA SegmentFacts ==
    ASSUME NEW t, IsFile(t), NEW sg, Segment(t, sg), sg.phase # 0
    PROVE  /\ sg \in Segments /\ BlockOf(t, sg) \in Block /\ BlockOf(t, sg).id \notin Steering
           /\ WalkingOf(t, sg) /\ PhasedOf(t, sg) /\ sg.rom = (BlockOf(t, sg).id = "std")
           /\ sg.blk \in 1 .. Len(Blocks(t))
           /\ LeftOf(t, sg) \in Seq(Word) /\ RestOf(t, sg) \in Seq(Sound)
           /\ SentSilence(BlockOf(t, sg)) \in Seq(Sound)
           /\ sg.first \in BOOLEAN
           /\ Ahead(t, sg) = SentMarked(BlockOf(t, sg), LeftOf(t, sg), sg.first)
                             \o (SentSilence(BlockOf(t, sg)) \o RestOf(t, sg))
           /\ Ahead(t, sg) \in Seq(Sound)
<1>1. /\ sg \in Segments /\ sg.blk \in 1 .. Len(Blocks(t)) /\ WalkingOf(t, sg) /\ PhasedOf(t, sg)
      /\ sg.rom = (BlockOf(t, sg).id = "std")
  BY DEF Segment
<1>2. BlockOf(t, sg) \in Block
  BY <1>1, FileFacts DEF BlockOf
<1>3. BlockOf(t, sg).id \notin Steering /\ sg.first \in BOOLEAN
  BY <1>1 DEF PhasedOf, Phased
<1>4. LeftOf(t, sg) \in Seq(Word)
  BY <1>1, <1>2, LeftType DEF LeftOf, PhasedOf
<1>5. RestOf(t, sg) \in Seq(Sound)
  BY <1>1, RestType DEF RestOf, WalkingOf
<1>6. SentSilence(BlockOf(t, sg)) \in Seq(Sound)
  BY <1>2, <1>3, PauseType
<1>7. SentMarked(BlockOf(t, sg), LeftOf(t, sg), sg.first) \in Seq(Sound)
  BY <1>3, <1>4, MarkedType
<1>8. Ahead(t, sg) = SentMarked(BlockOf(t, sg), LeftOf(t, sg), sg.first)
                             \o (SentSilence(BlockOf(t, sg)) \o RestOf(t, sg))
  BY ONLY sg.phase # 0 DEF Ahead
<1>9. Ahead(t, sg) \in Seq(Sound)
  <2>1. PICK a \in Seq(Sound) : a = SentMarked(BlockOf(t, sg), LeftOf(t, sg), sg.first)
    BY ONLY <1>7
  <2>2. PICK b \in Seq(Sound) : b = SentSilence(BlockOf(t, sg))
    BY ONLY <1>6
  <2>3. PICK c \in Seq(Sound) : c = RestOf(t, sg)
    BY ONLY <1>5
  <2>4. b \o c \in Seq(Sound)
    BY ONLY b \in Seq(Sound), c \in Seq(Sound)
  <2>5. a \o (b \o c) \in Seq(Sound)
    BY ONLY a \in Seq(Sound), <2>4
  <2> QED BY ONLY <1>8, <2>1, <2>2, <2>3, <2>5
<1> QED BY ONLY <1>1, <1>2, <1>3, <1>4, <1>5, <1>6, <1>8, <1>9

\* A pulse of the block is sent.
PulseOf(sg, d, l) == [dur |-> Wire(d), lvl |-> l, rom |-> sg.rom, first |-> sg.first]
LEMMA Sends ==
    ASSUME NEW t, IsFile(t), NEW sg, Segment(t, sg), sg.phase # 0,
           NEW sh \in Segments, sh.phase # 0,
           sh.ptr = sg.ptr, sh.cnt = sg.cnt, sh.start = sg.start, sh.blk = sg.blk, sh.rom = sg.rom,
           sh.first = FALSE, PhasedOf(t, sh),
           NEW d \in Word, LeftOf(t, sg) = <<d>> \o LeftOf(t, sh), NEW l \in {0, 1}
    PROVE  /\ Segment(t, sh) /\ PulseOf(sg, d, l) \in Pulse
           /\ Levelled(Ahead(t, sh), 1 - l) \in Seq(Pulse)
           /\ Levelled(Ahead(t, sg), l) = <<PulseOf(sg, d, l)>> \o Levelled(Ahead(t, sh), 1 - l)
<1>0. PICK p : p = PulseOf(sg, d, l) /\ p = [dur |-> Wire(d), lvl |-> l, rom |-> sg.rom, first |-> sg.first]
  BY DEF PulseOf
<1>1. /\ BlockOf(t, sg) \in Block
      /\ WalkingOf(t, sg) /\ sg.rom = (BlockOf(t, sg).id = "std")
      /\ sg.blk \in 1 .. Len(Blocks(t)) /\ sg.first \in BOOLEAN
      /\ Ahead(t, sg) = SentMarked(BlockOf(t, sg), LeftOf(t, sg), sg.first)
                        \o (SentSilence(BlockOf(t, sg)) \o RestOf(t, sg))
  BY SegmentFacts
<1>2. BlockOf(t, sh) = BlockOf(t, sg) /\ RestOf(t, sh) = RestOf(t, sg) /\ WalkingOf(t, sh)
  BY <1>1 DEF BlockOf, RestOf, WalkingOf
<1>3. Segment(t, sh)
  BY <1>1, <1>2 DEF Segment
<1>4. /\ LeftOf(t, sh) \in Seq(Word) /\ RestOf(t, sh) \in Seq(Sound)
      /\ SentSilence(BlockOf(t, sh)) \in Seq(Sound)
      /\ Ahead(t, sh) = SentMarked(BlockOf(t, sh), LeftOf(t, sh), sh.first)
                        \o (SentSilence(BlockOf(t, sh)) \o RestOf(t, sh))
      /\ Ahead(t, sh) \in Seq(Sound)
  BY <1>3, SegmentFacts
<1>5. PICK x : x = BlockOf(t, sg) /\ sg.rom = (x.id = "std")
  BY <1>1
<1>6. PICK s \in Seq(Word) : s = LeftOf(t, sh)
  BY <1>4
<1>7. PICK u : u = [dur |-> d, rom |-> x.id = "std", first |-> sg.first]
  OBVIOUS
<1>8. /\ u \in Sound /\ SentMarked(x, s, FALSE) \in Seq(Sound)
      /\ SentMarked(x, <<d>> \o s, sg.first) = <<u>> \o SentMarked(x, s, FALSE)
  BY <1>1, <1>7, MarkedHead, ZenonT(40)
<1>9. PICK b \in Seq(Sound) : b = SentSilence(x) \o RestOf(t, sg)
  <2>1. PICK v \in Seq(Sound) : v = SentSilence(x)
    BY <1>2, <1>4, <1>5
  <2>2. PICK w \in Seq(Sound) : w = RestOf(t, sg)
    BY <1>2, <1>4
  <2>3. v \o w \in Seq(Sound)
    BY ONLY v \in Seq(Sound), w \in Seq(Sound)
  <2> QED BY ONLY <2>1, <2>2, <2>3
<1>10. PICK a \in Seq(Sound) : a = SentMarked(x, s, FALSE)
  BY <1>8
<1>11. Ahead(t, sh) = a \o b
  BY ONLY <1>2, <1>4, <1>5, <1>6, <1>9, <1>10, sh.first = FALSE
<1>12. Ahead(t, sg) = <<u>> \o (a \o b) /\ a \o b \in Seq(Sound)
  <2>1. PICK w \in Seq(Sound) : w = <<u>>
    <3>1. <<u>> \in Seq(Sound)
      BY ONLY <1>8
    <3> QED BY <3>1
  <2>2. (w \o a) \o b = w \o (a \o b) /\ a \o b \in Seq(Sound)
    <3>1. Regrouped(w, a, b)
      BY ONLY w \in Seq(Sound), a \in Seq(Sound), b \in Seq(Sound), Regroup, ZenonT(40)
    <3>2. a \o b \in Seq(Sound)
      BY ONLY w \in Seq(Sound), a \in Seq(Sound), b \in Seq(Sound)
    <3> QED BY ONLY <3>1, <3>2 DEF Regrouped
  <2>3. Ahead(t, sg) = (w \o a) \o b
    BY ONLY <1>1, <1>5, <1>6, <1>8, <1>9, <1>10, <2>1, LeftOf(t, sg) = <<d>> \o LeftOf(t, sh)
  <2> QED BY ONLY <2>1, <2>2, <2>3
<1>13. p = [dur |-> u.dur, lvl |-> l, rom |-> u.rom, first |-> u.first]
  <2>1. Wire(d) = d
    BY WordNat
  <2> QED BY <1>0, <1>5, <1>7, <2>1
<1>14. PICK c \in Seq(Sound) : c = a \o b
  BY <1>12
<1>15. /\ p \in Pulse /\ Levelled(c, 1 - l) \in Seq(Pulse)
       /\ Levelled(<<u>> \o c, l) = <<p>> \o Levelled(c, 1 - l)
  <2>1. p = AtLevel(u, l)
    BY ONLY <1>13 DEF AtLevel
  <2> QED BY ONLY <1>8, <2>1, l \in {0, 1}, c \in Seq(Sound), LevelledHead
<1> QED BY ONLY <1>0, <1>3, <1>11, <1>12, <1>14, <1>15

\* tape_load_seg.
LEMMA Loads ==
    ASSUME NEW t, IsFile(t), NEW sg \in Segments, WalkingOf(t, sg)
    PROVE  /\ Segment(t, Load(t, sg)) /\ Ahead(t, Load(t, sg)) = RestOf(t, sg)
           /\ RestOf(t, sg) \in Seq(Sound)
<1>1. PICK p, c, s : p = sg.ptr /\ c = sg.cnt /\ s = sg.start
  OBVIOUS
<1>2. Walking(t, p, c, s) /\ RestOf(t, sg) = Rest(t, p, c, s)
  BY <1>1 DEF WalkingOf, RestOf
<1>3. PICK q \in Nat \ {0}, d \in Nat, r \in Nat \ {0} :
        /\ Seek(t, <<p, c, s>>) = <<q, d, r>> /\ ~Steers(t, <<q, d, r>>)
        /\ Walking(t, q, d, r) /\ Rest(t, q, d, r) = Rest(t, p, c, s)
  BY <1>2, SeekStops DEF Stops
<1>4. RestOf(t, sg) \in Seq(Sound)
  BY <1>2, RestType
<1> DEFINE walked == [sg EXCEPT !.ptr = q, !.cnt = d, !.start = r]
<1>z. /\ Seek(t, <<sg.ptr, sg.cnt, sg.start>>) = <<q, d, r>>
      /\ <<q, d, r>>[1] = q /\ <<q, d, r>>[2] = d /\ <<q, d, r>>[3] = r
  BY ONLY <1>1, <1>3
<1>5. /\ walked \in Segments /\ walked.ptr = q /\ walked.cnt = d /\ walked.start = r
  BY ONLY sg \in Segments, q \in Nat \ {0}, d \in Nat, r \in Nat \ {0} DEF Segments
<1>6. CASE Ends(t, q)
  <2>1. Load(t, sg) = [walked EXCEPT !.phase = 0]
    BY ONLY <1>z, <1>6, Zenon DEF Load
  <2> HIDE DEF walked
  <2>2. Load(t, sg) \in Segments /\ Load(t, sg).phase = 0
    BY ONLY <1>5, <2>1 DEF Segments
  <2>3. Rest(t, q, d, r) = <<>>
    BY <1>3, <1>6, RestEnds
  <2>4. Ahead(t, Load(t, sg)) = <<>>
    BY ONLY <2>2 DEF Ahead
  <2>5. Segment(t, Load(t, sg))
    BY ONLY <2>2 DEF Segment
  <2> QED BY ONLY <1>2, <1>3, <1>4, <2>3, <2>4, <2>5
<1>7. CASE ~Ends(t, q)
  <2>1. q \in 1 .. Len(Blocks(t)) /\ Blocks(t)[q].id # "bad" /\ q <= Len(Blocks(t))
    <3>1. Len(Blocks(t)) \in Nat
      BY FileFacts
    <3> QED BY ONLY <1>7, <3>1, q \in Nat \ {0} DEF Ends
  <2>2. PICK x \in Block : x = Blocks(t)[q]
    BY <2>1, FileFacts
  <2>3. x.id \notin Steering
    BY ONLY <1>3, <2>1, <2>2 DEF Steers, Steering
  <2>4. /\ Walking(t, q + 1, d, r)
        /\ Rest(t, q, d, r) = SentBlock(x) \o Rest(t, q + 1, d, r)
    BY <1>3, <2>1, <2>2, <2>3, RestPlays, SMTT(30)
  <2>5. PICK n : n = IF x.id \in {"std", "turbo", "tone"} THEN Pilots(x) ELSE 0
    OBVIOUS
  <2>6. /\ Phased(x, StartPhase(x), n, 1, 1, 0, StartsBlock(x))
        /\ Left(x, StartPhase(x), n, 1, 1, 0) = Lengths(x)
        /\ StartsBlock(x) \/ Lengths(x) = <<>>
    BY <2>3, <2>5, LeftStart
  <2>7. n \in Nat
    <3>1. CASE x.id \in {"std", "turbo"}
      BY <2>5, <3>1, LeadFields
    <3>2. CASE x.id = "tone"
      <4>1. x.count \in Word
        BY <3>2, Fields
      <4>2. x.count \in Nat
        BY <4>1, WordNat
      <4> QED BY <2>5, <3>2, <4>2 DEF Pilots
    <3>3. CASE x.id \notin {"std", "turbo", "tone"}
      BY <2>5, <3>3
    <3> QED BY <3>1, <3>2, <3>3
  <2>8. PICK ph \in 1 .. 6, f \in BOOLEAN, rom \in BOOLEAN :
           ph = StartPhase(x) /\ f = StartsBlock(x) /\ rom = (x.id = "std")
    BY <2>6 DEF Phased
  <2> DEFINE sh == [walked EXCEPT !.ptr = q + 1, !.blk = q, !.phase = ph, !.left = n,
                       !.byte = 1, !.bit = 1, !.half = 0, !.rom = rom, !.first = f]
  <2>9. Load(t, sg) = sh
    BY ONLY <1>z, <1>7, <2>2, <2>5, <2>8, ZenonT(40) DEF Load
  <2> HIDE DEF walked
  <2>10. /\ sh \in Segments /\ sh.ptr = q + 1 /\ sh.cnt = d /\ sh.start = r /\ sh.blk = q
         /\ sh.phase = ph /\ sh.left = n /\ sh.byte = 1 /\ sh.bit = 1 /\ sh.half = 0
         /\ sh.rom = rom /\ sh.first = f /\ sh.phase # 0
    <3>1. q + 1 \in Nat \ {0} /\ q \in Nat /\ ph \in 0 .. 6 /\ ph # 0 /\ 1 \in Nat /\ 0 \in {0, 1}
      BY ONLY q \in Nat \ {0}, ph \in 1 .. 6
    <3>3. PICK w \in Segments : w = walked /\ w.cnt = d /\ w.start = r
      BY ONLY <1>5
    <3>4. sh = [w EXCEPT !.ptr = q + 1, !.blk = q, !.phase = ph, !.left = n,
                       !.byte = 1, !.bit = 1, !.half = 0, !.rom = rom, !.first = f]
      BY ONLY <3>3
    <3> HIDE DEF sh
    <3>5. /\ sh.ptr = q + 1 /\ sh.cnt = d /\ sh.start = r /\ sh.blk = q
          /\ sh.phase = ph /\ sh.left = n /\ sh.byte = 1 /\ sh.bit = 1 /\ sh.half = 0
          /\ sh.rom = rom /\ sh.first = f
      BY ONLY <3>3, <3>4, w \in Segments DEF Segments
    <3>6. sh \in Segments
      BY ONLY <2>7, <3>1, <3>3, <3>4, w \in Segments, rom \in BOOLEAN, f \in BOOLEAN, ZenonT(40) DEF Segments
    <3> QED BY ONLY <3>1, <3>5, <3>6
  <2> HIDE DEF sh
  <2>11. Segment(t, sh)
    BY ONLY <2>1, <2>2, <2>4, <2>6, <2>8, <2>10 DEF Segment, BlockOf, WalkingOf, PhasedOf
  <2>12. Ahead(t, sh) = SentMarked(x, Lengths(x), f) \o (SentSilence(x) \o Rest(t, q + 1, d, r))
    BY ONLY <2>2, <2>6, <2>8, <2>10 DEF Ahead, BlockOf, LeftOf, RestOf
  <2>13. SentMarked(x, Lengths(x), f) = SentMarked(x, Lengths(x), TRUE)
    <3>1. CASE f = TRUE
      BY ONLY <3>1
    <3>2. CASE f = FALSE
      <4>1. Lengths(x) = <<>>
        BY ONLY <2>6, <2>8, <3>2
      <4> QED BY ONLY <4>1, MarkedNone
    <3> QED BY ONLY <3>1, <3>2, f \in BOOLEAN
  <2>14. PICK a \in Seq(Sound) : a = SentMarked(x, Lengths(x), TRUE)
    BY <2>3, LengthsType, MarkedType
  <2>15. PICK b \in Seq(Sound) : b = SentSilence(x)
    BY <2>3, PauseType
  <2>16. PICK z \in Seq(Sound) : z = Rest(t, q + 1, d, r)
    BY <2>4, RestType
  <2>17. (a \o b) \o z = a \o (b \o z)
    <3>1. Regrouped(a, b, z)
      BY ONLY a \in Seq(Sound), b \in Seq(Sound), z \in Seq(Sound), Regroup, ZenonT(40)
    <3> QED BY ONLY <3>1, Zenon DEF Regrouped
  <2>18. SentBlock(x) = a \o b
    BY ONLY <2>14, <2>15 DEF SentBlock
  <2> QED BY ONLY <1>2, <1>3, <1>4, <2>4, <2>9, <2>11, <2>12, <2>13, <2>14, <2>15, <2>16, <2>17, <2>18
<1> QED BY <1>6, <1>7

\* The gap: silence if there is any, then the next block.
GapOf(t, sg, l) ==
    [dur |-> Wire(PauseLen(BlockOf(t, sg))), lvl |-> l, rom |-> FALSE, first |-> sg.first]
LEMMA GapAhead ==
    ASSUME NEW t, IsFile(t), NEW sg, Segment(t, sg), sg.phase = 5, NEW l \in {0, 1},
           NEW p, p = GapOf(t, sg, l)
    PROVE  /\ PauseLen(BlockOf(t, sg)) \in Nat
           /\ PauseLen(BlockOf(t, sg)) > 0 =>
                /\ p \in Pulse /\ Levelled(RestOf(t, sg), 1 - l) \in Seq(Pulse)
                /\ Levelled(Ahead(t, sg), l) = <<p>> \o Levelled(RestOf(t, sg), 1 - l)
           /\ PauseLen(BlockOf(t, sg)) = 0 => Ahead(t, sg) = RestOf(t, sg)
<1>1. /\ BlockOf(t, sg) \in Block /\ BlockOf(t, sg).id \notin Steering /\ PhasedOf(t, sg)
      /\ RestOf(t, sg) \in Seq(Sound)
      /\ Ahead(t, sg) = SentMarked(BlockOf(t, sg), LeftOf(t, sg), sg.first)
                        \o (SentSilence(BlockOf(t, sg)) \o RestOf(t, sg))
  <2>1. sg.phase # 0
    BY ONLY sg.phase = 5
  <2> QED BY <2>1, SegmentFacts, ZenonT(30)
<1>2. LeftOf(t, sg) = <<>>
  BY ONLY sg.phase = 5, LeftIs DEF LeftOf
<1>3. PICK r \in Seq(Sound) : r = RestOf(t, sg)
  BY <1>1
<1>4. PICK x \in Block : x = BlockOf(t, sg) /\ x.id \notin Steering
  BY <1>1
<1>5. SentSilence(x) \in Seq(Sound) /\ PauseLen(x) \in Nat /\ Wire(PauseLen(x)) \in Duration
  BY <1>4, PauseType
<1>6. PICK b \in Seq(Sound) : b = SentSilence(x)
  BY <1>5
<1>7. b \o r \in Seq(Sound)
  BY ONLY b \in Seq(Sound), r \in Seq(Sound)
<1>8. Ahead(t, sg) = b \o r
  <2>1. Ahead(t, sg) = <<>> \o (b \o r)
    BY ONLY <1>1, <1>2, <1>3, <1>4, <1>6, MarkedNone
  <2> QED BY ONLY <1>7, <2>1, ConcatEmpty
<1>9. sg.first = FALSE
  <2>1. sg.first \in BOOLEAN /\ ~sg.first
    BY ONLY <1>1, sg.phase = 5 DEF PhasedOf, Phased
  <2> QED BY ONLY <2>1
<1>10. CASE PauseLen(x) > 0
  <2>1. PICK u : u = [dur |-> Wire(PauseLen(x)), rom |-> FALSE, first |-> FALSE]
    OBVIOUS
  <2>2. u \in Sound
    BY ONLY <1>5, <2>1 DEF Sound
  <2>3. b = <<u>>
    <3>1. PauseLen(x) # 0
      BY ONLY <1>5, <1>10
    <3> QED BY ONLY <1>6, <2>1, <3>1 DEF SentSilence
  <2>4. p = [dur |-> u.dur, lvl |-> l, rom |-> u.rom, first |-> u.first]
    BY ONLY <1>4, <1>9, <2>1, p = GapOf(t, sg, l) DEF GapOf
  <2>5. /\ p \in Pulse /\ Levelled(r, 1 - l) \in Seq(Pulse)
        /\ Levelled(<<u>> \o r, l) = <<p>> \o Levelled(r, 1 - l)
    <3>1. p = AtLevel(u, l)
      BY ONLY <2>4 DEF AtLevel
    <3> QED BY ONLY <2>2, <3>1, l \in {0, 1}, r \in Seq(Sound), LevelledHead
  <2>6. ~(PauseLen(x) = 0)
    BY ONLY <1>5, <1>10
  <2> QED BY ONLY <1>3, <1>4, <1>5, <1>8, <2>3, <2>5, <2>6
<1>11. CASE PauseLen(x) = 0
  <2>1. b = <<>>
    BY ONLY <1>6, <1>11 DEF SentSilence
  <2>2. <<>> \o r = r
    BY ONLY r \in Seq(Sound), ConcatEmpty
  <2>3. ~(PauseLen(x) > 0)
    BY ONLY <1>5, <1>11
  <2> QED BY ONLY <1>3, <1>4, <1>5, <1>8, <2>1, <2>2, <2>3
<1>12. PauseLen(x) > 0 \/ PauseLen(x) = 0
  BY ONLY <1>5
<1> QED BY ONLY <1>10, <1>11, <1>12

-----------------------------------------------------------------------------
(* What is still to be produced, and each producing step. *)
Coming(t, sg, l) ==
    IF Listed(t) THEN Slice(Tapes[t].pulses, sg.ptr, Len(Tapes[t].pulses))
    ELSE Levelled(Ahead(t, sg), l)
Follows(t, sg) ==
    /\ sg \in Segments
    /\ IF Listed(t) THEN sg.ptr \in 1 .. Len(Tapes[t].pulses) + 1 ELSE Segment(t, sg)

LEMMA ListFacts ==
    ASSUME NEW t \in DOMAIN Tapes, Listed(t)
    PROVE  Tapes[t].pulses \in Seq(Pulse)
<1>1. Tapes[t] \in TapeFile /\ Tapes[t].fmt = "list"
  BY TapeAssumption DEF Listed
<1> QED BY ONLY <1>1 DEF TapeFile

LEMMA AheadType ==
    ASSUME NEW t, IsFile(t), NEW sg, Segment(t, sg)
    PROVE  Ahead(t, sg) \in Seq(Sound)
<1>1. CASE sg.phase # 0
  BY <1>1, SegmentFacts
<1>2. CASE sg.phase = 0
  <2>1. Ahead(t, sg) = <<>>
    BY ONLY <1>2 DEF Ahead
  <2> QED BY <2>1
<1> QED BY <1>1, <1>2

LEMMA ComingType ==
    ASSUME NEW t \in DOMAIN Tapes, NEW sg, Follows(t, sg), NEW l \in {0, 1}
    PROVE  Coming(t, sg, l) \in Seq(Pulse)
<1>1. CASE Listed(t)
  <2>1. PICK y \in Seq(Pulse) : y = Tapes[t].pulses
    BY <1>1, ListFacts
  <2>2. Coming(t, sg, l) = Slice(y, sg.ptr, Len(y)) /\ sg.ptr \in 1 .. Len(y) + 1
    BY ONLY <1>1, <2>1, Follows(t, sg) DEF Coming, Follows
  <2>3. PICK p \in 1 .. Len(y) + 1 : p = sg.ptr
    BY ONLY <2>2
  <2>4. Slice(y, p, Len(y)) \in Seq(Pulse)
    BY ONLY y \in Seq(Pulse), p \in 1 .. Len(y) + 1 DEF Slice
  <2> QED BY ONLY <2>2, <2>3, <2>4
<1>2. CASE ~Listed(t)
  <2>1. IsFile(t) /\ Segment(t, sg)
    BY <1>2 DEF IsFile, Follows
  <2>2. Levelled(Ahead(t, sg), l) \in Seq(Pulse)
    BY <2>1, AheadType, LevelledType
  <2> QED BY <1>2, <2>2 DEF Coming
<1> QED BY <1>1, <1>2

LEMMA PartsWhole ==
    ASSUME NEW t, IsFile(t)
    PROVE  Rest(t, 1, 0, 1) = SentUnrolled(t) /\ Walking(t, 1, 0, 1) /\ SentUnrolled(t) \in Seq(Sound)
<1>1. SentParts(t) \in Seq(Seq(Sound)) /\ Len(Blocks(t)) \in Nat
  BY PartsType, FileFacts
<1>2. SubSeq(SentParts(t), 1, Len(SentParts(t))) = SentParts(t)
  <2> DEFINE Y == Seq(Sound)
  <2>1. SentParts(t) \in Seq(Y)
    BY <1>1
  <2> HIDE DEF Y
  <2> QED BY ONLY <2>1
<1>3. Rest(t, 1, 0, 1) = SentUnrolled(t)
  <2>1. Rest(t, 1, 0, 1) = From(SentParts(t), 1)
    BY ONLY DEF Rest
  <2> QED BY ONLY <1>2, <2>1 DEF From, SentUnrolled
<1>4. Walking(t, 1, 0, 1)
  BY <1>1 DEF Walking
<1>5. SentUnrolled(t) \in Seq(Sound)
  BY <1>3, <1>4, RestType
<1> QED BY ONLY <1>3, <1>4, <1>5

LEMMA SentType ==
    ASSUME NEW t \in DOMAIN Tapes
    PROVE  Sent(t) \in Seq(Pulse)
<1>1. CASE Listed(t)
  BY <1>1, ListFacts DEF Sent
<1>2. CASE ~Listed(t)
  <2>1. SentUnrolled(t) \in Seq(Sound)
    BY <1>2, PartsWhole DEF IsFile
  <2>2. Levelled(SentUnrolled(t), 0) \in Seq(Pulse)
    BY <2>1, LevelledType
  <2> QED BY <1>2, <2>2 DEF Sent
<1> QED BY <1>1, <1>2

\* A step that produces one pulse.
Produced(t) ==
    \E p \in Pulse :
        /\ ring' = Append(ring, p) /\ lvl' \in {0, 1} /\ Follows(t, seg')
        /\ Coming(t, seg', lvl') \in Seq(Pulse)
        /\ Coming(t, seg, lvl) = <<p>> \o Coming(t, seg', lvl')

LEMMA SendsProduced ==
    ASSUME NEW t \in DOMAIN Tapes, ~Listed(t), Segment(t, seg), seg.phase # 0, lvl \in {0, 1},
           NEW sh, seg' = sh, sh \in Segments, sh.phase # 0,
           sh.ptr = seg.ptr, sh.cnt = seg.cnt, sh.start = seg.start, sh.blk = seg.blk,
           sh.rom = seg.rom, sh.first = FALSE, PhasedOf(t, sh),
           NEW d \in Word, LeftOf(t, seg) = <<d>> \o LeftOf(t, sh), tape_push_pulse(d, seg.rom)
    PROVE  Produced(t)
<1>1. IsFile(t)
  BY DEF IsFile
<1>2. PICK p : p = PulseOf(seg, d, lvl)
  OBVIOUS
<1>3. ring' = Append(ring, p) /\ lvl' = 1 - lvl
  BY ONLY <1>2, tape_push_pulse(d, seg.rom) DEF tape_push_pulse, PulseOf
<1>4. /\ Segment(t, sh) /\ p \in Pulse /\ Levelled(Ahead(t, sh), 1 - lvl) \in Seq(Pulse)
      /\ Levelled(Ahead(t, seg), lvl) = <<p>> \o Levelled(Ahead(t, sh), 1 - lvl)
  BY <1>1, <1>2, Sends
<1>5. 1 - lvl \in {0, 1}
  BY ONLY lvl \in {0, 1}
<1>6. Follows(t, sh)
  BY <1>4 DEF Follows
<1> QED BY ONLY <1>3, <1>4, <1>5, <1>6, ~Listed(t), seg' = sh DEF Produced, Coming

LEMMA SegFields ==
    ASSUME NEW sg \in Segments
    PROVE  /\ sg.left \in Nat /\ sg.byte \in Nat /\ sg.bit \in Nat /\ sg.half \in {0, 1}
           /\ sg.phase \in 0 .. 6 /\ sg.rom \in BOOLEAN /\ sg.first \in BOOLEAN
           /\ sg.ptr \in Nat \ {0} /\ sg.cnt \in Nat /\ sg.start \in Nat \ {0} /\ sg.blk \in Nat
  BY DEF Segments

LEMMA PilotProduces ==
    ASSUME NEW t \in DOMAIN Tapes, t = tape, ~Listed(t), Segment(t, seg), lvl \in {0, 1}, Pilot
    PROVE  Produced(t)
<1>1. /\ seg.phase = 1 /\ tape_push_pulse(PilotLen(BlockOf(t, seg)), seg.rom)
      /\ seg' = [Pushed(seg) EXCEPT !.left = @ - 1,
                    !.phase = IF seg.left > 1 THEN 1 ELSE IF BlockOf(t, seg).id = "tone" THEN 5 ELSE 2]
  BY ONLY Pilot, t = tape DEF Pilot, Producing, ThisBlock, BlockOf
<1>2. /\ seg \in Segments /\ BlockOf(t, seg) \in Block /\ PhasedOf(t, seg)
  BY <1>1, SegmentFacts DEF IsFile
<1>3. PICK x \in Block : x = BlockOf(t, seg)
  BY <1>2
<1>4. PICK n, b, k, h, f : n = seg.left /\ b = seg.byte /\ k = seg.bit /\ h = seg.half /\ f = seg.first
  OBVIOUS
<1>5. PICK next : next = AfterPilot(x, n) /\ next = IF n > 1 THEN 1 ELSE IF x.id = "tone" THEN 5 ELSE 2
  BY DEF AfterPilot
<1>6. Phased(x, 1, n, b, k, h, f)
  BY ONLY <1>1, <1>2, <1>3, <1>4 DEF PhasedOf
<1>7. /\ PilotLen(x) \in Word /\ n - 1 \in Nat /\ Phased(x, next, n - 1, b, k, h, FALSE)
      /\ Left(x, 1, n, b, k, h) = <<PilotLen(x)>> \o Left(x, next, n - 1, b, k, h)
  <2>1. /\ PilotLen(x) \in Word /\ n - 1 \in Nat /\ Phased(x, AfterPilot(x, n), n - 1, b, k, h, FALSE)
        /\ Left(x, 1, n, b, k, h) = <<PilotLen(x)>> \o Left(x, AfterPilot(x, n), n - 1, b, k, h)
    BY ONLY <1>6, x \in Block, NextPilot
  <2> QED BY ONLY <1>5, <2>1
<1>8. PICK m \in Nat : m = n - 1
  BY <1>7
<1>9. next \in 1 .. 6
  BY ONLY <1>7 DEF Phased
<1>10. seg' = [[seg EXCEPT !.first = FALSE] EXCEPT !.left = m, !.phase = next]
  <2>1. [seg EXCEPT !.first = FALSE].left = seg.left
    BY <1>2 DEF Segments
  <2> QED BY <1>1, <1>3, <1>4, <1>5, <1>8, <2>1 DEF Pushed
<1>11. PICK sh : sh = [[seg EXCEPT !.first = FALSE] EXCEPT !.left = m, !.phase = next]
  OBVIOUS
<1>12. /\ sh.ptr = seg.ptr /\ sh.cnt = seg.cnt /\ sh.start = seg.start /\ sh.blk = seg.blk
       /\ sh.rom = seg.rom /\ sh.first = FALSE /\ sh.left = m /\ sh.phase = next
       /\ sh.byte = seg.byte /\ sh.bit = seg.bit /\ sh.half = seg.half
  BY ONLY <1>2, <1>11 DEF Segments
<1>13. sh \in Segments
  <2>1. PICK s1 \in Segments : s1 = [seg EXCEPT !.first = FALSE]
    <3>1. [seg EXCEPT !.first = FALSE] \in Segments
      BY ONLY <1>2 DEF Segments
    <3> QED BY <3>1
  <2>2. next \in 0 .. 6
    BY ONLY <1>9
  <2> QED BY ONLY <1>11, <2>1, <2>2, m \in Nat DEF Segments
<1>14. BlockOf(t, sh) = x /\ PhasedOf(t, sh) /\ LeftOf(t, seg) = <<PilotLen(x)>> \o LeftOf(t, sh)
  BY ONLY <1>1, <1>3, <1>4, <1>7, <1>8, <1>12 DEF BlockOf, PhasedOf, LeftOf
<1>15. sh.phase # 0 /\ seg.phase # 0
  BY ONLY <1>1, <1>9, <1>12
<1> QED BY <1>1, <1>3, <1>7, <1>10, <1>11, <1>12, <1>13, <1>14, <1>15, SendsProduced, ZenonT(40)

LEMMA SyncProduces ==
    ASSUME NEW t \in DOMAIN Tapes, t = tape, ~Listed(t), Segment(t, seg), lvl \in {0, 1},
           NEW k \in {1, 2}, SyncPulse(k)
    PROVE  Produced(t)
<1>1. /\ seg.phase = 1 + k /\ tape_push_pulse(Sync(BlockOf(t, seg))[k], seg.rom)
      /\ seg' = [[seg EXCEPT !.first = FALSE] EXCEPT !.phase = 2 + k] /\ seg.phase # 0
  <2>1. /\ seg.phase = 1 + k /\ tape_push_pulse(Sync(BlockOf(t, seg))[k], seg.rom)
        /\ seg' = [[seg EXCEPT !.first = FALSE] EXCEPT !.phase = 2 + k]
    BY ONLY SyncPulse(k), t = tape DEF SyncPulse, Producing, ThisBlock, BlockOf, Pushed
  <2>2. 1 + k # 0
    BY ONLY k \in {1, 2}
  <2> QED BY ONLY <2>1, <2>2
<1>2. /\ seg \in Segments /\ BlockOf(t, seg) \in Block /\ PhasedOf(t, seg)
  BY <1>1, SegmentFacts DEF IsFile
<1>3. PICK x \in Block : x = BlockOf(t, seg)
  BY <1>2
<1>4. PICK n, b, j, h, f : n = seg.left /\ b = seg.byte /\ j = seg.bit /\ h = seg.half /\ f = seg.first
  OBVIOUS
<1>6. Phased(x, 1 + k, n, b, j, h, f)
  BY ONLY <1>1, <1>2, <1>3, <1>4 DEF PhasedOf
<1>5. PICK p, q, l : p = 1 + k /\ q = 2 + k /\ l = Sync(x)[k]
  OBVIOUS
<1>7. /\ l \in Word /\ Phased(x, q, n, b, j, h, FALSE)
      /\ Left(x, p, n, b, j, h) = <<l>> \o Left(x, q, n, b, j, h)
  <2>1. CASE k = 1
    <3>1. p = 2 /\ q = 3 /\ l = Sync(x)[1]
      BY ONLY <1>5, <2>1
    <3>2. Phased(x, 2, n, b, j, h, f)
      BY ONLY <1>5, <1>6, <3>1
    <3>3. /\ Sync(x)[1] \in Word /\ Phased(x, 3, n, b, j, h, FALSE)
          /\ Left(x, 2, n, b, j, h) = <<Sync(x)[1]>> \o Left(x, 3, n, b, j, h)
      BY ONLY <3>2, x \in Block, NextSync
    <3> QED BY ONLY <3>1, <3>3
  <2>2. CASE k = 2
    <3>1. p = 3 /\ q = 4 /\ l = Sync(x)[2]
      BY ONLY <1>5, <2>2
    <3>2. Phased(x, 3, n, b, j, h, f)
      BY ONLY <1>5, <1>6, <3>1
    <3>3. /\ Sync(x)[2] \in Word /\ Phased(x, 4, n, b, j, h, FALSE)
          /\ Left(x, 3, n, b, j, h) = <<Sync(x)[2]>> \o Left(x, 4, n, b, j, h)
      BY ONLY <3>2, x \in Block, NextSync
    <3> QED BY ONLY <3>1, <3>3
  <2> QED BY ONLY <2>1, <2>2, k \in {1, 2}
<1>8. PICK next \in 1 .. 6 : next = 2 + k /\ next = q
  <2>1. 2 + k \in 1 .. 6
    BY ONLY k \in {1, 2}
  <2> QED BY <1>5, <2>1
<1>11. PICK sh : sh = [[seg EXCEPT !.first = FALSE] EXCEPT !.phase = next]
  OBVIOUS
<1>12. /\ sh.ptr = seg.ptr /\ sh.cnt = seg.cnt /\ sh.start = seg.start /\ sh.blk = seg.blk
       /\ sh.rom = seg.rom /\ sh.first = FALSE /\ sh.left = seg.left /\ sh.phase = next
       /\ sh.byte = seg.byte /\ sh.bit = seg.bit /\ sh.half = seg.half
  BY ONLY <1>2, <1>11 DEF Segments
<1>13. sh \in Segments
  <2>1. next \in 0 .. 6
    BY ONLY next \in 1 .. 6
  <2> QED BY ONLY <1>2, <1>11, <2>1 DEF Segments
<1>14. BlockOf(t, sh) = x /\ PhasedOf(t, sh) /\ LeftOf(t, seg) = <<l>> \o LeftOf(t, sh)
  BY ONLY <1>1, <1>3, <1>4, <1>5, <1>7, <1>8, <1>12 DEF BlockOf, PhasedOf, LeftOf
<1>15. sh.phase # 0 /\ seg' = sh
  BY ONLY <1>1, <1>8, <1>11, <1>12, next \in 1 .. 6
<1>16. tape_push_pulse(l, seg.rom)
  BY ONLY <1>1, <1>3, <1>5
<1> QED BY <1>1, <1>7, <1>12, <1>13, <1>14, <1>15, <1>16, SendsProduced

LEMMA ListedProduces ==
    ASSUME NEW t \in DOMAIN Tapes, t = tape, ~Listed(t), Segment(t, seg), lvl \in {0, 1}, ListedPulse
    PROVE  Produced(t)
<1>1. /\ seg.phase = 6 /\ tape_push_pulse(BlockOf(t, seg).lens[seg.byte], seg.rom)
      /\ seg' = [[seg EXCEPT !.first = FALSE] EXCEPT !.byte = @ + 1,
                    !.phase = IF seg.byte = Len(BlockOf(t, seg).lens) THEN 5 ELSE 6]
  BY ONLY ListedPulse, t = tape DEF ListedPulse, Producing, ThisBlock, BlockOf, Pushed
<1>2. /\ seg \in Segments /\ BlockOf(t, seg) \in Block /\ PhasedOf(t, seg)
  BY <1>1, SegmentFacts DEF IsFile
<1>3. PICK x \in Block : x = BlockOf(t, seg)
  BY <1>2
<1>4. PICK n, b, j, h, f : n = seg.left /\ b = seg.byte /\ j = seg.bit /\ h = seg.half /\ f = seg.first
  OBVIOUS
<1>5. PICK next : next = AfterListed(x, b) /\ next = IF b = Len(x.lens) THEN 5 ELSE 6
  BY DEF AfterListed
<1>6. Phased(x, 6, n, b, j, h, f)
  BY ONLY <1>1, <1>2, <1>3, <1>4 DEF PhasedOf
<1>7. /\ x.lens[b] \in Word /\ b + 1 \in Nat /\ Phased(x, next, n, b + 1, j, h, FALSE)
      /\ Left(x, 6, n, b, j, h) = <<x.lens[b]>> \o Left(x, next, n, b + 1, j, h)
  <2>1. /\ x.lens[b] \in Word /\ b + 1 \in Nat /\ Phased(x, AfterListed(x, b), n, b + 1, j, h, FALSE)
        /\ Left(x, 6, n, b, j, h) = <<x.lens[b]>> \o Left(x, AfterListed(x, b), n, b + 1, j, h)
    BY ONLY <1>6, x \in Block, NextListed, ZenonT(40)
  <2> QED BY ONLY <1>5, <2>1
<1>8. PICK m \in Nat : m = b + 1
  BY <1>7
<1>9. next \in 0 .. 6 /\ next # 0
  BY ONLY <1>5
<1>10. PICK s1 \in Segments : s1 = [seg EXCEPT !.first = FALSE] /\ s1.byte = b
  <2>1. [seg EXCEPT !.first = FALSE] \in Segments /\ [seg EXCEPT !.first = FALSE].byte = seg.byte
    BY ONLY <1>2 DEF Segments
  <2> QED BY <1>4, <2>1
<1>11. PICK sh : sh = [s1 EXCEPT !.byte = m, !.phase = next]
  OBVIOUS
<1>12. /\ sh.ptr = seg.ptr /\ sh.cnt = seg.cnt /\ sh.start = seg.start /\ sh.blk = seg.blk
       /\ sh.rom = seg.rom /\ sh.first = FALSE /\ sh.left = seg.left /\ sh.phase = next
       /\ sh.byte = m /\ sh.bit = seg.bit /\ sh.half = seg.half
  BY ONLY <1>2, <1>10, <1>11 DEF Segments
<1>13. sh \in Segments
  BY ONLY <1>9, <1>11, m \in Nat, s1 \in Segments DEF Segments
<1>14. BlockOf(t, sh) = x /\ PhasedOf(t, sh) /\ LeftOf(t, seg) = <<x.lens[b]>> \o LeftOf(t, sh)
  BY ONLY <1>1, <1>3, <1>4, <1>7, <1>8, <1>12 DEF BlockOf, PhasedOf, LeftOf
<1>15. sh.phase # 0 /\ seg.phase # 0
  BY ONLY <1>1, <1>9, <1>12
<1>16. seg' = sh
  BY ONLY <1>1, <1>3, <1>4, <1>5, <1>8, <1>10, <1>11
<1>17. tape_push_pulse(x.lens[b], seg.rom)
  BY ONLY <1>1, <1>3, <1>4
<1> QED BY <1>7, <1>12, <1>13, <1>14, <1>15, <1>16, <1>17, SendsProduced


\* The three ways a bit's pulse moves the producer on.
BitSent(t, x, sh, ph, b, j, h) ==
    /\ sh \in Segments /\ sh.ptr = seg.ptr /\ sh.cnt = seg.cnt /\ sh.start = seg.start
    /\ sh.blk = seg.blk /\ sh.rom = seg.rom /\ sh.first = FALSE /\ sh.left = seg.left
    /\ sh.phase = ph /\ sh.byte = b /\ sh.bit = j /\ sh.half = h

LEMMA HalfSent ==
    ASSUME NEW t, NEW x, NEW sg \in Segments, sg = seg, NEW s1, s1 = [sg EXCEPT !.first = FALSE],
           NEW sh, sh = [s1 EXCEPT !.half = 1]
    PROVE  BitSent(t, x, sh, sg.phase, sg.byte, sg.bit, 1)
<1>1. s1 \in Segments
  BY ONLY sg \in Segments, s1 = [sg EXCEPT !.first = FALSE] DEF Segments
<1>2. sh \in Segments
  BY ONLY <1>1, sh = [s1 EXCEPT !.half = 1] DEF Segments
<1> QED BY ONLY <1>1, <1>2, sg \in Segments, sg = seg, s1 = [sg EXCEPT !.first = FALSE],
              sh = [s1 EXCEPT !.half = 1] DEF Segments, BitSent

LEMMA WholeSent ==
    ASSUME NEW t, NEW x, NEW sg \in Segments, sg = seg, NEW s1, s1 = [sg EXCEPT !.first = FALSE],
           NEW m \in Nat, NEW sh, sh = [s1 EXCEPT !.half = 0, !.bit = m]
    PROVE  BitSent(t, x, sh, sg.phase, sg.byte, m, 0)
<1>1. s1 \in Segments
  BY ONLY sg \in Segments, s1 = [sg EXCEPT !.first = FALSE] DEF Segments
<1>2. sh \in Segments
  BY ONLY <1>1, m \in Nat, sh = [s1 EXCEPT !.half = 0, !.bit = m] DEF Segments
<1> QED BY ONLY <1>1, <1>2, sg \in Segments, sg = seg, s1 = [sg EXCEPT !.first = FALSE],
              sh = [s1 EXCEPT !.half = 0, !.bit = m] DEF Segments, BitSent

LEMMA ByteSent ==
    ASSUME NEW t, NEW x, NEW sg \in Segments, sg = seg, NEW s1, s1 = [sg EXCEPT !.first = FALSE],
           NEW m \in Nat, NEW next \in 0 .. 6,
           NEW sh, sh = [s1 EXCEPT !.half = 0, !.bit = 1, !.byte = m, !.phase = next]
    PROVE  BitSent(t, x, sh, next, m, 1, 0)
<1>1. s1 \in Segments
  BY ONLY sg \in Segments, s1 = [sg EXCEPT !.first = FALSE] DEF Segments
<1>2. sh \in Segments
  BY ONLY <1>1, m \in Nat, next \in 0 .. 6,
     sh = [s1 EXCEPT !.half = 0, !.bit = 1, !.byte = m, !.phase = next] DEF Segments
<1> QED BY ONLY <1>1, <1>2, sg \in Segments, sg = seg, s1 = [sg EXCEPT !.first = FALSE],
     sh = [s1 EXCEPT !.half = 0, !.bit = 1, !.byte = m, !.phase = next] DEF Segments, BitSent

LEMMA BitSends ==
    ASSUME NEW t \in DOMAIN Tapes, ~Listed(t), Segment(t, seg), seg.phase # 0, lvl \in {0, 1},
           NEW x, x = BlockOf(t, seg), NEW d \in Word, tape_push_pulse(d, seg.rom),
           NEW sh, seg' = sh, NEW ph, ph # 0, NEW b, NEW j, NEW h, BitSent(t, x, sh, ph, b, j, h),
           Phased(x, ph, seg.left, b, j, h, FALSE),
           LeftOf(t, seg) = <<d>> \o Left(x, ph, seg.left, b, j, h)
    PROVE  Produced(t)
<1>1. /\ sh \in Segments /\ sh.ptr = seg.ptr /\ sh.cnt = seg.cnt /\ sh.start = seg.start
      /\ sh.blk = seg.blk /\ sh.rom = seg.rom /\ sh.first = FALSE /\ sh.left = seg.left
      /\ sh.phase = ph /\ sh.byte = b /\ sh.bit = j /\ sh.half = h
  BY ONLY BitSent(t, x, sh, ph, b, j, h) DEF BitSent
<1>2. BlockOf(t, sh) = x
  BY ONLY <1>1, x = BlockOf(t, seg) DEF BlockOf
<1>3. PhasedOf(t, sh) /\ LeftOf(t, seg) = <<d>> \o LeftOf(t, sh)
  BY ONLY <1>1, <1>2, Phased(x, ph, seg.left, b, j, h, FALSE),
     LeftOf(t, seg) = <<d>> \o Left(x, ph, seg.left, b, j, h) DEF PhasedOf, LeftOf
<1> QED BY <1>1, <1>3, SendsProduced

LEMMA DataProduces ==
    ASSUME NEW t \in DOMAIN Tapes, t = tape, ~Listed(t), Segment(t, seg), lvl \in {0, 1}, DataPulse
    PROVE  Produced(t)
<1>1. PICK x : x = BlockOf(t, seg)
  OBVIOUS
<1>2. /\ seg.phase = 4 /\ tape_push_pulse(BitLen(x, x.data[seg.byte][seg.bit]), seg.rom)
      /\ seg' = IF seg.half = 0 THEN [Pushed(seg) EXCEPT !.half = 1]
                ELSE IF seg.bit < Kept(x, seg.byte)
                THEN [Pushed(seg) EXCEPT !.half = 0, !.bit = @ + 1]
                ELSE [Pushed(seg) EXCEPT !.half = 0, !.bit = 1, !.byte = @ + 1,
                        !.phase = IF seg.byte = Len(x.data) THEN 5 ELSE 4]
  BY ONLY DataPulse, t = tape, <1>1 DEF DataPulse, Producing, ThisBlock, BlockOf
<1>3. /\ seg \in Segments /\ x \in Block /\ PhasedOf(t, seg)
  BY <1>1, <1>2, SegmentFacts DEF IsFile
<1>4. PICK n, b, j, h, f : n = seg.left /\ b = seg.byte /\ j = seg.bit /\ h = seg.half /\ f = seg.first
  OBVIOUS
<1>5. Phased(x, 4, n, b, j, h, f) /\ LeftOf(t, seg) = Left(x, 4, n, b, j, h)
  BY ONLY <1>1, <1>2, <1>3, <1>4 DEF PhasedOf, LeftOf
<1>6. PICK d : d = BitLen(x, x.data[b][j])
  OBVIOUS
<1>7. /\ d \in Word /\ b \in Nat /\ j \in Nat
      /\ h = 0 =>
           Phased(x, 4, n, b, j, 1, FALSE) /\ Left(x, 4, n, b, j, h) = <<d>> \o Left(x, 4, n, b, j, 1)
      /\ h # 0 /\ j < Kept(x, b) =>
           /\ Phased(x, 4, n, b, j + 1, 0, FALSE)
           /\ Left(x, 4, n, b, j, h) = <<d>> \o Left(x, 4, n, b, j + 1, 0)
      /\ h # 0 /\ ~(j < Kept(x, b)) /\ b # Len(x.data) =>
           /\ Phased(x, 4, n, b + 1, 1, 0, FALSE)
           /\ Left(x, 4, n, b, j, h) = <<d>> \o Left(x, 4, n, b + 1, 1, 0)
      /\ h # 0 /\ ~(j < Kept(x, b)) /\ b = Len(x.data) =>
           /\ Phased(x, 5, n, b + 1, 1, 0, FALSE)
           /\ Left(x, 4, n, b, j, h) = <<d>> \o Left(x, 5, n, b + 1, 1, 0)
  <2>1. BitStep(x, n, b, j, h)
    BY ONLY <1>3, <1>5, NextBit
  <2> QED BY ONLY <1>6, <2>1 DEF BitStep
<1>8. tape_push_pulse(d, seg.rom)
  BY ONLY <1>2, <1>4, <1>6
<1>9. PICK sg \in Segments : sg = seg
  BY <1>3
<1>10. PICK s1 : s1 = [sg EXCEPT !.first = FALSE] /\ s1.bit = j /\ s1.byte = b /\ s1 = Pushed(seg)
  <2>1. [sg EXCEPT !.first = FALSE].bit = sg.bit /\ [sg EXCEPT !.first = FALSE].byte = sg.byte
    BY ONLY sg \in Segments DEF Segments
  <2> QED BY ONLY <1>4, <1>9, <2>1 DEF Pushed
<1>11. CASE h = 0
  <2>1. PICK sh : sh = [s1 EXCEPT !.half = 1]
    OBVIOUS
  <2>2. seg' = sh
    BY ONLY <1>2, <1>4, <1>10, <1>11, <2>1
  <2>3. BitSent(t, x, sh, 4, b, j, 1)
    <3>1. BitSent(t, x, sh, sg.phase, sg.byte, sg.bit, 1)
      BY ONLY <1>9, <1>10, <2>1, HalfSent
    <3> QED BY ONLY <1>2, <1>4, <1>9, <3>1
  <2>4. Phased(x, 4, seg.left, b, j, 1, FALSE) /\ LeftOf(t, seg) = <<d>> \o Left(x, 4, seg.left, b, j, 1)
    BY ONLY <1>4, <1>5, <1>7, <1>11
  <2>5. seg.phase # 0 /\ 4 # 0 /\ d \in Word
    BY ONLY <1>2, <1>7
  <2> QED BY <1>1, <1>8, <2>2, <2>3, <2>4, <2>5, BitSends
<1>12. CASE h # 0 /\ j < Kept(x, b)
  <2>0. PICK m \in Nat : m = j + 1
    BY <1>7
  <2>1. PICK sh : sh = [s1 EXCEPT !.half = 0, !.bit = m]
    OBVIOUS
  <2>2. seg' = sh
    BY ONLY <1>2, <1>4, <1>10, <1>12, <2>0, <2>1
  <2>3. BitSent(t, x, sh, 4, b, m, 0)
    <3>1. BitSent(t, x, sh, sg.phase, sg.byte, m, 0)
      BY ONLY <1>9, <1>10, <2>1, m \in Nat, WholeSent
    <3> QED BY ONLY <1>2, <1>4, <1>9, <3>1
  <2>4. Phased(x, 4, seg.left, b, m, 0, FALSE) /\ LeftOf(t, seg) = <<d>> \o Left(x, 4, seg.left, b, m, 0)
    BY ONLY <1>4, <1>5, <1>7, <1>12, <2>0
  <2>5. seg.phase # 0 /\ 4 # 0 /\ d \in Word
    BY ONLY <1>2, <1>7
  <2> QED BY <1>1, <1>8, <2>2, <2>3, <2>4, <2>5, BitSends
<1>13. CASE h # 0 /\ ~(j < Kept(x, b))
  <2>0. PICK m \in Nat : m = b + 1
    BY <1>7
  <2>1. PICK next \in 0 .. 6 : next = (IF b = Len(x.data) THEN 5 ELSE 4) /\ next # 0
    OBVIOUS
  <2>2. PICK sh : sh = [s1 EXCEPT !.half = 0, !.bit = 1, !.byte = m, !.phase = next]
    OBVIOUS
  <2>3. seg' = sh
    BY ONLY <1>2, <1>4, <1>10, <1>13, <2>0, <2>1, <2>2
  <2>4. BitSent(t, x, sh, next, m, 1, 0)
    BY ONLY <1>9, <1>10, <2>2, m \in Nat, next \in 0 .. 6, ByteSent
  <2>5. Phased(x, next, seg.left, m, 1, 0, FALSE)
        /\ LeftOf(t, seg) = <<d>> \o Left(x, next, seg.left, m, 1, 0)
    BY ONLY <1>4, <1>5, <1>7, <1>13, <2>0, <2>1
  <2>6. seg.phase # 0 /\ next # 0 /\ d \in Word
    BY ONLY <1>2, <1>7, <2>1
  <2> QED BY <1>1, <1>8, <2>3, <2>4, <2>5, <2>6, BitSends
<1> QED BY <1>11, <1>12, <1>13

\* What a producing step does to the stream, and when it starts the drain.
Unproduced(t) ==
    /\ ring' = ring /\ lvl' \in {0, 1} /\ Follows(t, seg')
    /\ Coming(t, seg', lvl') \in Seq(Pulse) /\ Coming(t, seg, lvl) = Coming(t, seg', lvl')
Delivers(t) ==
    /\ Produced(t) \/ Unproduced(t)
    /\ drain' \in BOOLEAN
    /\ drain' => Coming(t, seg', lvl') = <<>>

LEMMA LevelledNone == ASSUME NEW l PROVE Levelled(<<>>, l) = <<>>
  BY DEF Levelled

LEMMA PulseDelivers ==
    ASSUME NEW t \in DOMAIN Tapes, ~Listed(t), Produced(t), drain' = drain, drain = FALSE
    PROVE  Delivers(t)
  BY DEF Delivers

\* Where a file is loaded from, and what of it is ahead then.
LEMMA LoadFollows ==
    ASSUME NEW t \in DOMAIN Tapes, t = tape, tape' = tape, ~Listed(t),
           NEW sg \in Segments, WalkingOf(t, sg), tape_load_seg(sg), drain = FALSE, NEW l \in {0, 1}
    PROVE  /\ Follows(t, seg') /\ Coming(t, seg', l) = Levelled(RestOf(t, sg), l)
           /\ Coming(t, seg', l) \in Seq(Pulse) /\ drain' \in BOOLEAN
           /\ drain' => Coming(t, seg', l) = <<>>
       <1>1. IsFile(t)
  BY DEF IsFile
<1>2. PICK sh : sh = Load(t, sg)
  OBVIOUS
<1>3. /\ seg' = sh /\ (sh.phase = 0 => drain' = TRUE) /\ (sh.phase # 0 => drain' = drain)
  BY ONLY <1>2, tape_load_seg(sg), t = tape, tape' = tape DEF tape_load_seg
<1>4. Segment(t, sh) /\ Ahead(t, sh) = RestOf(t, sg) /\ RestOf(t, sg) \in Seq(Sound)
  BY <1>1, <1>2, Loads
<1>5. Follows(t, sh) /\ Coming(t, sh, l) = Levelled(RestOf(t, sg), l)
  <2>1. sh \in Segments
    BY ONLY <1>4 DEF Segment
  <2> QED BY ONLY <1>4, <2>1, ~Listed(t) DEF Follows, Coming
<1>6. Coming(t, sh, l) \in Seq(Pulse)
  BY <1>4, <1>5, LevelledType
<1>7. sh.phase = 0 => Coming(t, sh, l) = <<>>
  BY ONLY ~Listed(t), LevelledNone DEF Coming, Ahead
<1> QED BY ONLY <1>3, <1>5, <1>6, <1>7, drain = FALSE

LEMMA PushedFacts ==
    ASSUME NEW t, NEW sg \in Segments, NEW sh, sh = [sg EXCEPT !.first = FALSE]
    PROVE  /\ sh \in Segments
           /\ RestOf(t, sh) = RestOf(t, sg) /\ WalkingOf(t, sh) = WalkingOf(t, sg)
<1>1. sh \in Segments
  BY ONLY sg \in Segments, sh = [sg EXCEPT !.first = FALSE] DEF Segments
<1>2. sh.ptr = sg.ptr /\ sh.cnt = sg.cnt /\ sh.start = sg.start
  BY ONLY sg \in Segments, sh = [sg EXCEPT !.first = FALSE] DEF Segments
<1> QED BY ONLY <1>1, <1>2 DEF RestOf, WalkingOf

LEMMA GapProduces ==
    ASSUME NEW t \in DOMAIN Tapes, t = tape, ~Listed(t), Segment(t, seg), lvl \in {0, 1}, Gap,
           drain \in BOOLEAN
    PROVE  Delivers(t)
<1>1. /\ seg.phase = 5 /\ drain = FALSE /\ tape' = tape
      /\ IF PauseLen(BlockOf(t, seg)) > 0
         THEN tape_push_pulse(PauseLen(BlockOf(t, seg)), GapRom(seg)) /\ tape_load_seg(Pushed(seg))
         ELSE ring' = ring /\ lvl' = lvl /\ tape_load_seg(seg)
  <2>1. drain = FALSE
    BY ONLY Gap, drain \in BOOLEAN DEF Gap, Producing
  <2> QED BY ONLY <2>1, Gap, t = tape DEF Gap, Producing, ThisBlock, BlockOf, unproduced
<1>2. IsFile(t) /\ seg.phase # 0
  BY <1>1 DEF IsFile
<1>3. seg \in Segments /\ WalkingOf(t, seg) /\ RestOf(t, seg) \in Seq(Sound)
  BY <1>2, SegmentFacts
<1>4. PICK p : p = GapOf(t, seg, lvl)
  OBVIOUS
<1>5. /\ PauseLen(BlockOf(t, seg)) \in Nat
      /\ PauseLen(BlockOf(t, seg)) > 0 =>
           /\ p \in Pulse /\ Levelled(RestOf(t, seg), 1 - lvl) \in Seq(Pulse)
           /\ Levelled(Ahead(t, seg), lvl) = <<p>> \o Levelled(RestOf(t, seg), 1 - lvl)
      /\ PauseLen(BlockOf(t, seg)) = 0 => Ahead(t, seg) = RestOf(t, seg)
  BY <1>1, <1>2, <1>4, GapAhead
<1>6. 1 - lvl \in {0, 1}
  BY ONLY lvl \in {0, 1}
<1>7. CASE PauseLen(BlockOf(t, seg)) > 0
  <2>1. PICK sh : sh = [seg EXCEPT !.first = FALSE] /\ sh = Pushed(seg)
    BY DEF Pushed
  <2>2. /\ sh \in Segments /\ RestOf(t, sh) = RestOf(t, seg) /\ WalkingOf(t, sh) = WalkingOf(t, seg)
    BY ONLY <1>3, <2>1, PushedFacts
  <2>3. /\ Follows(t, seg') /\ Coming(t, seg', 1 - lvl) = Levelled(RestOf(t, sh), 1 - lvl)
        /\ Coming(t, seg', 1 - lvl) \in Seq(Pulse) /\ drain' \in BOOLEAN
        /\ drain' => Coming(t, seg', 1 - lvl) = <<>>
        <3>1. WalkingOf(t, sh) /\ tape_load_seg(sh)
      BY ONLY <1>1, <1>3, <1>7, <2>1, <2>2
    <3> QED BY <1>1, <1>6, <2>2, <3>1, LoadFollows
  <2>4. ring' = Append(ring, p) /\ lvl' = 1 - lvl
    BY ONLY <1>1, <1>4, <1>7 DEF tape_push_pulse, GapOf, GapRom
  <2>5. Coming(t, seg, lvl) = <<p>> \o Coming(t, seg', lvl')
    BY ONLY <1>5, <1>7, <2>2, <2>3, <2>4, ~Listed(t) DEF Coming
  <2>6. Produced(t)
    BY ONLY <1>5, <1>6, <1>7, <2>3, <2>4, <2>5 DEF Produced
  <2> QED BY ONLY <2>3, <2>4, <2>6 DEF Delivers
<1>8. CASE PauseLen(BlockOf(t, seg)) = 0
  <2>0. ~(PauseLen(BlockOf(t, seg)) > 0)
    BY ONLY <1>5, <1>8
  <2>1. ring' = ring /\ lvl' = lvl /\ tape_load_seg(seg)
    BY ONLY <1>1, <2>0
  <2>2. /\ Follows(t, seg') /\ Coming(t, seg', lvl) = Levelled(RestOf(t, seg), lvl)
        /\ Coming(t, seg', lvl) \in Seq(Pulse) /\ drain' \in BOOLEAN
        /\ drain' => Coming(t, seg', lvl) = <<>>
        BY <1>1, <1>3, <2>1, LoadFollows
  <2>3. Coming(t, seg, lvl) = Coming(t, seg', lvl')
    BY ONLY <1>5, <1>8, <2>1, <2>2, ~Listed(t) DEF Coming
  <2>4. Unproduced(t)
    BY ONLY <2>1, <2>2, <2>3, lvl \in {0, 1} DEF Unproduced
  <2> QED BY ONLY <2>1, <2>2, <2>4 DEF Delivers
<1> QED BY ONLY <1>5, <1>7, <1>8

LEMMA CopyProduces ==
    ASSUME NEW t \in DOMAIN Tapes, t = tape, Follows(t, seg), lvl \in {0, 1}, Copy, drain \in BOOLEAN
    PROVE  Delivers(t)
<1>1. /\ Listed(t) /\ drain = FALSE /\ lvl' = lvl
      /\ IF seg.ptr > Len(Tapes[t].pulses)
         THEN drain' = TRUE /\ ring' = ring /\ seg' = seg
         ELSE /\ ring' = Append(ring, Tapes[t].pulses[seg.ptr])
              /\ seg' = [seg EXCEPT !.ptr = @ + 1] /\ drain' = drain
  <2>1. drain = FALSE
    BY ONLY Copy, drain \in BOOLEAN DEF Copy
  <2> QED BY ONLY <2>1, Copy, t = tape DEF Copy
<1>2. PICK y \in Seq(Pulse) : y = Tapes[t].pulses
  BY <1>1, ListFacts
<1>3. seg \in Segments /\ seg.ptr \in 1 .. Len(y) + 1
  BY ONLY <1>1, <1>2, Follows(t, seg) DEF Follows
<1>4. PICK p \in 1 .. Len(y) + 1 : p = seg.ptr
  BY ONLY <1>3
<1>5. Coming(t, seg, lvl) = Slice(y, p, Len(y)) /\ Coming(t, seg, lvl) \in Seq(Pulse)
  <2>1. Coming(t, seg, lvl) \in Seq(Pulse)
    BY ComingType
  <2> QED BY ONLY <1>1, <1>2, <1>4, <2>1 DEF Coming
<1>6. CASE p > Len(y)
  <2>1. drain' = TRUE /\ ring' = ring /\ seg' = seg
    BY ONLY <1>1, <1>2, <1>4, <1>6
  <2>2. Slice(y, p, Len(y)) = <<>>
    BY ONLY <1>6, y \in Seq(Pulse), p \in 1 .. Len(y) + 1 DEF Slice
  <2>3. Unproduced(t)
    BY ONLY <1>1, <1>5, <2>1, lvl \in {0, 1}, Follows(t, seg) DEF Unproduced
  <2> QED BY ONLY <1>1, <1>5, <2>1, <2>2, <2>3 DEF Delivers
<1>7. CASE ~(p > Len(y))
  <2>1. /\ ring' = Append(ring, y[p]) /\ seg' = [seg EXCEPT !.ptr = @ + 1] /\ drain' = drain
    BY ONLY <1>1, <1>2, <1>4, <1>7
  <2>2. y[p] \in Pulse /\ p + 1 \in 1 .. Len(y) + 1 /\ p + 1 \in Nat \ {0}
    BY ONLY <1>7, y \in Seq(Pulse), p \in 1 .. Len(y) + 1
  <2>3. PICK m : m = p + 1
    OBVIOUS
  <2>4. PICK sh : sh = [seg EXCEPT !.ptr = m]
    OBVIOUS
  <2>5. seg' = sh
    BY ONLY <1>4, <2>1, <2>3, <2>4
  <2>6. sh \in Segments /\ sh.ptr = m
    BY ONLY <1>3, <2>2, <2>3, <2>4 DEF Segments
  <2>7. Follows(t, sh)
    BY ONLY <1>1, <1>2, <2>2, <2>3, <2>6 DEF Follows
  <2>8. Coming(t, sh, lvl) = Slice(y, m, Len(y))
    BY ONLY <1>1, <1>2, <2>6 DEF Coming
  <2>9. Slice(y, p, Len(y)) = <<y[p]>> \o Slice(y, p + 1, Len(y))
    <3>1. p \in 1 .. Len(y)
      BY ONLY <1>7, y \in Seq(Pulse), p \in 1 .. Len(y) + 1
    <3> QED BY ONLY <3>1, y \in Seq(Pulse), Shift DEF Slice
  <2>10. Coming(t, sh, lvl) \in Seq(Pulse)
    BY <2>7, ComingType
  <2>11. Produced(t)
    BY ONLY <1>1, <1>5, <2>1, <2>2, <2>3, <2>5, <2>7, <2>8, <2>9, <2>10, lvl \in {0, 1} DEF Produced
  <2> QED BY ONLY <1>1, <2>1, <2>11 DEF Delivers
<1> QED BY ONLY <1>6, <1>7

\* Every producing step; the rest of the player is left alone.
LEMMA Produces ==
    ASSUME NEW t \in DOMAIN Tapes, t = tape, Follows(t, seg), lvl \in {0, 1}, drain \in BOOLEAN, Produce
    PROVE  Delivers(t) /\ drain = FALSE
<1>1. drain = FALSE
  BY ONLY drain \in BOOLEAN, Produce
     DEF Produce, Pilot, SyncPulse, DataPulse, ListedPulse, Gap, Copy, Producing
<1>2. ~Listed(t) => Segment(t, seg)
  BY DEF Follows
<1>3. CASE Pilot
  <2>1. ~Listed(t) /\ drain' = drain
    BY ONLY <1>3, t = tape DEF Pilot, Producing
  <2>2. Produced(t)
    BY <1>2, <1>3, <2>1, PilotProduces
  <2> QED BY <1>1, <2>1, <2>2, PulseDelivers
<1>4. CASE SyncPulse(1)
  <2>0. 1 \in {1, 2}
    OBVIOUS
  <2>1. ~Listed(t) /\ drain' = drain
    BY ONLY <1>4, t = tape DEF SyncPulse, Producing
  <2>2. Produced(t)
    BY <1>2, <1>4, <2>0, <2>1, SyncProduces
  <2> QED BY <1>1, <2>1, <2>2, PulseDelivers
<1>5. CASE SyncPulse(2)
  <2>0. 2 \in {1, 2}
    OBVIOUS
  <2>1. ~Listed(t) /\ drain' = drain
    BY ONLY <1>5, t = tape DEF SyncPulse, Producing
  <2>2. Produced(t)
    BY <1>2, <1>5, <2>0, <2>1, SyncProduces
  <2> QED BY <1>1, <2>1, <2>2, PulseDelivers
<1>6. CASE DataPulse
  <2>1. ~Listed(t) /\ drain' = drain
    BY ONLY <1>6, t = tape DEF DataPulse, Producing
  <2>2. Produced(t)
    BY <1>2, <1>6, <2>1, DataProduces
  <2> QED BY <1>1, <2>1, <2>2, PulseDelivers
<1>7. CASE ListedPulse
  <2>1. ~Listed(t) /\ drain' = drain
    BY ONLY <1>7, t = tape DEF ListedPulse, Producing
  <2>2. Produced(t)
    BY <1>2, <1>7, <2>1, ListedProduces
  <2> QED BY <1>1, <2>1, <2>2, PulseDelivers
<1>8. CASE Gap
  <2>1. ~Listed(t)
    BY ONLY <1>8, t = tape DEF Gap, Producing
  <2> QED BY <1>1, <1>2, <1>8, <2>1, GapProduces
<1>9. CASE Copy
  BY <1>1, <1>9, CopyProduces
<1> QED BY ONLY Produce, <1>3, <1>4, <1>5, <1>6, <1>7, <1>8, <1>9 DEF Produce

-----------------------------------------------------------------------------
(* The stream: heard, queued in the fabric, queued in the ring, still to come. *)
Stream(a, b, c, d) == a \o (b \o (c \o d))

LEMMA StreamType ==
    ASSUME NEW X, NEW a \in Seq(X), NEW b \in Seq(X), NEW c \in Seq(X), NEW d \in Seq(X)
    PROVE  Stream(a, b, c, d) \in Seq(X)
<1>1. PICK m \in Seq(X) : m = c \o d
  <2>1. c \o d \in Seq(X)
    BY ONLY c \in Seq(X), d \in Seq(X)
  <2> QED BY <2>1
<1>2. PICK n \in Seq(X) : n = b \o m
  <2>1. b \o m \in Seq(X)
    BY ONLY b \in Seq(X), m \in Seq(X)
  <2> QED BY <2>1
<1>3. a \o n \in Seq(X)
  BY ONLY a \in Seq(X), n \in Seq(X)
<1> QED BY ONLY <1>1, <1>2, <1>3 DEF Stream

\* Produced, fed and played pulses only move within it.
LEMMA StreamProduced ==
    ASSUME NEW X, NEW a, NEW b, NEW c \in Seq(X), NEW u \in X, NEW e \in Seq(X)
    PROVE  Stream(a, b, Append(c, u), e) = Stream(a, b, c, <<u>> \o e)
<1>1. Append(c, u) = c \o <<u>> /\ <<u>> \in Seq(X)
  OBVIOUS
<1>2. PICK v \in Seq(X) : v = <<u>>
  BY <1>1
<1>3. (c \o v) \o e = c \o (v \o e)
  <2>1. Regrouped(c, v, e)
    BY ONLY c \in Seq(X), v \in Seq(X), e \in Seq(X), Regroup, ZenonT(40)
  <2> QED BY ONLY <2>1, Zenon DEF Regrouped
<1> QED BY ONLY <1>1, <1>2, <1>3 DEF Stream

Split(c, k, s, r) == s = SubSeq(c, 1, k) /\ r = SubSeq(c, k + 1, Len(c))
LEMMA StreamFed ==
    ASSUME NEW X, NEW a, NEW b \in Seq(X), NEW c \in Seq(X), NEW d \in Seq(X), NEW k \in 0 .. Len(c),
           NEW s, NEW r, Split(c, k, s, r)
    PROVE  /\ s \in Seq(X) /\ r \in Seq(X) /\ Len(s) = k /\ Len(r) = Len(c) - k
           /\ Stream(a, b \o s, r, d) = Stream(a, b, c, d)
<1>0. s = SubSeq(c, 1, k) /\ r = SubSeq(c, k + 1, Len(c))
  BY DEF Split
<1>1. s \in Seq(X) /\ r \in Seq(X) /\ Len(s) = k /\ Len(r) = Len(c) - k
  BY ONLY c \in Seq(X), k \in 0 .. Len(c), <1>0
<1>5. c = s \o r
  <2>1. PICK n \in Nat, e \in Nat : n = Len(c) /\ e = k /\ e <= n
    <3>1. Len(c) \in Nat /\ k \in Nat /\ k <= Len(c)
      BY ONLY c \in Seq(X), k \in 0 .. Len(c)
    <3> QED BY <3>1
  <2>2. PICK w : w = s \o r
    OBVIOUS
  <2>3. w \in Seq(X) /\ Len(w) = n
    BY ONLY <1>1, <2>1, <2>2
  <2>4. ASSUME NEW i \in 1 .. n, i <= e  PROVE w[i] = c[i]
    <3>1. w[i] = s[i]
      BY ONLY <1>1, <2>1, <2>2, <2>4
    <3>2. s[i] = c[i]
      BY ONLY <2>1, <2>4, c \in Seq(X), <1>0
    <3> QED BY ONLY <3>1, <3>2
  <2>5. ASSUME NEW i \in 1 .. n, e < i  PROVE w[i] = c[i]
    <3>1. w[i] = r[i - e] /\ i - e \in 1 .. Len(r)
      BY ONLY <1>1, <2>1, <2>2, <2>5
    <3>2. r[i - e] = c[i]
      BY ONLY <1>1, <2>1, <2>5, c \in Seq(X), <1>0
    <3> QED BY ONLY <3>1, <3>2
  <2>6. \A i \in 1 .. n : w[i] = c[i]
    BY ONLY <2>4, <2>5, <2>1
  <2>7. w = c
    BY ONLY <2>1, <2>3, <2>6, c \in Seq(X), SMTT(30)
  <2> QED BY ONLY <2>2, <2>7
<1>6. s \in Seq(X) /\ r \in Seq(X)
  BY ONLY <1>1
<1>2. PICK m \in Seq(X) : m = r \o d
  <2>1. r \o d \in Seq(X)
    BY ONLY <1>6, d \in Seq(X)
  <2> QED BY <2>1
<1>3. c \o d = s \o m
  <2>1. (s \o r) \o d = s \o (r \o d)
    <3>1. Regrouped(s, r, d)
      BY ONLY <1>6, d \in Seq(X), Regroup, ZenonT(40)
    <3> QED BY ONLY <3>1, Zenon DEF Regrouped
  <2> QED BY ONLY <1>5, <1>2, <2>1
<1>4. (b \o s) \o m = b \o (s \o m)
  <2>1. Regrouped(b, s, m)
    BY ONLY <1>6, b \in Seq(X), m \in Seq(X), Regroup, ZenonT(40)
  <2> QED BY ONLY <2>1, Zenon DEF Regrouped
<1> QED BY ONLY <1>1, <1>2, <1>3, <1>4 DEF Stream

LEMMA StreamPlayed ==
    ASSUME NEW X, NEW a \in Seq(X), NEW b \in Seq(X), b # <<>>, NEW c \in Seq(X), NEW d \in Seq(X)
    PROVE  /\ Append(a, Head(b)) \in Seq(X) /\ Tail(b) \in Seq(X) /\ Len(Tail(b)) <= Len(b)
           /\ Stream(Append(a, Head(b)), Tail(b), c, d) = Stream(a, b, c, d)
<1>1. PICK u \in X, q \in Seq(X) : u = Head(b) /\ q = Tail(b) /\ b = <<u>> \o q /\ Len(b) = Len(q) + 1
  <2>1. /\ Head(b) \in X /\ Tail(b) \in Seq(X) /\ b = <<Head(b)>> \o Tail(b)
        /\ Len(b) = Len(Tail(b)) + 1
    BY ONLY b \in Seq(X), b # <<>>
  <2> QED BY ONLY <2>1
<1>2. PICK v \in Seq(X) : v = <<u>>
  <2>1. <<u>> \in Seq(X)
    BY ONLY u \in X
  <2> QED BY <2>1
<1>3. PICK m \in Seq(X) : m = c \o d
  <2>1. c \o d \in Seq(X)
    BY ONLY c \in Seq(X), d \in Seq(X)
  <2> QED BY <2>1
<1>4. PICK n \in Seq(X) : n = q \o m
  <2>1. q \o m \in Seq(X)
    BY ONLY q \in Seq(X), m \in Seq(X)
  <2> QED BY <2>1
<1>5. (v \o q) \o m = v \o (q \o m)
  <2>1. Regrouped(v, q, m)
    BY ONLY v \in Seq(X), q \in Seq(X), m \in Seq(X), Regroup, ZenonT(40)
  <2> QED BY ONLY <2>1, Zenon DEF Regrouped
<1>8. (a \o v) \o n = a \o (v \o n) /\ a \o v \in Seq(X)
  <2>1. Regrouped(a, v, n)
    BY ONLY a \in Seq(X), v \in Seq(X), n \in Seq(X), Regroup, ZenonT(40)
  <2>2. a \o v \in Seq(X)
    BY ONLY a \in Seq(X), v \in Seq(X), n \in Seq(X)
  <2> QED BY ONLY <2>1, <2>2 DEF Regrouped
<1>6. Append(a, u) = a \o <<u>>
  BY ONLY a \in Seq(X), u \in X
<1>7. Len(q) <= Len(b)
  BY ONLY <1>1, q \in Seq(X)
<1> QED BY ONLY <1>1, <1>2, <1>3, <1>4, <1>5, <1>6, <1>7, <1>8 DEF Stream

-----------------------------------------------------------------------------
(* What the code sends replays what the file says. *)
Item == [kind : {"pulse", "pause", "stop"}, dur : Nat, rom : BOOLEAN, first : BOOLEAN]
Match(a, r) ==
    /\ a \in Seq(Sound) /\ r \in Seq(Item) /\ Len(a) = Len(r)
    /\ \A i \in 1 .. Len(a) : Replays(a[i], r[i])

LEMMA MatchNone == Match(<<>>, <<>>)
<1>1. <<>> \in Seq(Sound) /\ <<>> \in Seq(Item) /\ Len(<<>>) = 0
  OBVIOUS
<1> QED BY ONLY <1>1 DEF Match

LEMMA MatchConcat ==
    ASSUME NEW a, NEW r, Match(a, r), NEW b, NEW s, Match(b, s)
    PROVE  Match(a \o b, r \o s)
<1>1. /\ a \in Seq(Sound) /\ r \in Seq(Item) /\ Len(a) = Len(r)
      /\ b \in Seq(Sound) /\ s \in Seq(Item) /\ Len(b) = Len(s)
  BY DEF Match
<1>2. PICK m \in Nat, n \in Nat : m = Len(a) /\ n = Len(b) /\ m = Len(r) /\ n = Len(s)
  <2>1. Len(a) \in Nat /\ Len(b) \in Nat
    BY ONLY <1>1
  <2> QED BY ONLY <1>1, <2>1
<1>3. PICK c \in Seq(Sound), u \in Seq(Item) : c = a \o b /\ u = r \o s /\ Len(c) = m + n /\ Len(u) = m + n
  <2>1. a \o b \in Seq(Sound) /\ Len(a \o b) = m + n
    BY ONLY <1>1, <1>2
  <2>2. r \o s \in Seq(Item) /\ Len(r \o s) = m + n
    BY ONLY <1>1, <1>2
  <2> QED BY ONLY <2>1, <2>2
<1>4. ASSUME NEW i \in 1 .. m  PROVE Replays(c[i], u[i])
  <2>1. c[i] = a[i] /\ u[i] = r[i]
    BY ONLY <1>1, <1>2, <1>3, i \in 1 .. m
  <2>2. Replays(a[i], r[i])
    BY ONLY <1>2, Match(a, r) DEF Match
  <2> QED BY ONLY <2>1, <2>2
<1>5. ASSUME NEW i \in m + 1 .. m + n  PROVE Replays(c[i], u[i])
  <2>1. PICK j \in 1 .. n : i = m + j
    <3>1. i - m \in 1 .. n /\ i = m + (i - m)
      BY ONLY m \in Nat, n \in Nat, i \in m + 1 .. m + n
    <3> QED BY <3>1
  <2>2. c[i] = b[j] /\ u[i] = s[j]
    <3>1. i \in 1 .. Len(c) /\ i > m /\ i - m = j
      BY ONLY <1>3, <2>1, m \in Nat, n \in Nat
    <3>2. c[i] = b[i - m]
      BY ONLY <1>1, <1>2, <1>3, <3>1
    <3>3. u[i] = s[i - m]
      BY ONLY <1>1, <1>2, <1>3, <3>1
    <3> QED BY ONLY <3>1, <3>2, <3>3
  <2>3. Replays(b[j], s[j])
    BY ONLY <1>2, Match(b, s) DEF Match
  <2> QED BY ONLY <2>2, <2>3
<1>6. \A i \in 1 .. m + n : Replays(c[i], u[i])
  <2>1. \A i \in 1 .. m + n : i \in 1 .. m \/ i \in m + 1 .. m + n
    BY ONLY m \in Nat, n \in Nat
  <2> QED BY ONLY <1>4, <1>5, <2>1
<1> QED BY ONLY <1>3, <1>6 DEF Match

\* Piece by piece, whatever the pieces are joined to.
Matches(ss, rr) ==
    /\ ss \in Seq(Seq(Sound)) /\ rr \in Seq(Seq(Item)) /\ Len(ss) = Len(rr)
    /\ \A k \in 1 .. Len(ss) : Match(ss[k], rr[k])
LEMMA MatchFlat ==
    ASSUME NEW ss, NEW rr, Matches(ss, rr)
    PROVE  Match(FlattenSeq(ss), FlattenSeq(rr))
<1> DEFINE X == Seq(Sound)
           Y == Seq(Item)
           S == {n \in Nat : \A a, r : Matches(a, r) /\ Len(a) = n =>
                                Match(FlattenSeq(a), FlattenSeq(r))}
<1>1. 0 \in S
  <2> SUFFICES ASSUME NEW a, NEW r, Matches(a, r), Len(a) = 0
               PROVE  Match(FlattenSeq(a), FlattenSeq(r))
    OBVIOUS
  <2>1. a \in Seq(X) /\ r \in Seq(Y) /\ Len(a) = 0 /\ Len(r) = 0
    BY DEF Matches
  <2> HIDE DEF X, Y
  <2>2. a = <<>> /\ r = <<>>
    BY ONLY <2>1
  <2> QED BY ONLY <2>2, FlatEmpty, MatchNone
<1>2. ASSUME NEW n \in Nat, n \in S  PROVE n + 1 \in S
  <2> SUFFICES ASSUME NEW a, NEW r, Matches(a, r), Len(a) = n + 1
               PROVE  Match(FlattenSeq(a), FlattenSeq(r))
    OBVIOUS
  <2>1. a \in Seq(X) /\ r \in Seq(Y) /\ Len(r) = n + 1
    BY DEF Matches
  <2>2. PICK b \in Seq(X), x \in X : a = Append(b, x) /\ Len(b) = n
    <3> HIDE DEF X
    <3> QED BY ONLY <2>1, n \in Nat, Len(a) = n + 1, EndOf
  <2>3. PICK q \in Seq(Y), y \in Y : r = Append(q, y) /\ Len(q) = n
    <3> HIDE DEF Y
    <3> QED BY ONLY <2>1, n \in Nat, EndOf
  <2>4. \A k \in 1 .. n + 1 : Match(a[k], r[k])
    BY DEF Matches
  <2>5. \A k \in 1 .. n : b[k] = a[k] /\ q[k] = r[k]
    <3> HIDE DEF X, Y
    <3> QED BY ONLY <2>2, <2>3, n \in Nat
  <2>6. a[n + 1] = x /\ r[n + 1] = y
    <3> HIDE DEF X, Y
    <3> QED BY ONLY <2>2, <2>3, n \in Nat
  <2>7. 1 .. n \subseteq 1 .. n + 1 /\ n + 1 \in 1 .. n + 1
    BY ONLY n \in Nat
  <2>8. Matches(b, q)
    BY ONLY <2>2, <2>3, <2>4, <2>5, <2>7 DEF Matches, X, Y
  <2>9. Match(FlattenSeq(b), FlattenSeq(q))
    BY ONLY <1>2, <2>2, <2>8
  <2>10. Match(x, y)
    BY ONLY <2>4, <2>6, <2>7
  <2>11. FlattenSeq(a) = FlattenSeq(b) \o x /\ FlattenSeq(r) = FlattenSeq(q) \o y
    BY <2>2, <2>3, FlatAppend
  <2> QED BY <2>9, <2>10, <2>11, MatchConcat
<1>3. \A n \in Nat : n \in S
  <2> HIDE DEF S
  <2> QED BY <1>1, <1>2, Induction
<1>4. Len(ss) \in Nat
  <2>1. ss \in Seq(X)
    BY DEF Matches
  <2> HIDE DEF X
  <2> QED BY ONLY <2>1
<1> QED BY <1>3, <1>4

LEMMA MatchMarked ==
    ASSUME NEW x, NEW s \in Seq(Word), NEW f \in BOOLEAN
    PROVE  Match(SentMarked(x, s, f), Marked(x, s, f))
<1> DEFINE n == Len(s)
           R(i) == [kind |-> "pulse", dur |-> s[i], rom |-> x.id = "std", first |-> f /\ i = 1]
<1>1. n \in Nat /\ \A i \in 1 .. n : s[i] \in Nat
  <2>1. Len(s) \in Nat /\ \A i \in 1 .. Len(s) : s[i] \in Word
    BY ONLY s \in Seq(Word)
  <2> QED BY ONLY <2>1, WordNat
<1>2. ASSUME NEW i \in 1 .. n  PROVE R(i) \in Item
  <2>1. (x.id = "std") \in BOOLEAN /\ (f /\ i = 1) \in BOOLEAN
    OBVIOUS
  <2>2. s[i] \in Nat
    BY <1>1
  <2> QED BY ONLY <2>1, <2>2 DEF Item
<1>3. Marked(x, s, f) = [i \in 1 .. n |-> R(i)]
  BY DEF Marked
<1>4. SentMarked(x, s, f) = [i \in 1 .. n |-> [dur |-> s[i], rom |-> x.id = "std", first |-> f /\ i = 1]]
  BY DEF SentMarked
<1>5. SentMarked(x, s, f) \in Seq(Sound) /\ Len(SentMarked(x, s, f)) = n
  BY MarkedType
<1>6. Marked(x, s, f) \in Seq(Item) /\ Len(Marked(x, s, f)) = n
  <2> HIDE DEF R, n
  <2> QED BY ONLY <1>1, <1>2, <1>3
<1>7. \A i \in 1 .. n : Replays(SentMarked(x, s, f)[i], Marked(x, s, f)[i])
  BY ONLY <1>3, <1>4 DEF Replays
<1> QED BY ONLY <1>5, <1>6, <1>7 DEF Match

LEMMA MatchSilence ==
    ASSUME NEW x \in Block, x.id \notin Steering
    PROVE  Match(SentSilence(x), Silence(x))
<1> DEFINE u == [dur |-> Wire(PauseLen(x)), rom |-> FALSE, first |-> FALSE]
<1>1. SentSilence(x) \in Seq(Sound) /\ PauseLen(x) \in Nat
  BY PauseType
<1>2. CASE x.id \in {"tone", "pulses"}
  <2>1. PauseLen(x) = 0 /\ Recorded(x) = 0 /\ x.id # "pause"
    BY ONLY <1>2, SMT DEF PauseLen, Recorded
  <2>2. SentSilence(x) = <<>> /\ Silence(x) = <<>>
    BY ONLY <2>1 DEF SentSilence, Silence
  <2> QED BY ONLY <2>2, MatchNone
<1>3. CASE x.id \notin {"tone", "pulses"}
  <2>1. PICK m \in Nat : m = x.ms
    <3>1. x.ms \in Word
      BY <1>3, Fields DEF WithData
    <3> QED BY ONLY <3>1, WordNat
  <2>2. /\ Recorded(x) = m * 3500
        /\ PauseLen(x) = IF x.id = "pause" /\ m = 0 THEN 500 * 3500 ELSE m * 3500
    BY <1>3, <2>1, SMT DEF PauseLen, Recorded, MS
  <2>3. CASE m = 0 /\ x.id # "pause"
    <3>1. PauseLen(x) = 0 /\ Recorded(x) = 0
      BY ONLY <2>2, <2>3
    <3>2. SentSilence(x) = <<>> /\ Silence(x) = <<>>
      BY ONLY <2>3, <3>1 DEF SentSilence, Silence
    <3> QED BY ONLY <3>2, MatchNone
  <2>4. ASSUME NEW v \in Item, Silence(x) = <<v>>, PauseLen(x) # 0, v.rom = FALSE, v.first = FALSE,
               v.kind = "stop" \/ v.dur >= WIRE \/ Wire(PauseLen(x)) = v.dur
        PROVE  Match(SentSilence(x), Silence(x))
    <3>1. SentSilence(x) = <<u>>
      BY ONLY <2>4 DEF SentSilence
    <3>2. Replays(u, v)
      BY ONLY <2>4 DEF Replays
    <3> HIDE DEF u
    <3>3. Silence(x) \in Seq(Item) /\ Len(<<u>>) = 1 /\ Len(<<v>>) = 1 /\ <<u>>[1] = u /\ <<v>>[1] = v
      BY ONLY <2>4
    <3>4. \A i \in 1 .. 1 : i = 1
      OBVIOUS
    <3> QED BY ONLY <1>1, <2>4, <3>1, <3>2, <3>3, <3>4 DEF Match
  <2>5. CASE m = 0 /\ x.id = "pause"
    <3> DEFINE v == [kind |-> "stop", dur |-> 0, rom |-> FALSE, first |-> FALSE]
    <3>1. Recorded(x) = 0 /\ ~(Recorded(x) > 0) /\ PauseLen(x) # 0
      BY ONLY <2>2, <2>5
    <3>2. Silence(x) = <<v>>
      BY ONLY <2>5, <3>1, Zenon DEF Silence
    <3>3. v \in Item
      BY DEF Item
    <3>4. v.rom = FALSE /\ v.first = FALSE /\ v.kind = "stop"
      OBVIOUS
    <3> HIDE DEF v
    <3> QED BY <2>4, <3>1, <3>2, <3>3, <3>4
  <2>6. CASE m # 0
    <3> DEFINE v == [kind |-> "pause", dur |-> Recorded(x), rom |-> FALSE, first |-> FALSE]
    <3>1. Recorded(x) \in Nat /\ Recorded(x) > 0 /\ PauseLen(x) = Recorded(x) /\ PauseLen(x) # 0
      BY ONLY <2>2, <2>6, m \in Nat
    <3>2. Silence(x) = <<v>>
      BY ONLY <3>1, Zenon DEF Silence
    <3>3. v \in Item
      BY <3>1 DEF Item
    <3>4. v.rom = FALSE /\ v.first = FALSE /\ v.dur = Recorded(x)
      OBVIOUS
    <3>5. v.dur >= WIRE \/ Wire(PauseLen(x)) = v.dur
      <4>1. WIRE \in Nat
        BY TapeAssumption
      <4>2. PICK d \in Nat : d = Recorded(x)
        BY <3>1
      <4>3. d < WIRE => d % WIRE = d
        BY ONLY <4>1, d \in Nat, Modulo
      <4> QED BY ONLY <3>1, <3>4, <4>1, <4>2, <4>3 DEF Wire
    <3> HIDE DEF v
    <3> QED BY <2>4, <3>1, <3>2, <3>3, <3>4, <3>5
  <2> QED BY ONLY <2>3, <2>5, <2>6
<1> QED BY ONLY <1>2, <1>3

LEMMA MatchBlock ==
    ASSUME NEW x \in Block, x.id \notin Steering
    PROVE  Match(SentBlock(x), BlockPulses(x))
<1>1. Lengths(x) \in Seq(Word)
  BY LengthsType
<1>2. Match(SentMarked(x, Lengths(x), TRUE), Marked(x, Lengths(x), TRUE))
  BY <1>1, MatchMarked
<1> QED BY <1>2, MatchSilence, MatchConcat DEF SentBlock, BlockPulses

LEMMA MatchPlain == ASSUME NEW t, IsFile(t) PROVE Matches(SentPlain(t), Plain(t))
<1> DEFINE n == Len(Blocks(t))
           Y == Seq(Item)
           P(k) == IF Blocks(t)[k].id \in Steering THEN <<>> ELSE BlockPulses(Blocks(t)[k])
<1>1. n \in Nat /\ Plain(t) = [k \in 1 .. n |-> P(k)]
  BY FileFacts DEF Plain, Steering
<1>2. ASSUME NEW k \in 1 .. n  PROVE Match(SentPlain(t)[k], P(k))
  <2>1. Blocks(t)[k] \in Block
    BY FileFacts
  <2>2. SentPlain(t)[k] = IF Blocks(t)[k].id \in Steering THEN <<>> ELSE SentBlock(Blocks(t)[k])
    BY PlainType
  <2>3. CASE Blocks(t)[k].id \in Steering
    BY <2>2, <2>3, MatchNone
  <2>4. CASE Blocks(t)[k].id \notin Steering
    BY <2>1, <2>2, <2>4, MatchBlock
  <2> QED BY <2>3, <2>4
<1>3. \A k \in 1 .. n : P(k) \in Y
  BY <1>2 DEF Match
<1>4. SentPlain(t) \in Seq(Seq(Sound)) /\ Len(SentPlain(t)) = n
  BY PlainType
<1> HIDE DEF n, Y, P
<1>5. Plain(t) \in Seq(Y) /\ Len(Plain(t)) = n /\ \A k \in 1 .. n : Plain(t)[k] = P(k)
  BY ONLY <1>1, <1>3
<1> QED BY ONLY <1>2, <1>4, <1>5 DEF Matches, Y

LEMMA MatchBody ==
    ASSUME NEW t, IsFile(t), NEW i \in 1 .. Len(Blocks(t)), Blocks(t)[i].id = "loop"
    PROVE  Match(SentBody(t, i), Body(t, i))
<1>1. PICK e \in i + 1 .. Len(Blocks(t)) : e = LoopEnd(t, i)
  BY LoopFacts
<1>2. Len(Blocks(t)) \in Nat
  BY FileFacts
<1> DEFINE X == Seq(Sound)
           Y == Seq(Item)
<1>3. PICK a, r : a = SubSeq(SentPlain(t), i + 1, e - 1) /\ r = SubSeq(Plain(t), i + 1, e - 1)
  OBVIOUS
<1>4. /\ SentPlain(t) \in Seq(X) /\ Plain(t) \in Seq(Y)
      /\ Len(SentPlain(t)) = Len(Blocks(t)) /\ Len(Plain(t)) = Len(Blocks(t))
      /\ \A k \in 1 .. Len(Blocks(t)) : Match(SentPlain(t)[k], Plain(t)[k])
  BY MatchPlain, PlainType DEF Matches
<1>5. PICK n \in Nat, j \in Nat, d \in Nat : n = Len(Blocks(t)) /\ j = i /\ d = e - 1 /\ j <= d /\ d <= n
  <2>1. i \in Nat /\ e - 1 \in Nat /\ i <= e - 1 /\ e - 1 <= Len(Blocks(t))
    BY ONLY <1>2, i \in 1 .. Len(Blocks(t)), e \in i + 1 .. Len(Blocks(t))
  <2> QED BY ONLY <1>2, <2>1
<1> HIDE DEF X, Y
<1>6. PICK f \in Seq(X), g \in Seq(Y) : f = SentPlain(t) /\ g = Plain(t)
  BY <1>4
<1>7. /\ a \in Seq(X) /\ Len(a) = d - j /\ \A k \in 1 .. d - j : a[k] = f[j + k]
  <2>1. a = SubSeq(f, j + 1, d) /\ Len(f) = n
    BY ONLY <1>3, <1>4, <1>5, <1>6
  <2> QED BY ONLY <2>1, <1>5, f \in Seq(X), n \in Nat, j \in Nat, d \in Nat
<1>8. /\ r \in Seq(Y) /\ Len(r) = d - j /\ \A k \in 1 .. d - j : r[k] = g[j + k]
  <2>1. r = SubSeq(g, j + 1, d) /\ Len(g) = n
    BY ONLY <1>3, <1>4, <1>5, <1>6
  <2> QED BY ONLY <2>1, <1>5, g \in Seq(Y), n \in Nat, j \in Nat, d \in Nat
<1>9. ASSUME NEW k \in 1 .. d - j  PROVE Match(a[k], r[k])
  <2>1. j + k \in 1 .. n
    BY ONLY <1>5, n \in Nat, j \in Nat, d \in Nat, k \in 1 .. d - j
  <2> QED BY ONLY <1>4, <1>5, <1>6, <1>7, <1>8, <2>1, k \in 1 .. d - j
<1>10. Matches(a, r)
  BY ONLY <1>7, <1>8, <1>9 DEF Matches, X, Y
<1> QED BY <1>1, <1>3, <1>10, MatchFlat DEF SentBody, Body

LEMMA MatchTimes ==
    ASSUME NEW n \in Nat, NEW a, NEW r, Match(a, r)
    PROVE  Match(Times(n, a), Times(n, r))
<1> DEFINE X == Seq(Sound)
           Y == Seq(Item)
<1>1. a \in X /\ r \in Y
  BY DEF Match
<1>2. Matches([i \in 1 .. n |-> a], [i \in 1 .. n |-> r])
  <2> HIDE DEF X, Y
  <2>1. /\ [i \in 1 .. n |-> a] \in Seq(X) /\ Len([i \in 1 .. n |-> a]) = n
        /\ [i \in 1 .. n |-> r] \in Seq(Y) /\ Len([i \in 1 .. n |-> r]) = n
    BY <1>1, ConstType
  <2> QED BY ONLY <2>1, Match(a, r) DEF Matches, X, Y
<1> QED BY <1>2, MatchFlat DEF Times

LEMMA MatchUnrolled ==
    ASSUME NEW t, IsFile(t)
    PROVE  Match(SentUnrolled(t), Unrolled(t))
<1> DEFINE n == Len(Blocks(t))
           Y == Seq(Item)
           L(k) == IF Blocks(t)[k].times > 1 THEN Times(Blocks(t)[k].times - 1, Body(t, k)) ELSE <<>>
           P(k) == IF Cut(t, k) THEN <<>> ELSE IF Blocks(t)[k].id = "loop" THEN L(k) ELSE Plain(t)[k]
<1>1. n \in Nat /\ Parts(t) = [k \in 1 .. n |-> P(k)]
  BY FileFacts DEF Parts
<1>2. ASSUME NEW k \in 1 .. n  PROVE Match(SentParts(t)[k], P(k))
  <2>1. CASE Cut(t, k)
    BY <2>1, PartsType, MatchNone
  <2>2. CASE ~Cut(t, k) /\ Blocks(t)[k].id = "loop"
    <3>1. PICK m \in Nat : m = Blocks(t)[k].times
      BY <2>2, FileFacts, Fields, WordNat
    <3>2. SentParts(t)[k] = IF m > 1 THEN Times(m - 1, SentBody(t, k)) ELSE <<>>
      BY <2>2, <3>1, PartsType
    <3>3. P(k) = IF m > 1 THEN Times(m - 1, Body(t, k)) ELSE <<>>
      BY ONLY <2>2, <3>1
    <3>4. CASE m > 1
      <4>1. m - 1 \in Nat
        BY ONLY <3>4, m \in Nat
      <4>2. Match(Times(m - 1, SentBody(t, k)), Times(m - 1, Body(t, k)))
        BY <2>2, <4>1, MatchBody, MatchTimes
      <4> QED BY ONLY <3>2, <3>3, <3>4, <4>2
    <3>5. CASE ~(m > 1)
      BY ONLY <3>2, <3>3, <3>5, MatchNone
    <3> QED BY ONLY <3>4, <3>5
  <2>3. CASE ~Cut(t, k) /\ Blocks(t)[k].id # "loop"
    <3>1. SentParts(t)[k] = SentPlain(t)[k]
      BY <2>3, PartsType
    <3>2. Match(SentPlain(t)[k], Plain(t)[k])
      <4>1. Len(SentPlain(t)) = n
        BY PlainType
      <4>2. k \in 1 .. Len(SentPlain(t))
        BY ONLY <4>1, k \in 1 .. n
      <4> QED BY <4>2, MatchPlain DEF Matches
    <3> QED BY ONLY <2>3, <3>1, <3>2
  <2> QED BY ONLY <2>1, <2>2, <2>3
<1>3. \A k \in 1 .. n : P(k) \in Y
  BY <1>2 DEF Match
<1>4. SentParts(t) \in Seq(Seq(Sound)) /\ Len(SentParts(t)) = n
  BY PartsType
<1> HIDE DEF n, Y, P
<1>5. Parts(t) \in Seq(Y) /\ Len(Parts(t)) = n /\ \A k \in 1 .. n : Parts(t)[k] = P(k)
  BY ONLY <1>1, <1>3
<1>6. Matches(SentParts(t), Parts(t))
  BY ONLY <1>2, <1>4, <1>5 DEF Matches, Y
<1> QED BY <1>6, MatchFlat DEF SentUnrolled, Unrolled

\* A beginning of what is sent is heard as a beginning of the tape.
Begun(s, a) == Len(a) <= Len(s) /\ a = SubSeq(s, 1, Len(a))
LEMMA BegunBegins ==
    ASSUME NEW t \in DOMAIN Tapes, NEW a \in Seq(Pulse), Begun(Sent(t), a)
    PROVE  Begins(a, t) /\ (Len(a) = Len(Sent(t)) => Len(a) = Len(Recording[t]))
<1>1. Len(a) \in Nat
  OBVIOUS
<1>2. CASE Listed(t)
  <2>1. Recording[t] = Sent(t)
    BY <1>2 DEF Recording, Sent
  <2>2. Len(a) <= Len(Sent(t)) /\ a = SubSeq(Sent(t), 1, Len(a))
    BY ONLY Begun(Sent(t), a) DEF Begun
  <2> QED BY ONLY <1>2, <2>1, <2>2 DEF Begins
<1>3. CASE ~Listed(t)
  <2>1. PICK r : r = Unrolled(t) /\ r = Recording[t]
    BY <1>3 DEF Recording
  <2>2. Match(SentUnrolled(t), r)
    BY <1>3, <2>1, MatchUnrolled DEF IsFile
  <2>3. PICK s \in Seq(Sound) : s = SentUnrolled(t) /\ Match(s, r)
    BY ONLY <2>2 DEF Match
  <2>4. PICK n \in Nat : n = Len(s) /\ n = Len(r)
    <3>1. Len(s) \in Nat
      BY ONLY s \in Seq(Sound)
    <3> QED BY ONLY <2>3, <3>1 DEF Match
  <2>5. PICK w : w = Sent(t) /\ w = Levelled(s, 0)
    BY ONLY <1>3, <2>3 DEF Sent
  <2>6. w = [i \in 1 .. n |-> [dur |-> s[i].dur, lvl |-> (0 + i - 1) % 2, rom |-> s[i].rom, first |-> s[i].first]]
    BY ONLY <2>4, <2>5 DEF Levelled
  <2>7. Len(w) = n /\ w \in Seq(Pulse)
    <3>1. Levelled(s, 0) \in Seq(Pulse) /\ Len(Levelled(s, 0)) = Len(s)
      BY LevelledType
    <3> QED BY ONLY <2>4, <2>5, <3>1
  <2>8. PICK m \in Nat : m = Len(a) /\ m <= n
    BY ONLY <1>1, <2>5, <2>7, Begun(Sent(t), a) DEF Begun
  <2>9. \A i \in 1 .. m : a[i] = w[i] /\ i \in 1 .. n
    <3>1. a = SubSeq(w, 1, m)
      BY ONLY <2>5, <2>8, Begun(Sent(t), a) DEF Begun
    <3> QED BY ONLY <2>7, <2>8, <3>1, n \in Nat, m \in Nat
  <2>10. \A i \in 1 .. m : /\ a[i].dur = s[i].dur /\ a[i].rom = s[i].rom /\ a[i].first = s[i].first
                           /\ a[i].lvl = (i - 1) % 2
    <3> SUFFICES ASSUME NEW i \in 1 .. m
                 PROVE  /\ a[i].dur = s[i].dur /\ a[i].rom = s[i].rom /\ a[i].first = s[i].first
                        /\ a[i].lvl = (i - 1) % 2
      OBVIOUS
    <3>1. a[i] = [dur |-> s[i].dur, lvl |-> (0 + i - 1) % 2, rom |-> s[i].rom, first |-> s[i].first]
      BY ONLY <2>6, <2>9, i \in 1 .. m
    <3>2. 0 + i - 1 = i - 1
      BY ONLY m \in Nat, i \in 1 .. m
    <3> QED BY ONLY <3>1, <3>2
  <2>11. \A i \in 1 .. m : Replays(a[i], r[i])
    <3>1. \A i \in 1 .. n : Replays(s[i], r[i])
      BY ONLY <2>3, <2>4 DEF Match
    <3> QED BY ONLY <2>9, <2>10, <3>1 DEF Replays
  <2>12. \A i \in 2 .. m : a[i].lvl # a[i - 1].lvl
    <3> SUFFICES ASSUME NEW i \in 2 .. m PROVE a[i].lvl # a[i - 1].lvl
      OBVIOUS
    <3>1. i \in 1 .. m /\ i - 1 \in 1 .. m
      BY ONLY m \in Nat, i \in 2 .. m
    <3>2. a[i].lvl = (i - 1) % 2 /\ a[i - 1].lvl = ((i - 1) - 1) % 2
      BY ONLY <2>10, <3>1
    <3>3. (i - 1) % 2 # ((i - 1) - 1) % 2
      BY ONLY m \in Nat, i \in 2 .. m
    <3> QED BY ONLY <3>2, <3>3
  <2>13. Begins(a, t)
    BY ONLY <1>3, <2>1, <2>4, <2>8, <2>11, <2>12 DEF Begins
  <2> QED BY ONLY <2>1, <2>4, <2>5, <2>7, <2>13
<1> QED BY <1>2, <1>3

\* What is heard is the stream's beginning, and all of it with what the FIFO
\* holds once nothing else is to come.
LEMMA StreamHeard ==
    ASSUME NEW X, NEW a \in Seq(X), NEW b \in Seq(X), NEW c \in Seq(X), NEW d \in Seq(X)
    PROVE  /\ Begun(Stream(a, b, c, d), a)
           /\ c = <<>> /\ d = <<>> => Stream(a, b, c, d) = a \o b
<1>1. PICK m \in Seq(X) : m = c \o d
  <2>1. c \o d \in Seq(X)
    BY ONLY c \in Seq(X), d \in Seq(X)
  <2> QED BY <2>1
<1>2. PICK n \in Seq(X) : n = b \o m
  <2>1. b \o m \in Seq(X)
    BY ONLY b \in Seq(X), m \in Seq(X)
  <2> QED BY <2>1
<1>3. Stream(a, b, c, d) = a \o n
  BY ONLY <1>1, <1>2 DEF Stream
<1>4. Begun(a \o n, a)
  <2>1. Len(a) <= Len(a \o n) /\ a = SubSeq(a \o n, 1, Len(a))
    BY ONLY a \in Seq(X), n \in Seq(X)
  <2> QED BY ONLY <2>1 DEF Begun
<1>5. c = <<>> /\ d = <<>> => n = b
  BY ONLY <1>1, <1>2, m \in Seq(X), b \in Seq(X), c \in Seq(X), d \in Seq(X), ConcatEmpty
<1> QED BY ONLY <1>3, <1>4, <1>5

\* The beginning of a file.
LEMMA FileBegins ==
    ASSUME NEW t \in DOMAIN Tapes
    PROVE  /\ NoSeg \in Segments
           /\ Listed(t) => Follows(t, NoSeg) /\ Coming(t, NoSeg, 0) = Sent(t)
           /\ ~Listed(t) => WalkingOf(t, NoSeg) /\ Levelled(RestOf(t, NoSeg), 0) = Sent(t)
<1>1. NoSeg \in Segments /\ NoSeg.ptr = 1 /\ NoSeg.cnt = 0 /\ NoSeg.start = 1
  BY ONLY DEF NoSeg, Segments
<1>2. ASSUME Listed(t)  PROVE Follows(t, NoSeg) /\ Coming(t, NoSeg, 0) = Sent(t)
  <2>1. PICK y \in Seq(Pulse) : y = Tapes[t].pulses
    BY <1>2, ListFacts
  <2>2. 1 \in 1 .. Len(y) + 1 /\ Slice(y, 1, Len(y)) = y
    BY ONLY y \in Seq(Pulse) DEF Slice
  <2> QED BY ONLY <1>1, <1>2, <2>1, <2>2 DEF Follows, Coming, Sent
<1>3. ASSUME ~Listed(t)  PROVE WalkingOf(t, NoSeg) /\ Levelled(RestOf(t, NoSeg), 0) = Sent(t)
  <2>1. Rest(t, 1, 0, 1) = SentUnrolled(t) /\ Walking(t, 1, 0, 1)
    BY <1>3, PartsWhole DEF IsFile
  <2> QED BY ONLY <1>1, <1>3, <2>1 DEF WalkingOf, RestOf, Sent
<1> QED BY <1>1, <1>2, <1>3

\* The part of the FIFO behind the pulses of the tape before.
Behind(s, k) == SubSeq(s, k + 1, Len(s))
LEMMA BehindFacts ==
    ASSUME NEW X, NEW s \in Seq(X), NEW k \in Nat, k <= Len(s)
    PROVE  /\ Behind(s, k) \in Seq(X) /\ Behind(s, 0) = s /\ Behind(s, Len(s)) = <<>>
           /\ s = <<>> => Behind(s, k) = <<>>
           /\ k > 0 => /\ s # <<>> /\ Tail(s) \in Seq(X) /\ Len(Tail(s)) = Len(s) - 1
                       /\ Behind(Tail(s), k - 1) = Behind(s, k)
<1>1. Behind(s, k) \in Seq(X)
  BY ONLY s \in Seq(X), k \in Nat, k <= Len(s) DEF Behind
<1>2. Behind(s, 0) = s /\ Behind(s, Len(s)) = <<>>
  BY ONLY s \in Seq(X) DEF Behind
<1>3. s = <<>> => Behind(s, k) = <<>>
  BY ONLY k \in Nat DEF Behind
<1>4. ASSUME k > 0
      PROVE  /\ s # <<>> /\ Tail(s) \in Seq(X) /\ Len(Tail(s)) = Len(s) - 1
             /\ Behind(Tail(s), k - 1) = Behind(s, k)
  <2>1. s # <<>>
    BY ONLY <1>4, s \in Seq(X), k \in Nat, k <= Len(s)
  <2>2. PICK n \in Nat : n = Len(s)
    BY ONLY s \in Seq(X)
  <2>3. PICK q \in Seq(X) : q = Tail(s) /\ Len(q) = n - 1 /\ \A i \in 1 .. n - 1 : q[i] = s[i + 1]
    <3>1. Tail(s) \in Seq(X) /\ Len(Tail(s)) = n - 1 /\ \A i \in 1 .. n - 1 : Tail(s)[i] = s[i + 1]
      BY ONLY s \in Seq(X), <2>1, <2>2
    <3> QED BY <3>1
  <2>4. PICK a \in Seq(X) : /\ a = Behind(q, k - 1) /\ Len(a) = n - k
                            /\ \A i \in 1 .. n - k : a[i] = q[k - 1 + i]
    <3>1. SubSeq(q, (k - 1) + 1, n - 1) \in Seq(X) /\ Len(SubSeq(q, (k - 1) + 1, n - 1)) = n - k
          /\ \A i \in 1 .. n - k : SubSeq(q, (k - 1) + 1, n - 1)[i] = q[k - 1 + i]
      BY ONLY <1>4, <2>2, <2>3, k \in Nat, k <= Len(s), q \in Seq(X), n \in Nat
    <3> QED BY ONLY <2>3, <3>1 DEF Behind
  <2>5. PICK b \in Seq(X) : /\ b = Behind(s, k) /\ Len(b) = n - k
                            /\ \A i \in 1 .. n - k : b[i] = s[k + i]
    <3>1. SubSeq(s, k + 1, n) \in Seq(X) /\ Len(SubSeq(s, k + 1, n)) = n - k
          /\ \A i \in 1 .. n - k : SubSeq(s, k + 1, n)[i] = s[k + i]
      BY ONLY <2>2, k \in Nat, k <= Len(s), s \in Seq(X), n \in Nat
    <3> QED BY ONLY <2>2, <3>1 DEF Behind
  <2>6. \A i \in 1 .. n - k : a[i] = b[i]
    <3> SUFFICES ASSUME NEW i \in 1 .. n - k PROVE a[i] = b[i]
      OBVIOUS
    <3>1. k - 1 + i \in 1 .. n - 1 /\ (k - 1 + i) + 1 = k + i
      BY ONLY <1>4, <2>2, k \in Nat, n \in Nat, k <= Len(s), i \in 1 .. n - k
    <3> QED BY ONLY <2>3, <2>4, <2>5, <3>1, i \in 1 .. n - k
  <2>7. a = b
    BY ONLY <2>4, <2>5, <2>6, a \in Seq(X), b \in Seq(X)
  <2> QED BY ONLY <2>1, <2>2, <2>3, <2>4, <2>5, <2>7
<1> QED BY <1>1, <1>2, <1>3, <1>4

LEMMA BehindMore ==
    ASSUME NEW X, NEW s \in Seq(X), NEW r \in Seq(X), NEW k \in Nat, k <= Len(s)
    PROVE  Behind(s \o r, k) = Behind(s, k) \o r /\ k <= Len(s \o r)
<1>1. PICK m \in Nat, n \in Nat : m = Len(s) /\ n = Len(r) /\ k <= m
  BY ONLY s \in Seq(X), r \in Seq(X), k <= Len(s)
<1>2. PICK w \in Seq(X) : /\ w = s \o r /\ Len(w) = m + n
                          /\ \A i \in 1 .. m : w[i] = s[i]
                          /\ \A j \in 1 .. n : w[m + j] = r[j]
  <2>1. s \o r \in Seq(X) /\ Len(s \o r) = m + n
    BY ONLY <1>1, s \in Seq(X), r \in Seq(X)
  <2>2. \A i \in 1 .. m : (s \o r)[i] = s[i]
    BY ONLY <1>1, s \in Seq(X), r \in Seq(X)
  <2>3. \A j \in 1 .. n : (s \o r)[m + j] = r[j]
    BY ONLY <1>1, s \in Seq(X), r \in Seq(X)
  <2> QED BY ONLY <2>1, <2>2, <2>3
<1>3. PICK b \in Seq(X) : b = Behind(s, k) /\ Len(b) = m - k /\ \A i \in 1 .. m - k : b[i] = s[k + i]
  <2>1. SubSeq(s, k + 1, m) \in Seq(X) /\ Len(SubSeq(s, k + 1, m)) = m - k
        /\ \A i \in 1 .. m - k : SubSeq(s, k + 1, m)[i] = s[k + i]
    BY ONLY <1>1, k \in Nat, m \in Nat, s \in Seq(X)
  <2> QED BY ONLY <1>1, <2>1 DEF Behind
<1>4. PICK v \in Seq(X) : /\ v = Behind(w, k) /\ Len(v) = m + n - k
                          /\ \A i \in 1 .. m + n - k : v[i] = w[k + i]
  <2>1. SubSeq(w, k + 1, m + n) \in Seq(X) /\ Len(SubSeq(w, k + 1, m + n)) = m + n - k
        /\ \A i \in 1 .. m + n - k : SubSeq(w, k + 1, m + n)[i] = w[k + i]
    BY ONLY <1>1, <1>2, k \in Nat, m \in Nat, n \in Nat, w \in Seq(X)
  <2> QED BY ONLY <1>2, <2>1 DEF Behind
<1>5. PICK u \in Seq(X) : u = b \o r /\ Len(u) = m + n - k
  <2>1. b \o r \in Seq(X) /\ Len(b \o r) = Len(b) + Len(r)
    BY ONLY b \in Seq(X), r \in Seq(X)
  <2>2. (m - k) + n = m + n - k
    BY ONLY k \in Nat, m \in Nat, n \in Nat
  <2>3. Len(b \o r) = m + n - k
    BY ONLY <1>1, <1>3, <2>1, <2>2
  <2> QED BY ONLY <2>1, <2>3
<1>6. ASSUME NEW i \in 1 .. m + n - k PROVE v[i] = u[i]
  <2>1. CASE i <= m - k
    <3>1. i \in 1 .. m - k /\ k + i \in 1 .. m
      BY ONLY <1>1, <2>1, k \in Nat, m \in Nat, n \in Nat, i \in 1 .. m + n - k
    <3>2. u[i] = b[i]
      BY ONLY <1>3, <1>5, <3>1, b \in Seq(X), r \in Seq(X)
    <3> QED BY ONLY <1>2, <1>3, <1>4, <3>1, <3>2, i \in 1 .. m + n - k
  <2>2. CASE i > m - k
    <3>1. PICK j \in 1 .. n : j = i - (m - k) /\ k + i = m + j
      <4>1. i - (m - k) \in 1 .. n /\ k + i = m + (i - (m - k))
        BY ONLY <1>1, <2>2, k \in Nat, m \in Nat, n \in Nat, i \in 1 .. m + n - k
      <4> QED BY <4>1
    <3>2. u[i] = r[j]
      <4>1. i > Len(b) /\ i - Len(b) = j /\ i \in 1 .. Len(b) + Len(r)
        BY ONLY <1>1, <1>3, <2>2, <3>1, k \in Nat, m \in Nat, n \in Nat, i \in 1 .. m + n - k
      <4>2. u[i] = r[i - Len(b)]
        BY ONLY <1>5, <4>1, b \in Seq(X), r \in Seq(X)
      <4> QED BY ONLY <4>1, <4>2
    <3>3. v[i] = r[j]
      <4>1. v[i] = w[k + i]
        BY ONLY <1>4, i \in 1 .. m + n - k
      <4>2. w[m + j] = r[j]
        BY ONLY <1>2, j \in 1 .. n, Zenon
      <4> QED BY ONLY <3>1, <4>1, <4>2
    <3> QED BY ONLY <3>2, <3>3
  <2>3. i \in Int /\ m - k \in Int
    BY ONLY k \in Nat, m \in Nat, n \in Nat, i \in 1 .. m + n - k
  <2> QED BY ONLY <2>1, <2>2, <2>3
<1>7. v = u
  <2>1. PICK e \in Nat : e = m + n - k
    <3>1. k <= m
      BY ONLY <1>1
    <3>2. m + n - k \in Nat
      BY ONLY <3>1, k \in Nat, m \in Nat, n \in Nat
    <3> QED BY ONLY <3>2
  <2>2. Len(v) = e /\ Len(u) = e /\ \A i \in 1 .. e : v[i] = u[i]
    BY ONLY <1>4, <1>5, <1>6, <2>1
  <2> QED BY ONLY <2>2, v \in Seq(X), u \in Seq(X), SMTT(30)
<1>8. k <= m + n
  BY ONLY <1>1, k \in Nat, m \in Nat, n \in Nat
<1> QED BY ONLY <1>2, <1>3, <1>4, <1>5, <1>7, <1>8

-----------------------------------------------------------------------------
(* The inductive invariant. *)
Queued == Behind(fifo, stale)

Types ==
    /\ at \in {"top", "starting", "decide", "fed"} /\ tape \in DOMAIN Tapes /\ lvl \in {0, 1}
    /\ drain \in BOOLEAN /\ run \in BOOLEAN /\ on \in BOOLEAN
    /\ heard \in Seq(Pulse) /\ fifo \in Seq(Pulse) /\ ring \in Seq(Pulse) /\ lost \in Seq(Pulse)
    /\ Len(fifo) <= FIFO /\ stale \in Nat /\ stale <= Len(fifo)
    /\ fate \in {"none", "loading", "mute", "stopped", "ended"}

\* Once started a tape is on exactly while the player runs; one that starts has
\* nothing loaded yet.
Control ==
    /\ at # "starting" => /\ feed = run /\ on = run
                          /\ run => fate \in {"loading", "mute"}
    /\ at = "starting" => on /\ fate = "none" /\ lvl = 0 /\ seg = NoSeg
    /\ fate = "loading" => run
    /\ at \in {"decide", "fed"} => drain

\* Heard, queued and still to come make up what is sent.
Flow ==
    fate = "loading" =>
      /\ Follows(tape, seg)
      /\ Stream(heard, Queued, ring, Coming(tape, seg, lvl)) = Sent(tape)
      /\ drain => Coming(tape, seg, lvl) = <<>>

\* A tape that found its player draining makes no pulse and only the old ones play.
Silent ==
    fate = "mute" =>
      heard = <<>> /\ ring = <<>> /\ ~primed /\ stale = Len(fifo) /\ (on => drain)

Over ==
    /\ fate \in {"ended", "stopped"} => Begun(Sent(tape), heard)
    /\ fate = "ended" => heard \o lost = Sent(tape) /\ (lost # <<>> => late)

IInv == Types /\ Control /\ Flow /\ Silent /\ Over

LEMMA TapeInit == Init => IInv
<1> SUFFICES ASSUME Init PROVE IInv
  OBVIOUS
<1>1. FIFO \in Nat
  BY TapeAssumption
<1>2. Types
  <2>1. <<>> \in Seq(Pulse) /\ Len(<<>>) <= FIFO /\ Len(<<>>) = 0 /\ 0 <= Len(<<>>)
    BY ONLY <1>1
  <2> QED BY ONLY <2>1, Init DEF Init, Types
<1>3. Control
  BY ONLY Init DEF Init, Control
<1>4. Flow /\ Silent /\ Over
  BY ONLY Init DEF Init, Flow, Silent, Over
<1> QED BY ONLY <1>2, <1>3, <1>4 DEF IInv

LEMMA QueuedType == ASSUME IInv PROVE Queued \in Seq(Pulse)
<1>1. fifo \in Seq(Pulse) /\ stale \in Nat /\ stale <= Len(fifo)
  BY DEF IInv, Types
<1> QED BY ONLY <1>1, BehindFacts DEF Queued

\* While it loads: the parts of the stream.
LEMMA Loading ==
    ASSUME IInv, fate = "loading"
    PROVE  /\ heard \in Seq(Pulse) /\ Queued \in Seq(Pulse) /\ ring \in Seq(Pulse)
           /\ Coming(tape, seg, lvl) \in Seq(Pulse)
           /\ Stream(heard, Queued, ring, Coming(tape, seg, lvl)) = Sent(tape)
           /\ drain => Coming(tape, seg, lvl) = <<>>
           /\ Follows(tape, seg) /\ tape \in DOMAIN Tapes /\ lvl \in {0, 1}
<1>1. /\ Follows(tape, seg) /\ Stream(heard, Queued, ring, Coming(tape, seg, lvl)) = Sent(tape)
      /\ drain => Coming(tape, seg, lvl) = <<>>
  BY ONLY IInv, fate = "loading" DEF IInv, Flow
<1>2. heard \in Seq(Pulse) /\ ring \in Seq(Pulse) /\ tape \in DOMAIN Tapes /\ lvl \in {0, 1}
  BY ONLY IInv DEF IInv, Types
<1>3. Coming(tape, seg, lvl) \in Seq(Pulse)
  BY <1>1, <1>2, ComingType
<1>4. Queued \in Seq(Pulse)
  BY QueuedType
<1> QED BY ONLY <1>1, <1>2, <1>3, <1>4

\* The steps that neither move a pulse nor start or stop the tape; while one is
\* on its clock may do what it likes.
Still == UNCHANGED <<tape, seg, lvl, drain, run, feed, on, ring, primed, fifo, heard, stale, lost, fate>>
Turns == at # "starting" /\ at' \in {"top", "decide", "fed"} /\ (at' \in {"decide", "fed"} => drain)
Clocked == late' = late \/ on \/ late' = TRUE
LEMMA Keeps ==
    ASSUME IInv, Still, at' = at \/ Turns, Clocked
    PROVE  IInv'
<1>1. Types'
  BY ONLY IInv, Still, at' = at \/ Turns DEF IInv, Types, Still, Turns
<1>2. Control'
  BY ONLY IInv, Still, at' = at \/ Turns DEF IInv, Types, Control, Still, Turns
<1>3. Flow' /\ Silent'
  BY ONLY IInv, Still DEF IInv, Flow, Silent, Still, Queued
<1>4. Over'
  <2>1. on => fate # "ended"
    BY ONLY IInv DEF IInv, Types, Control
  <2> QED BY ONLY <2>1, IInv, Still, Clocked DEF IInv, Over, Still, Clocked
<1> QED BY ONLY <1>1, <1>2, <1>3, <1>4 DEF IInv

LEMMA PauseKeeps == ASSUME IInv, Pause PROVE IInv'
<1>1. Still /\ at' = at /\ Clocked
  BY DEF Pause, Still, Clocked, producer, feeder, fabric, timer, ghosts
<1> QED BY <1>1, Keeps

LEMMA ResumeKeeps == ASSUME IInv, Resume PROVE IInv'
<1>1. Still /\ at' = at /\ Clocked
  BY DEF Resume, Still, Clocked, producer, feeder, fabric, timer, ghosts
<1> QED BY <1>1, Keeps

LEMMA FallKeeps == ASSUME IInv, Fall PROVE IInv'
<1>1. Still /\ at' = at /\ Clocked
  BY DEF Fall, Still, Clocked, producer, feeder, timer, ghosts
<1> QED BY <1>1, Keeps

LEMMA TimePassesKeeps == ASSUME IInv, TimePasses PROVE IInv'
<1>1. Still /\ at' = at /\ Clocked
  BY DEF TimePasses, Still, Clocked, producer, feeder, fabric, ghosts
<1> QED BY <1>1, Keeps

LEMMA DrainLookKeeps == ASSUME IInv, DrainLook PROVE IInv'
<1>1. Still /\ Turns /\ Clocked
  BY DEF DrainLook, Pumping, Still, Turns, Clocked, producer, feeder, fabric, ghosts
<1> QED BY <1>1, Keeps

LEMMA EmptyTypes == <<>> \in Seq(Pulse) /\ Len(<<>>) <= FIFO /\ Len(<<>>) = 0 /\ 0 <= Len(<<>>)
<1>1. FIFO \in Nat
  BY TapeAssumption
<1> QED BY ONLY <1>1

LEMMA DiscardKeeps == ASSUME IInv, Discard PROVE IInv'
<1>1. /\ UNCHANGED <<tape, seg, lvl, drain, run, feed, on, ring, primed, heard, lost, fate, at, late>>
      /\ fifo' = <<>> /\ stale' = 0 /\ ~run
  BY DEF Discard, producer, feeder, timer
<1>2. Types'
  BY ONLY <1>1, EmptyTypes, IInv DEF IInv, Types
<1>3. Control' /\ Over'
  BY ONLY <1>1, IInv DEF IInv, Control, Over
<1>4. Flow' /\ Silent'
  <2>1. fate # "loading" /\ Len(<<>>) = 0
    BY ONLY <1>1, IInv, EmptyTypes DEF IInv, Control
  <2> QED BY ONLY <1>1, <2>1, IInv DEF IInv, Flow, Silent
<1> QED BY ONLY <1>2, <1>3, <1>4 DEF IInv

LEMMA PlayKeeps == ASSUME IInv, Play PROVE IInv'
<1>1. /\ UNCHANGED <<tape, seg, lvl, drain, run, feed, on, ring, primed, lost, fate, at, late>>
      /\ fifo' = Tail(fifo) /\ run /\ fifo # <<>>
      /\ IF stale > 0 THEN stale' = stale - 1 /\ UNCHANGED heard
                      ELSE heard' = Append(heard, Head(fifo)) /\ UNCHANGED stale
  BY DEF Play, producer, feeder
<1>2. /\ heard \in Seq(Pulse) /\ fifo \in Seq(Pulse) /\ ring \in Seq(Pulse)
      /\ stale \in Nat /\ stale <= Len(fifo) /\ Len(fifo) <= FIFO /\ FIFO \in Nat
  BY TapeAssumption DEF IInv, Types
<1>3. fate \in {"loading", "mute", "none"}
  BY ONLY <1>1, IInv DEF IInv, Types, Control
<1>4. PICK n \in Nat : n = Len(fifo)
  BY ONLY <1>2
<1>5. Tail(fifo) \in Seq(Pulse) /\ Len(Tail(fifo)) = n - 1 /\ n > 0
  BY ONLY <1>1, <1>2, <1>4
<1>6. CASE stale > 0
  <2>1. stale' = stale - 1 /\ heard' = heard
    BY ONLY <1>1, <1>6
  <2>2. Types'
    <3>1. Len(fifo') <= FIFO /\ stale' \in Nat /\ stale' <= Len(fifo') /\ fifo' \in Seq(Pulse)
      BY ONLY <1>1, <1>2, <1>4, <1>5, <1>6, <2>1
    <3> QED BY ONLY <1>1, <2>1, <3>1, IInv DEF IInv, Types
  <2>3. Queued' = Queued
    BY ONLY <1>1, <1>2, <1>6, <2>1, BehindFacts DEF Queued
  <2>4. Flow' /\ Control' /\ Over'
    BY ONLY <1>1, <2>1, <2>3, IInv DEF IInv, Flow, Control, Over
  <2>5. Silent'
    <3>1. stale = Len(fifo) => stale' = Len(fifo')
      BY ONLY <1>1, <1>2, <1>4, <1>5, <2>1
    <3> QED BY ONLY <1>1, <2>1, <3>1, IInv DEF IInv, Silent
  <2> QED BY ONLY <2>2, <2>4, <2>5 DEF IInv
<1>7. CASE ~(stale > 0)
  <2>1. stale = 0 /\ stale' = 0 /\ heard' = Append(heard, Head(fifo))
    BY ONLY <1>1, <1>2, <1>7
  <2>2. Queued = fifo /\ Queued' = fifo'
    <3>1. Behind(fifo, 0) = fifo /\ Behind(Tail(fifo), 0) = Tail(fifo)
      BY ONLY <1>2, <1>5 DEF Behind
    <3> QED BY ONLY <1>1, <2>1, <3>1 DEF Queued
  <2>3. heard' \in Seq(Pulse)
    BY ONLY <1>1, <1>2, <2>1
  <2>4. Types'
    <3>1. Len(fifo') <= FIFO /\ stale' \in Nat /\ stale' <= Len(fifo') /\ fifo' \in Seq(Pulse)
      BY ONLY <1>1, <1>2, <1>4, <1>5, <2>1
    <3> QED BY ONLY <1>1, <2>3, <3>1, IInv DEF IInv, Types
  <2>5. Control'
    BY ONLY <1>1, IInv DEF IInv, Control
  <2>6. fate # "mute"
    BY ONLY <1>4, <1>5, <2>1, IInv DEF IInv, Silent
  <2>7. Silent' /\ Over'
    BY ONLY <1>1, <1>3, <2>6 DEF Silent, Over
  <2>8. CASE fate = "loading"
    <3>1. PICK d \in Seq(Pulse) : d = Coming(tape, seg, lvl) /\ d = Coming(tape, seg, lvl)'
      <4>1. Coming(tape, seg, lvl) \in Seq(Pulse) /\ Coming(tape, seg, lvl)' = Coming(tape, seg, lvl)
        BY <1>1, <2>8, Loading
      <4> QED BY ONLY <4>1
    <3>2. Stream(heard', fifo', ring', d) = Stream(heard, fifo, ring, d)
      <4>1. Stream(Append(heard, Head(fifo)), Tail(fifo), ring, d) = Stream(heard, fifo, ring, d)
        BY ONLY <1>1, <1>2, d \in Seq(Pulse), StreamPlayed
      <4> QED BY ONLY <1>1, <2>1, <4>1
    <3> QED BY ONLY <1>1, <2>2, <2>4, <2>5, <2>7, <2>8, <3>1, <3>2, IInv DEF IInv, Flow
  <2>9. CASE fate # "loading"
    BY ONLY <1>1, <2>4, <2>5, <2>7, <2>9 DEF IInv, Flow
  <2> QED BY ONLY <2>8, <2>9
<1> QED BY ONLY <1>6, <1>7

\* The producing steps.
LEMMA ProduceKeeps == ASSUME IInv, Produce PROVE IInv'
<1>1. /\ UNCHANGED <<tape, at, on, run, feed, primed, fifo, heard, stale, lost, fate>>
      /\ at = "top" /\ on /\ ~drain
  BY ONLY Produce
     DEF Produce, Pilot, SyncPulse, DataPulse, ListedPulse, Gap, Copy, unproduced, fabric, ghosts,
         Producing, Pumping
<1>2. fate = "loading"
  BY ONLY <1>1, IInv DEF IInv, Control, Silent, Types
<1>3. PICK t \in DOMAIN Tapes : t = tape /\ t = tape'
  BY <1>1, <1>2, Loading
<1>4. Queued' = Queued
  BY ONLY <1>1 DEF Queued
<1>5. /\ Follows(t, seg) /\ lvl \in {0, 1} /\ heard \in Seq(Pulse) /\ Queued \in Seq(Pulse)
      /\ ring \in Seq(Pulse) /\ drain \in BOOLEAN
      /\ Stream(heard, Queued, ring, Coming(t, seg, lvl)) = Sent(t)
  <2>1. drain \in BOOLEAN
    BY ONLY IInv DEF IInv, Types
  <2> QED BY <1>2, <1>3, <2>1, Loading
<1>6. Delivers(t)
  BY <1>3, <1>5, Produces
<1>7. /\ drain' \in BOOLEAN /\ (drain' => Coming(t, seg', lvl') = <<>>)
      /\ lvl' \in {0, 1} /\ Follows(t, seg') /\ ring' \in Seq(Pulse)
      /\ Stream(heard, Queued, ring', Coming(t, seg', lvl')) = Sent(t)
  <2>1. CASE Produced(t)
    <3>1. PICK p \in Pulse :
            /\ ring' = Append(ring, p) /\ lvl' \in {0, 1} /\ Follows(t, seg')
            /\ Coming(t, seg', lvl') \in Seq(Pulse)
            /\ Coming(t, seg, lvl) = <<p>> \o Coming(t, seg', lvl')
      BY ONLY <2>1 DEF Produced
    <3>2. PICK e \in Seq(Pulse) : e = Coming(t, seg', lvl')
      BY ONLY <3>1
    <3>3. Stream(heard, Queued, Append(ring, p), e) = Stream(heard, Queued, ring, <<p>> \o e)
      BY ONLY <1>5, p \in Pulse, e \in Seq(Pulse), StreamProduced
    <3>4. Append(ring, p) \in Seq(Pulse)
      BY ONLY <1>5, p \in Pulse
    <3> QED BY ONLY <1>5, <1>6, <3>1, <3>2, <3>3, <3>4 DEF Delivers
  <2>2. CASE Unproduced(t)
    BY ONLY <1>5, <1>6, <2>2 DEF Delivers, Unproduced
  <2> QED BY ONLY <1>6, <2>1, <2>2 DEF Delivers
<1>8. Types'
  BY ONLY <1>1, <1>7, IInv DEF IInv, Types
<1>9. Control'
  BY ONLY <1>1, <1>2, IInv DEF IInv, Control
<1>10. Flow'
  BY ONLY <1>1, <1>3, <1>4, <1>7 DEF Flow
<1>11. Silent' /\ Over'
  BY ONLY <1>1, <1>2 DEF Silent, Over
<1> QED BY ONLY <1>8, <1>9, <1>10, <1>11 DEF IInv

LEMMA StreamBegins ==
    ASSUME NEW X, NEW d \in Seq(X)
    PROVE  Stream(<<>>, <<>>, <<>>, d) = d
<1>1. <<>> \o d = d
  OBVIOUS
<1> QED BY ONLY <1>1 DEF Stream

\* The interrupt.  What it moves is at most the FIFO's free room.
LEMMA Fed ==
    ASSUME IInv, NEW k, k = (IF Len(ring) < FIFO - Len(fifo) THEN Len(ring) ELSE FIFO - Len(fifo)),
           NEW s, s = SubSeq(ring, 1, k)
    PROVE  /\ s \in Seq(Pulse) /\ k \in 0 .. Len(ring) /\ Behind(fifo \o s, stale) = Queued \o s
           /\ fifo \o s \in Seq(Pulse) /\ Len(fifo \o s) <= FIFO /\ stale <= Len(fifo \o s)
<1>1. /\ ring \in Seq(Pulse) /\ fifo \in Seq(Pulse) /\ Len(fifo) <= FIFO /\ FIFO \in Nat
      /\ stale \in Nat /\ stale <= Len(fifo)
  BY TapeAssumption DEF IInv, Types
<1>2. PICK n \in Nat, m \in Nat : n = Len(ring) /\ m = Len(fifo) /\ m <= FIFO
  BY ONLY <1>1
<1>3. k \in 0 .. n /\ m + k <= FIFO
  BY ONLY <1>1, <1>2, n \in Nat, m \in Nat, k = (IF Len(ring) < FIFO - Len(fifo) THEN Len(ring) ELSE FIFO - Len(fifo))
<1>4. s \in Seq(Pulse) /\ Len(s) = k
  BY ONLY <1>1, <1>2, <1>3, s = SubSeq(ring, 1, k)
<1>5. fifo \o s \in Seq(Pulse) /\ Len(fifo \o s) <= FIFO
  <2>1. PICK f \in Seq(Pulse) : f = fifo /\ Len(f) = m
    BY ONLY <1>1, <1>2
  <2>2. f \o s \in Seq(Pulse) /\ Len(f \o s) = m + k
    BY ONLY <2>1, <1>4, f \in Seq(Pulse), SMTT(30)
  <2> QED BY ONLY <1>3, <2>1, <2>2
<1>6. Behind(fifo \o s, stale) = Behind(fifo, stale) \o s /\ stale <= Len(fifo \o s)
  BY ONLY <1>1, <1>4, BehindMore
<1> QED BY ONLY <1>2, <1>3, <1>4, <1>5, <1>6 DEF Queued

LEMMA FeedKeeps == ASSUME IInv, Feed PROVE IInv'
<1>1. PICK k, s, r :
        /\ k = (IF Len(ring) < FIFO - Len(fifo) THEN Len(ring) ELSE FIFO - Len(fifo))
        /\ s = SubSeq(ring, 1, k) /\ r = SubSeq(ring, k + 1, Len(ring))
        /\ feed /\ at # "fed" /\ at' = (IF at = "decide" THEN "fed" ELSE at)
        /\ fifo' = fifo \o s /\ ring' = r /\ Cushioned
        /\ UNCHANGED <<tape, seg, lvl, on, drain, feed, late, run, heard, stale, lost, fate>>
  BY DEF Feed, producer, ghosts
<1>2. /\ s \in Seq(Pulse) /\ k \in 0 .. Len(ring) /\ Behind(fifo \o s, stale) = Queued \o s
      /\ fifo \o s \in Seq(Pulse) /\ Len(fifo \o s) <= FIFO /\ stale <= Len(fifo \o s)
  BY <1>1, Fed
<1>3. ring \in Seq(Pulse)
  BY DEF IInv, Types
<1>4. r \in Seq(Pulse)
  BY ONLY <1>1, <1>2, <1>3
<1>5. Types'
  BY ONLY <1>1, <1>2, <1>4, IInv DEF IInv, Types
<1>6. Control'
  BY ONLY <1>1, IInv DEF IInv, Control
<1>7. fate # "mute"
  BY ONLY <1>1, IInv DEF IInv, Silent, Cushioned
<1>8. fate \in {"loading", "none"}
  BY ONLY <1>1, <1>7, IInv DEF IInv, Types, Control
<1>9. Silent' /\ Over'
  BY ONLY <1>1, <1>8 DEF Silent, Over
<1>10. CASE fate = "loading"
  <2>1. PICK d \in Seq(Pulse) : d = Coming(tape, seg, lvl) /\ d = Coming(tape, seg, lvl)'
    <3>1. Coming(tape, seg, lvl) \in Seq(Pulse) /\ Coming(tape, seg, lvl)' = Coming(tape, seg, lvl)
      BY <1>1, <1>10, Loading
    <3> QED BY ONLY <3>1
  <2>2. PICK q \in Seq(Pulse), c \in Seq(Pulse) : q = Queued /\ c = ring
    BY <1>10, Loading
  <2>3. k \in 0 .. Len(c) /\ Split(c, k, s, r)
    BY ONLY <1>1, <1>2, <2>2 DEF Split
  <2>4. Stream(heard, q \o s, r, d) = Stream(heard, q, c, d)
    BY ONLY <2>3, q \in Seq(Pulse), c \in Seq(Pulse), d \in Seq(Pulse), StreamFed
  <2>5. Queued' = q \o s
    BY ONLY <1>1, <1>2, <2>2 DEF Queued
  <2> QED BY ONLY <1>1, <1>5, <1>6, <1>9, <2>1, <2>2, <2>4, <2>5, <1>10, IInv DEF IInv, Flow
<1>11. CASE fate # "loading"
  BY ONLY <1>1, <1>5, <1>6, <1>9, <1>11 DEF IInv, Flow
<1> QED BY ONLY <1>10, <1>11

LEMMA SentSame == ASSUME UNCHANGED tape PROVE Sent(tape)' = Sent(tape)
  BY DEF Sent, Listed, SentUnrolled, SentParts, Cut, Blocks, SentPlain

\* The main loop's verdict on a draining tape.
LEMMA DrainDecideKeeps == ASSUME IInv, DrainDecide PROVE IInv'
<1>1. /\ at \in {"decide", "fed"} /\ at' = "top"
      /\ UNCHANGED <<tape, seg, lvl, ring, primed, late, fifo, heard, stale>>
      /\ IF Drained \/ Stuck
         THEN /\ feed' = FALSE /\ run' = FALSE /\ on' = FALSE /\ drain' = FALSE
              /\ IF fate = "loading" THEN fate' = "ended" /\ lost' = Queued ELSE UNCHANGED <<fate, lost>>
         ELSE UNCHANGED <<feed, run, on, drain, fate, lost>>
  BY DEF DrainDecide, Released, producer, timer, Own, Queued, Behind
<1>2. drain
  BY ONLY <1>1, IInv DEF IInv, Control
<1>3. CASE (Drained \/ Stuck) /\ fate = "loading"
  <2>1. /\ feed' = FALSE /\ run' = FALSE /\ on' = FALSE /\ drain' = FALSE /\ fate' = "ended"
        /\ lost' = Queued
    BY ONLY <1>1, <1>3
  <2>2. PICK s : s = Stream(heard, Queued, ring, Coming(tape, seg, lvl)) /\ s = Sent(tape)
    BY <1>3, Loading
  <2>3. /\ heard \in Seq(Pulse) /\ Queued \in Seq(Pulse) /\ ring \in Seq(Pulse)
        /\ Coming(tape, seg, lvl) \in Seq(Pulse) /\ Coming(tape, seg, lvl) = <<>>
    BY <1>2, <1>3, Loading
  <2>4. ring = <<>>
    BY ONLY <1>3 DEF Drained, Stuck
  <2>5. Begun(s, heard) /\ heard \o Queued = s
    <3>1. /\ Begun(Stream(heard, Queued, ring, Coming(tape, seg, lvl)), heard)
          /\ ring = <<>> /\ Coming(tape, seg, lvl) = <<>>
               => Stream(heard, Queued, ring, Coming(tape, seg, lvl)) = heard \o Queued
      BY ONLY <2>3, StreamHeard, ZenonT(40)
    <3> QED BY ONLY <2>2, <2>3, <2>4, <3>1
  <2>6. Queued # <<>> => late
    <3> SUFFICES ASSUME ~late PROVE Queued = <<>>
      OBVIOUS
    <3>1. fifo = <<>>
      BY ONLY <1>3, ~late DEF Drained, Stuck
    <3>2. fifo \in Seq(Pulse) /\ stale \in Nat /\ stale <= Len(fifo)
      BY DEF IInv, Types
    <3> QED BY ONLY <3>1, <3>2, BehindFacts DEF Queued
  <2>7. Types'
    BY ONLY <1>1, <2>1, <2>3, IInv DEF IInv, Types
  <2>8. Control' /\ Flow' /\ Silent'
    BY ONLY <1>1, <2>1 DEF Control, Flow, Silent
  <2>9. Over'
    <3>1. Sent(tape)' = s
      BY <1>1, <2>2, SentSame
    <3> QED BY ONLY <1>1, <2>1, <2>5, <2>6, <3>1 DEF Over
  <2> QED BY ONLY <2>7, <2>8, <2>9 DEF IInv
<1>4. CASE (Drained \/ Stuck) /\ fate # "loading"
  <2>1. /\ feed' = FALSE /\ run' = FALSE /\ on' = FALSE /\ drain' = FALSE /\ UNCHANGED <<fate, lost>>
    BY ONLY <1>1, <1>4
  <2>2. Types'
    BY ONLY <1>1, <2>1, IInv DEF IInv, Types
  <2>3. Control'
    BY ONLY <1>1, <1>4, <2>1 DEF Control
  <2>4. Flow' /\ Silent'
    BY ONLY <1>1, <1>4, <2>1, IInv DEF IInv, Flow, Silent
  <2>5. Over'
    <3>1. Sent(tape)' = Sent(tape)
      BY <1>1, SentSame
    <3> QED BY ONLY <1>1, <2>1, <3>1, IInv DEF IInv, Over
  <2> QED BY ONLY <2>2, <2>3, <2>4, <2>5 DEF IInv
<1>5. CASE ~(Drained \/ Stuck)
  <2>1. UNCHANGED <<feed, run, on, drain, fate, lost>>
    BY ONLY <1>1, <1>5
  <2>2. Still /\ Turns /\ Clocked
    BY ONLY <1>1, <2>1 DEF Still, Turns, Clocked
  <2> QED BY <2>2, Keeps
<1> QED BY ONLY <1>3, <1>4, <1>5

LEMMA StopKeeps == ASSUME IInv, tape_stop PROVE IInv'
<1>1. /\ UNCHANGED <<at, tape, lvl, fifo, heard, stale, lost>>
      /\ ring' = <<>> /\ fate' = "stopped" /\ at = "top" /\ on
      /\ feed' = FALSE /\ run' = FALSE /\ on' = FALSE /\ drain' = FALSE
  BY DEF tape_stop, Released
<1>2. fate \in {"loading", "mute"} /\ heard \in Seq(Pulse) /\ tape \in DOMAIN Tapes
  BY ONLY <1>1, IInv DEF IInv, Control, Types
<1>3. PICK s : s = Sent(tape) /\ s \in Seq(Pulse)
  BY <1>2, SentType
<1>4. Begun(s, heard)
  <2>1. CASE fate = "loading"
    <3>1. /\ heard \in Seq(Pulse) /\ Queued \in Seq(Pulse) /\ ring \in Seq(Pulse)
          /\ Coming(tape, seg, lvl) \in Seq(Pulse)
      BY <2>1, Loading
    <3>2. Begun(Stream(heard, Queued, ring, Coming(tape, seg, lvl)), heard)
      BY ONLY <3>1, StreamHeard
    <3>3. s = Stream(heard, Queued, ring, Coming(tape, seg, lvl))
      BY <1>3, <2>1, Loading
    <3> QED BY ONLY <3>2, <3>3
  <2>2. CASE fate = "mute"
    <3>1. heard = <<>>
      BY ONLY <2>2, IInv DEF IInv, Silent
    <3>2. Len(<<>>) <= Len(s) /\ <<>> = SubSeq(s, 1, Len(<<>>))
      BY ONLY <1>3
    <3> QED BY ONLY <3>1, <3>2 DEF Begun
  <2> QED BY ONLY <1>2, <2>1, <2>2
<1>5. Types'
  BY ONLY <1>1, EmptyTypes, IInv DEF IInv, Types
<1>6. Control' /\ Flow' /\ Silent'
  BY ONLY <1>1 DEF Control, Flow, Silent
<1>7. Over'
  <2>1. Sent(tape)' = s
    BY <1>1, <1>3, SentSame
  <2> QED BY ONLY <1>1, <1>4, <2>1 DEF Over
<1> QED BY ONLY <1>5, <1>6, <1>7 DEF IInv

\* Whether or not a tape plays.
LEMMA StartKeeps == ASSUME IInv, NEW t \in DOMAIN Tapes, Start(t) PROVE IInv'
<1>1. /\ at = "top" /\ at' = "starting" /\ tape' = t /\ seg' = NoSeg /\ lvl' = 0
      /\ on' = TRUE /\ fate' = "none" /\ UNCHANGED <<run, fifo, heard, stale, lost>>
      /\ drain' \in {drain, FALSE} /\ ring' \in {ring, <<>>}
  BY DEF Start, fabric
<1>2. Types'
  <2>1. <<>> \in Seq(Pulse)
    OBVIOUS
  <2> QED BY ONLY <1>1, <2>1, t \in DOMAIN Tapes, IInv DEF IInv, Types
<1>3. Control'
  BY ONLY <1>1 DEF Control
<1>4. Flow' /\ Silent' /\ Over'
  BY ONLY <1>1 DEF Flow, Silent, Over
<1> QED BY ONLY <1>2, <1>3, <1>4 DEF IInv

LEMMA ArmedKeeps == ASSUME IInv, Armed PROVE IInv'
<1>1. /\ at = "starting" /\ at' = "top" /\ tape' = tape
      /\ ring' = <<>> /\ feed' = TRUE /\ primed' = FALSE /\ run' = TRUE /\ heard' = <<>>
      /\ stale' = Len(fifo) /\ lost' = <<>> /\ fate' = (IF drain THEN "mute" ELSE "loading")
      /\ lvl' = lvl /\ on' = on /\ fifo' = fifo
      /\ IF Listed(tape) THEN UNCHANGED <<seg, drain>> ELSE tape_load_seg(seg)
  BY DEF Armed, FreshRing
<1>2. lvl = 0 /\ seg = NoSeg /\ on /\ fifo \in Seq(Pulse) /\ drain \in BOOLEAN /\ on \in BOOLEAN
  BY ONLY <1>1, IInv DEF IInv, Types, Control
<1>3. PICK t \in DOMAIN Tapes : t = tape /\ t = tape'
  BY ONLY <1>1, IInv DEF IInv, Types
<1>4. PICK n \in Nat : n = Len(fifo)
  BY ONLY <1>2
<1>5. Queued' = <<>>
  BY ONLY <1>1, <1>2, BehindFacts DEF Queued, Behind
<1>6. drain' \in BOOLEAN /\ (drain => drain')
  BY ONLY <1>1, <1>2 DEF tape_load_seg
<1>7. Types'
  BY ONLY <1>1, <1>2, <1>4, <1>6, EmptyTypes, IInv DEF IInv, Types
<1>8. Control'
  BY ONLY <1>1, <1>2 DEF Control
<1>9. Silent' /\ Over'
  BY ONLY <1>1, <1>6 DEF Silent, Over
<1>10. CASE ~drain
  <2>1. /\ Follows(t, seg') /\ Coming(t, seg', 0) = Sent(t) /\ drain' \in BOOLEAN
        /\ drain' => Coming(t, seg', 0) = <<>>
    <3>1. CASE Listed(t)
      <4>1. seg' = NoSeg /\ drain' = FALSE
        BY ONLY <1>1, <1>2, <1>3, <1>10, <3>1
      <4>2. Follows(t, NoSeg) /\ Coming(t, NoSeg, 0) = Sent(t)
        BY <3>1, FileBegins
      <4> QED BY ONLY <4>1, <4>2
    <3>2. CASE ~Listed(t)
      <4>1. NoSeg \in Segments /\ WalkingOf(t, NoSeg) /\ Levelled(RestOf(t, NoSeg), 0) = Sent(t)
        BY <3>2, FileBegins
      <4>2. tape_load_seg(NoSeg) /\ tape' = tape /\ 0 \in {0, 1} /\ drain = FALSE
        BY ONLY <1>1, <1>2, <1>3, <1>10, <3>2
      <4>3. /\ Follows(t, seg') /\ Coming(t, seg', 0) = Levelled(RestOf(t, NoSeg), 0)
            /\ drain' \in BOOLEAN /\ (drain' => Coming(t, seg', 0) = <<>>)
        BY <1>2, <1>3, <3>2, <4>1, <4>2, LoadFollows
      <4> QED BY ONLY <4>1, <4>3
    <3> QED BY ONLY <3>1, <3>2
  <2>2. Flow'
    <3>1. PICK d \in Seq(Pulse) : d = Sent(t)
      BY SentType
    <3>2. Stream(<<>>, <<>>, <<>>, d) = d
      BY ONLY d \in Seq(Pulse), StreamBegins
    <3> QED BY ONLY <1>1, <1>2, <1>3, <1>5, <2>1, <3>1, <3>2 DEF Flow
  <2> QED BY ONLY <1>7, <1>8, <1>9, <2>2 DEF IInv
<1>11. CASE drain
  <2>1. Flow'
    BY ONLY <1>1, <1>11 DEF Flow
  <2> QED BY ONLY <1>7, <1>8, <1>9, <2>1 DEF IInv
<1> QED BY ONLY <1>10, <1>11

LEMMA TapeStep == ASSUME IInv, [Next]_vars PROVE IInv'
<1>1. CASE Produce
  BY <1>1, ProduceKeeps
<1>2. CASE DrainLook
  BY <1>2, DrainLookKeeps
<1>3. CASE DrainDecide
  BY <1>3, DrainDecideKeeps
<1>4. CASE Feed
  BY <1>4, FeedKeeps
<1>5. CASE Play
  BY <1>5, PlayKeeps
<1>6. CASE Fall
  BY <1>6, FallKeeps
<1>7. CASE Discard
  BY <1>7, DiscardKeeps
<1>8. CASE Armed
  BY <1>8, ArmedKeeps
<1>9. CASE Resume
  BY <1>9, ResumeKeeps
<1>10. CASE TimePasses
  BY <1>10, TimePassesKeeps
<1>11. CASE \E t \in DOMAIN Tapes : Start(t)
  BY <1>11, StartKeeps
<1>12. CASE tape_stop
  BY <1>12, StopKeeps
<1>13. CASE Pause
  BY <1>13, PauseKeeps
<1>14. CASE UNCHANGED vars
  <2>1. Still /\ at' = at /\ Clocked
    BY <1>14 DEF vars, Still, Clocked, producer, feeder, fabric, timer, ghosts
  <2> QED BY <2>1, Keeps
<1> QED BY <1>1, <1>2, <1>3, <1>4, <1>5, <1>6, <1>7, <1>8, <1>9, <1>10, <1>11, <1>12, <1>13, <1>14
        DEF Next, Fabric, User

\* The invariant's parts hold in every state, of a tape started over another too.
THEOREM TapeInvariant == Spec => []IInv
<1>1. Init => IInv
  BY TapeInit
<1>2. IInv /\ [Next]_vars => IInv'
  BY TapeStep
<1> QED BY <1>1, <1>2, PTL DEF Spec

\* What has been heard of a tape is a beginning of what is sent.
LEMMA HeardBegun == ASSUME IInv, fate \in {"loading", "mute", "ended", "stopped"}
                    PROVE  Begun(Sent(tape), heard)
<1>1. tape \in DOMAIN Tapes
  BY DEF IInv, Types
<1>2. CASE fate = "loading"
  <2>1. /\ heard \in Seq(Pulse) /\ Queued \in Seq(Pulse) /\ ring \in Seq(Pulse)
        /\ Coming(tape, seg, lvl) \in Seq(Pulse)
    BY <1>2, Loading
  <2>2. PICK s : s = Stream(heard, Queued, ring, Coming(tape, seg, lvl)) /\ s = Sent(tape)
    BY <1>2, Loading
  <2>3. Begun(Stream(heard, Queued, ring, Coming(tape, seg, lvl)), heard)
    BY ONLY <2>1, StreamHeard
  <2> QED BY ONLY <2>2, <2>3
<1>3. CASE fate \in {"ended", "stopped"}
  BY ONLY <1>3, IInv DEF IInv, Over
<1>4. CASE fate = "mute"
  <2>1. heard = <<>>
    BY ONLY <1>4, IInv DEF IInv, Silent
  <2>2. PICK s \in Seq(Pulse) : s = Sent(tape)
    BY <1>1, SentType
  <2>3. Len(<<>>) <= Len(s) /\ <<>> = SubSeq(s, 1, Len(<<>>))
    BY ONLY s \in Seq(Pulse)
  <2> QED BY ONLY <2>1, <2>2, <2>3 DEF Begun
<1> QED BY <1>2, <1>3, <1>4

\* HeardRight (what the machine hears is the recording from its beginning)
\* for every file, every size of ring and FIFO, and tapes started over others.
THEOREM HeardRightAlways == Spec => []HeardRight
<1>1. IInv => HeardRight
  <2> SUFFICES ASSUME IInv, fate # "none" PROVE Begins(heard, tape)
    BY DEF HeardRight
  <2>1. /\ heard \in Seq(Pulse) /\ tape \in DOMAIN Tapes
        /\ fate \in {"loading", "mute", "stopped", "ended"}
    BY DEF IInv, Types
  <2>2. Begun(Sent(tape), heard)
    BY <2>1, HeardBegun
  <2> QED BY ONLY <2>1, <2>2, BegunBegins
<1> QED BY <1>1, TapeInvariant, PTL

\* EndsWhole (a tape that ends by itself was heard to its last pulse, but for what
\* the player held when three seconds had passed without a delivery), without any
\* condition on pauses, loaders that do not ask, or tapes started over it.
THEOREM EndsWholeAlways == Spec => []EndsWhole
<1>1. IInv => EndsWhole
  <2> SUFFICES ASSUME IInv, fate = "ended"
      PROVE  /\ Begins(heard \o lost, tape) /\ Len(heard \o lost) = Len(Recording[tape])
             /\ lost # <<>> => late
    BY DEF EndsWhole
  <2>1. heard \o lost = Sent(tape) /\ (lost # <<>> => late) /\ tape \in DOMAIN Tapes
    BY DEF IInv, Over, Types
  <2>2. PICK s \in Seq(Pulse) : s = Sent(tape) /\ s = heard \o lost
    BY <2>1, SentType
  <2>3. Begun(s, s)
    <3>1. Len(s) <= Len(s) /\ s = SubSeq(s, 1, Len(s))
      BY ONLY s \in Seq(Pulse)
    <3> QED BY ONLY <3>1 DEF Begun
  <2>4. Begins(s, tape) /\ Len(s) = Len(Recording[tape])
    BY ONLY <2>1, <2>2, <2>3, BegunBegins
  <2> QED BY ONLY <2>1, <2>2, <2>4
<1> QED BY <1>1, TapeInvariant, PTL

-----------------------------------------------------------------------------
(* Sums. *)
Sums(g, s) ==
    /\ g \in [0 .. Len(s) -> Nat] /\ g[0] = 0
    /\ \A k \in 1 .. Len(s) : g[k] = g[k - 1] + s[k]

LEMMA SumDef ==
    ASSUME NEW s \in Seq(Nat)
    PROVE  \E g : Sums(g, s) /\ SumOf(s) = g[Len(s)]
<1> DEFINE n == Len(s)
           D == [k \in 1 .. n |-> [x \in Nat |-> x + s[k]]]
           Is(g) == g = [k \in 0 .. Len(s) |-> IF k = 0 THEN 0 ELSE g[k - 1] + s[k]]
<1>1. n \in Nat /\ \A k \in 1 .. n : s[k] \in Nat
  OBVIOUS
<1>2. D \in [1 .. n -> [Nat -> Nat]]
  <2> SUFFICES ASSUME NEW k \in 1 .. n, NEW x \in Nat  PROVE x + s[k] \in Nat
    OBVIOUS
  <2> QED BY <1>1
<1>3. PICK g : Goes(g, n, Nat, 0, D)
  BY <1>1, <1>2, Recursion
<1>4. /\ g \in [0 .. n -> Nat] /\ g[0] = 0
      /\ \A k \in 1 .. n : g[k] = D[k][g[k - 1]]
  BY <1>3 DEF Goes
<1>5. ASSUME NEW k \in 1 .. n  PROVE g[k] = g[k - 1] + s[k]
  <2>0. k - 1 \in 0 .. n
    BY ONLY <1>1, k \in 1 .. n
  <2>1. g[k - 1] \in Nat
    BY ONLY <1>4, <2>0
  <2>2. g[k] = D[k][g[k - 1]] /\ D[k] = [x \in Nat |-> x + s[k]]
    BY <1>4
  <2> QED BY ONLY <2>1, <2>2
<1>6. Is(g)
  <2> DEFINE h == [k \in 0 .. n |-> IF k = 0 THEN 0 ELSE g[k - 1] + s[k]]
  <2>1. ASSUME NEW k \in 0 .. n  PROVE g[k] = h[k]
    <3>1. CASE k = 0
      BY <1>4, <3>1
    <3>2. CASE k # 0
      <4>1. k \in 1 .. n
        BY <1>1, <3>2
      <4> QED BY <1>5, <3>2, <4>1
    <3> QED BY <3>1, <3>2
  <2> HIDE DEF D
  <2>2. g = [k \in 0 .. n |-> g[k]]
    BY <1>4
  <2>3. h = [k \in 0 .. n |-> h[k]]
    OBVIOUS
  <2> QED BY <2>1, <2>2, <2>3
<1> DEFINE c == CHOOSE f : Is(f)
<1>7. Is(c)
  BY <1>6
<1>8. SumOf(s) = c[n]
  BY DEF SumOf
<1> HIDE DEF c, D
<1>9. c[0] = 0 /\ \A k \in 1 .. n : c[k] = c[k - 1] + s[k]
  <2>1. ASSUME NEW k \in 0 .. n  PROVE c[k] = IF k = 0 THEN 0 ELSE c[k - 1] + s[k]
    BY <1>7
  <2>2. 0 \in 0 .. n /\ \A k \in 1 .. n : k \in 0 .. n /\ k # 0
    BY <1>1
  <2> QED BY <2>1, <2>2
<1>10. \A k \in 0 .. n : c[k] \in Nat
  <2> DEFINE S == {k \in Nat : k <= n => c[k] \in Nat}
  <2>1. 0 \in S
    BY <1>9
  <2>2. ASSUME NEW k \in Nat, k \in S  PROVE k + 1 \in S
    <3> SUFFICES ASSUME k + 1 <= n PROVE c[k + 1] \in Nat
      OBVIOUS
    <3>1. c[k] \in Nat /\ k + 1 \in 1 .. n /\ (k + 1) - 1 = k
      BY <1>1, <2>2
    <3> QED BY <1>1, <1>9, <3>1
  <2> HIDE DEF S
  <2>3. \A k \in Nat : k \in S
    BY <2>1, <2>2, Induction
  <2> QED BY <1>1, <2>3 DEF S
<1>11. Sums(c, s)
  <2>1. c \in [0 .. n -> Nat]
    BY <1>7, <1>10
  <2> QED BY <1>9, <2>1 DEF Sums
<1> QED BY <1>8, <1>11

LEMMA SumNat ==
    ASSUME NEW s \in Seq(Nat)
    PROVE  SumOf(s) \in Nat /\ (s = <<>> => SumOf(s) = 0)
<1>1. PICK g : Sums(g, s) /\ SumOf(s) = g[Len(s)]
  BY SumDef
<1>2. Len(s) \in Nat /\ (s = <<>> => Len(s) = 0)
  OBVIOUS
<1> QED BY ONLY <1>1, <1>2 DEF Sums

LEMMA SumNext ==
    ASSUME NEW s \in Seq(Nat), NEW x \in Nat
    PROVE  SumOf(Append(s, x)) = SumOf(s) + x
<1> DEFINE n == Len(s)
<1>1. PICK r \in Seq(Nat) : r = Append(s, x) /\ Len(r) = n + 1 /\ r[n + 1] = x
                            /\ \A k \in 1 .. n : r[k] = s[k]
  <2>1. /\ Append(s, x) \in Seq(Nat) /\ Len(Append(s, x)) = n + 1 /\ Append(s, x)[n + 1] = x
        /\ \A k \in 1 .. n : Append(s, x)[k] = s[k]
    OBVIOUS
  <2> QED BY <2>1
<1>2. n \in Nat
  OBVIOUS
<1>3. PICK g : Sums(g, s) /\ SumOf(s) = g[n]
  BY SumDef
<1>4. PICK h : Sums(h, r) /\ SumOf(r) = h[n + 1]
  BY <1>1, SumDef
<1>5. \A k \in Nat : k <= n => h[k] = g[k]
  <2> DEFINE S == {k \in Nat : k <= n => h[k] = g[k]}
  <2>1. 0 \in S
    BY <1>3, <1>4 DEF Sums
  <2>2. ASSUME NEW k \in Nat, k \in S  PROVE k + 1 \in S
    <3> SUFFICES ASSUME k + 1 <= n PROVE h[k + 1] = g[k + 1]
      OBVIOUS
    <3>1. h[k] = g[k] /\ k + 1 \in 1 .. n /\ k + 1 \in 1 .. n + 1 /\ (k + 1) - 1 = k
      BY <1>2, <2>2
    <3>2. g[k + 1] = g[k] + s[k + 1]
      BY ONLY <1>3, <3>1 DEF Sums
    <3>3. h[k + 1] = h[k] + r[k + 1]
      BY ONLY <1>1, <1>4, <3>1 DEF Sums
    <3> QED BY ONLY <1>1, <3>1, <3>2, <3>3
  <2> HIDE DEF S
  <2>3. \A k \in Nat : k \in S
    BY <2>1, <2>2, Induction
  <2> QED BY <2>3 DEF S
<1>6. h[n + 1] = h[n] + x
  <2>1. n + 1 \in 1 .. n + 1 /\ (n + 1) - 1 = n
    BY <1>2
  <2> QED BY ONLY <1>1, <1>4, <2>1 DEF Sums
<1> QED BY ONLY <1>1, <1>2, <1>3, <1>4, <1>5, <1>6

LEMMA SumConcat ==
    ASSUME NEW a \in Seq(Nat), NEW b \in Seq(Nat)
    PROVE  SumOf(a \o b) = SumOf(a) + SumOf(b)
<1> DEFINE S == {n \in Nat : \A c \in Seq(Nat) : Len(c) = n => SumOf(a \o c) = SumOf(a) + SumOf(c)}
<1>1. 0 \in S
  <2> SUFFICES ASSUME NEW c \in Seq(Nat), Len(c) = 0  PROVE SumOf(a \o c) = SumOf(a) + SumOf(c)
    OBVIOUS
  <2>1. c = <<>> /\ a \o c = a
    OBVIOUS
  <2>2. SumOf(c) = 0 /\ SumOf(a) \in Nat
    BY <2>1, SumNat
  <2> QED BY ONLY <2>1, <2>2
<1>2. ASSUME NEW n \in Nat, n \in S  PROVE n + 1 \in S
  <2> SUFFICES ASSUME NEW c \in Seq(Nat), Len(c) = n + 1  PROVE SumOf(a \o c) = SumOf(a) + SumOf(c)
    OBVIOUS
  <2>1. PICK r \in Seq(Nat), x \in Nat : c = Append(r, x) /\ Len(r) = n
    BY EndOf
  <2>2. a \o c = Append(a \o r, x) /\ a \o r \in Seq(Nat)
    BY <2>1, SMTT(30)
  <2>3. SumOf(a \o r) = SumOf(a) + SumOf(r)
    BY <1>2, <2>1
  <2>4. SumOf(Append(a \o r, x)) = SumOf(a \o r) + x /\ SumOf(Append(r, x)) = SumOf(r) + x
    BY <2>2, SumNext
  <2>5. SumOf(a) \in Nat /\ SumOf(r) \in Nat
    BY SumNat
  <2> QED BY ONLY <2>1, <2>2, <2>3, <2>4, <2>5, x \in Nat
<1> HIDE DEF S
<1>3. Len(b) \in S
  <2>1. \A n \in Nat : n \in S
    BY <1>1, <1>2, Induction
  <2>2. Len(b) \in Nat
    OBVIOUS
  <2> QED BY <2>1, <2>2
<1> QED BY <1>3 DEF S

\* A pulse as often as it is said, and two equal halves for each bit.
LEMMA SumRun ==
    ASSUME NEW d \in Nat, NEW n \in Nat
    PROVE  SumOf(Run(n, d)) = n * d
<1> DEFINE S == {m \in Nat : SumOf(Run(m, d)) = m * d}
<1>1. 0 \in S
  <2>1. Run(0, d) \in Seq(Nat) /\ Run(0, d) = <<>>
    BY DEF Run
  <2>2. SumOf(Run(0, d)) = 0 /\ 0 * d = 0
    BY <2>1, SumNat
  <2> QED BY <2>2
<1>2. ASSUME NEW m \in Nat, m \in S  PROVE m + 1 \in S
  <2>1. Run(m, d) \in Seq(Nat) /\ Run(m + 1, d) = Append(Run(m, d), d)
    BY DEF Run
  <2>2. SumOf(Append(Run(m, d), d)) = SumOf(Run(m, d)) + d
    BY <2>1, SumNext
  <2>3. (m + 1) * d = m * d + d
    OBVIOUS
  <2>4. SumOf(Run(m, d)) = m * d
    BY <1>2
  <2>5. SumOf(Run(m + 1, d)) = (m + 1) * d
    BY ONLY <2>1, <2>2, <2>3, <2>4
  <2> QED BY <2>5
<1> HIDE DEF S
<1>3. n \in S
  BY <1>1, <1>2, Induction
<1> QED BY <1>3 DEF S

Halves(f, n) == [k \in 1 .. 2 * n |-> f[(k + 1) \div 2]]
Wholes(f, n) == [k \in 1 .. n |-> 2 * f[k]]
LEMMA SumHalves ==
    ASSUME NEW e \in Nat, NEW f \in [1 .. e -> Nat], NEW n \in 0 .. e
    PROVE  SumOf(Halves(f, n)) = SumOf(Wholes(f, n)) /\ Halves(f, n) \in Seq(Nat) /\ Wholes(f, n) \in Seq(Nat)
<1> DEFINE Good(m) == /\ SumOf(Halves(f, m)) = SumOf(Wholes(f, m))
                      /\ Halves(f, m) \in Seq(Nat) /\ Wholes(f, m) \in Seq(Nat)
           S == {m \in Nat : m <= e => Good(m)}
<1>1. 0 \in S
  <2>1. Halves(f, 0) = <<>> /\ Wholes(f, 0) = <<>>
    BY DEF Halves, Wholes
  <2>2. <<>> \in Seq(Nat)
    OBVIOUS
  <2> QED BY <2>1, <2>2
<1>2. ASSUME NEW m \in Nat, m \in S  PROVE m + 1 \in S
  <2> SUFFICES ASSUME m + 1 <= e PROVE Good(m + 1)
    OBVIOUS
  <2>1. Good(m)
    BY <1>2
  <2>2. PICK x \in Nat : x = f[m + 1]
    <3>1. m + 1 \in 1 .. e
      OBVIOUS
    <3> QED BY <3>1
  <2>3. Wholes(f, m + 1) = Append(Wholes(f, m), 2 * x)
    BY ONLY <2>2, m \in Nat DEF Wholes
  <2>4. Halves(f, m + 1) = Append(Append(Halves(f, m), x), x)
    <3> DEFINE h == Halves(f, m)
               q == Append(Append(h, x), x)
               w == Halves(f, m + 1)
    <3>1. Len(h) = 2 * m /\ h \in Seq(Nat) /\ \A k \in 1 .. 2 * m : h[k] = f[(k + 1) \div 2]
      BY <2>1 DEF Halves
    <3>2. /\ Len(w) = 2 * m + 2 /\ DOMAIN w = 1 .. 2 * m + 2
          /\ \A k \in 1 .. 2 * m + 2 : w[k] = f[(k + 1) \div 2]
      <4>1. 2 * (m + 1) = 2 * m + 2
        OBVIOUS
      <4> QED BY <4>1 DEF Halves
    <3> HIDE DEF h, w
    <3>3. /\ q \in Seq(Nat) /\ Len(q) = 2 * m + 2 /\ q[2 * m + 1] = x /\ q[2 * m + 2] = x
          /\ \A k \in 1 .. 2 * m : q[k] = h[k]
      BY ONLY <3>1, m \in Nat, x \in Nat
    <3>4. (2 * m + 1 + 1) \div 2 = m + 1 /\ (2 * m + 2 + 1) \div 2 = m + 1
      BY ONLY m \in Nat
    <3>5. ASSUME NEW k \in 1 .. 2 * m + 2  PROVE q[k] = w[k]
      <4>0. w[k] = f[(k + 1) \div 2]
        BY ONLY <3>2, k \in 1 .. 2 * m + 2
      <4>1. CASE k <= 2 * m
        <5>1. k \in 1 .. 2 * m
          BY ONLY <4>1, k \in 1 .. 2 * m + 2, m \in Nat
        <5> QED BY ONLY <3>1, <3>3, <4>0, <5>1
      <4>2. CASE k = 2 * m + 1
        BY ONLY <2>2, <3>3, <3>4, <4>0, <4>2
      <4>3. CASE k = 2 * m + 2
        BY ONLY <2>2, <3>3, <3>4, <4>0, <4>3
      <4>4. k <= 2 * m \/ k = 2 * m + 1 \/ k = 2 * m + 2
        BY ONLY k \in 1 .. 2 * m + 2, m \in Nat
      <4> QED BY ONLY <4>1, <4>2, <4>3, <4>4
    <3>6. w = [k \in 1 .. 2 * m + 2 |-> w[k]]
      <4>1. 2 * (m + 1) = 2 * m + 2
        BY ONLY m \in Nat
      <4> QED BY ONLY <4>1 DEF w, Halves
    <3> HIDE DEF q
    <3>8. q = [k \in 1 .. 2 * m + 2 |-> q[k]]
      BY ONLY <3>3
    <3>7. w = q
      BY ONLY <3>5, <3>6, <3>8
    <3> QED BY <3>7 DEF w, h, q
  <2>5. /\ Append(Halves(f, m), x) \in Seq(Nat) /\ Append(Append(Halves(f, m), x), x) \in Seq(Nat)
        /\ 2 * x \in Nat /\ Append(Wholes(f, m), 2 * x) \in Seq(Nat)
    BY <2>1
  <2>6. /\ SumOf(Append(Append(Halves(f, m), x), x)) = SumOf(Append(Halves(f, m), x)) + x
        /\ SumOf(Append(Halves(f, m), x)) = SumOf(Halves(f, m)) + x
        /\ SumOf(Append(Wholes(f, m), 2 * x)) = SumOf(Wholes(f, m)) + 2 * x
    BY <2>1, <2>5, SumNext
  <2>7. SumOf(Halves(f, m)) \in Nat
    BY <2>1, SumNat
  <2>8. Halves(f, m + 1) \in Seq(Nat) /\ Wholes(f, m + 1) \in Seq(Nat)
    BY ONLY <2>3, <2>4, <2>5
  <2>9. SumOf(Halves(f, m + 1)) = SumOf(Wholes(f, m + 1))
    <3>1. PICK h \in Nat : h = SumOf(Halves(f, m))
      BY <2>7
    <3>2. SumOf(Halves(f, m + 1)) = h + x + x
      BY ONLY <2>4, <2>6, <3>1
    <3>3. SumOf(Wholes(f, m + 1)) = h + 2 * x
      BY ONLY <2>1, <2>3, <2>6, <3>1
    <3>4. h + x + x = h + 2 * x
      BY ONLY h \in Nat, x \in Nat
    <3> QED BY ONLY <3>2, <3>3, <3>4
  <2> QED BY ONLY <2>8, <2>9
<1> HIDE DEF S
<1>3. n \in S /\ n <= e
  <2>1. \A m \in Nat : m \in S
    BY <1>1, <1>2, Induction
  <2>2. n \in Nat /\ n <= e
    OBVIOUS
  <2> QED BY <2>1, <2>2
<1> QED BY <1>3 DEF S

\* A sequence of sequences, taken one after the other.
SumsOf(ss) == [i \in 1 .. Len(ss) |-> SumOf(ss[i])]
LEMMA SumFlat ==
    ASSUME NEW ss \in Seq(Seq(Nat))
    PROVE  SumOf(FlattenSeq(ss)) = SumOf(SumsOf(ss)) /\ SumsOf(ss) \in Seq(Nat)
<1> DEFINE Y == Seq(Nat)
           Good(c) == SumOf(FlattenSeq(c)) = SumOf(SumsOf(c)) /\ SumsOf(c) \in Seq(Nat)
           S == {n \in Nat : \A c \in Seq(Y) : Len(c) = n => Good(c)}
<1>1. 0 \in S
  <2> SUFFICES ASSUME NEW c \in Seq(Y), Len(c) = 0  PROVE Good(c)
    OBVIOUS
  <2>1. c = <<>> /\ SumsOf(c) = <<>>
    <3> HIDE DEF Y
    <3> QED BY DEF SumsOf
  <2>2. FlattenSeq(c) = <<>> /\ <<>> \in Seq(Nat)
    BY <2>1, FlatEmpty
  <2> QED BY ONLY <2>1, <2>2
<1>2. ASSUME NEW n \in Nat, n \in S  PROVE n + 1 \in S
  <2> SUFFICES ASSUME NEW c \in Seq(Y), Len(c) = n + 1  PROVE Good(c)
    OBVIOUS
  <2>1. PICK r \in Seq(Y), x \in Y : c = Append(r, x) /\ Len(r) = n
    BY EndOf
  <2>2. Good(r)
    BY <1>2, <2>1
  <2>3. FlattenSeq(c) = FlattenSeq(r) \o x /\ FlattenSeq(r) \in Seq(Nat) /\ x \in Seq(Nat)
    BY <2>1, FlatAppend, FlatType
  <2>4. SumOf(FlattenSeq(r) \o x) = SumOf(FlattenSeq(r)) + SumOf(x) /\ SumOf(x) \in Nat
    BY <2>3, SumConcat, SumNat
  <2>5. SumsOf(c) = Append(SumsOf(r), SumOf(x))
    <3> HIDE DEF Y
    <3>1. Len(c) = n + 1 /\ c[n + 1] = x /\ \A k \in 1 .. n : c[k] = r[k]
      BY ONLY <2>1, n \in Nat, r \in Seq(Y), x \in Y
    <3>2. PICK q \in Seq(Nat) : q = SumsOf(r) /\ Len(q) = n /\ \A k \in 1 .. n : q[k] = SumOf(r[k])
      <4>1. Len(SumsOf(r)) = n /\ \A k \in 1 .. n : SumsOf(r)[k] = SumOf(r[k])
        BY ONLY <2>1, n \in Nat DEF SumsOf
      <4> QED BY <2>2, <4>1
    <3>3. PICK y \in Nat : y = SumOf(x)
      BY <2>4
    <3>4. /\ Append(q, y) \in Seq(Nat) /\ Len(Append(q, y)) = n + 1 /\ Append(q, y)[n + 1] = y
          /\ \A k \in 1 .. n : Append(q, y)[k] = q[k]
      BY ONLY <3>2, n \in Nat, q \in Seq(Nat), y \in Nat
    <3>5. \A k \in 1 .. n + 1 : SumOf(c[k]) = Append(q, y)[k]
      <4> TAKE k \in 1 .. n + 1
      <4>1. CASE k = n + 1
        BY <3>1, <3>3, <3>4, <4>1
      <4>2. CASE k # n + 1
        <5>1. k \in 1 .. n
          BY <4>2
        <5> QED BY <3>1, <3>2, <3>4, <5>1
      <4> QED BY <4>1, <4>2
    <3>6. Append(q, y) = [k \in 1 .. n + 1 |-> Append(q, y)[k]]
      <4>1. PICK z : z = Append(q, y)
        OBVIOUS
      <4>2. z \in Seq(Nat) /\ Len(z) = n + 1
        BY ONLY <3>4, <4>1
      <4>3. z = [k \in 1 .. n + 1 |-> z[k]]
        BY ONLY <4>2
      <4> QED BY ONLY <4>1, <4>3
    <3>7. SumsOf(c) = [k \in 1 .. n + 1 |-> SumOf(c[k])]
      BY ONLY <3>1 DEF SumsOf
    <3>8. [k \in 1 .. n + 1 |-> SumOf(c[k])] = [k \in 1 .. n + 1 |-> Append(q, y)[k]]
      BY ONLY <3>5
    <3> QED BY ONLY <3>2, <3>3, <3>6, <3>7, <3>8
  <2>6. SumOf(Append(SumsOf(r), SumOf(x))) = SumOf(SumsOf(r)) + SumOf(x)
        /\ Append(SumsOf(r), SumOf(x)) \in Seq(Nat)
    BY <2>2, <2>4, SumNext
  <2> QED BY ONLY <2>2, <2>3, <2>4, <2>5, <2>6
<1> HIDE DEF S
<1>3. Len(ss) \in S
  <2>1. \A n \in Nat : n \in S
    BY <1>1, <1>2, Induction
  <2>2. Len(ss) \in Nat
    OBVIOUS
  <2> QED BY <2>1, <2>2
<1> QED BY <1>3 DEF S

-----------------------------------------------------------------------------
(* The time a recording takes. *)
TimeOf(s) == SumOf(Durations(s))
Timed(X) == \A x \in X : x.dur \in Nat

LEMMA TimedSounds == Timed(Sound) /\ Timed(Pulse)
<1>1. \A d \in Duration : d \in Nat
  <2>1. WIRE \in Nat
    BY TapeAssumption
  <2> QED BY <2>1 DEF Duration
<1>2. ASSUME NEW x \in Sound  PROVE x.dur \in Nat
  <2>1. x.dur \in Duration
    BY DEF Sound
  <2> QED BY <1>1, <2>1
<1>3. ASSUME NEW x \in Pulse  PROVE x.dur \in Nat
  <2>1. x.dur \in Duration
    BY DEF Pulse
  <2> QED BY <1>1, <2>1
<1> QED BY <1>2, <1>3 DEF Timed

LEMMA DurationsAre ==
    ASSUME NEW X, Timed(X), NEW s \in Seq(X)
    PROVE  /\ Durations(s) \in Seq(Nat) /\ Len(Durations(s)) = Len(s)
           /\ \A i \in 1 .. Len(s) : Durations(s)[i] = s[i].dur
<1>1. Len(s) \in Nat /\ \A i \in 1 .. Len(s) : s[i] \in X
  OBVIOUS
<1>2. \A i \in 1 .. Len(s) : s[i].dur \in Nat
  BY <1>1 DEF Timed
<1>3. PICK n \in Nat : n = Len(s)
  BY <1>1
<1>4. Durations(s) = [i \in 1 .. n |-> s[i].dur]
  BY <1>3 DEF Durations
<1>5. \A i \in 1 .. n : s[i].dur \in Nat
  BY <1>2, <1>3
<1>6. [i \in 1 .. n |-> s[i].dur] \in Seq(Nat) /\ Len([i \in 1 .. n |-> s[i].dur]) = n
  BY ONLY <1>5, n \in Nat
<1> QED BY ONLY <1>3, <1>4, <1>6

LEMMA SameSeq ==
    ASSUME NEW X, NEW a \in Seq(X), NEW b \in Seq(X), Len(a) = Len(b),
           \A i \in 1 .. Len(a) : a[i] = b[i]
    PROVE  a = b
  OBVIOUS

LEMMA TimeConcat ==
    ASSUME NEW X, Timed(X), NEW a \in Seq(X), NEW b \in Seq(X)
    PROVE  /\ TimeOf(a \o b) = TimeOf(a) + TimeOf(b) /\ TimeOf(a) \in Nat /\ TimeOf(b) \in Nat
           /\ a = <<>> => TimeOf(a) = 0
<1>1. PICK c \in Seq(X) : c = a \o b
  <2>1. a \o b \in Seq(X)
    OBVIOUS
  <2> QED BY <2>1
<1>2. PICK u \in Seq(Nat) : u = Durations(a) /\ Len(u) = Len(a) /\ \A i \in 1 .. Len(a) : u[i] = a[i].dur
  BY DurationsAre
<1>3. PICK v \in Seq(Nat) : v = Durations(b) /\ Len(v) = Len(b) /\ \A i \in 1 .. Len(b) : v[i] = b[i].dur
  BY DurationsAre
<1>4. PICK w \in Seq(Nat) : w = Durations(c) /\ Len(w) = Len(c) /\ \A i \in 1 .. Len(c) : w[i] = c[i].dur
  BY DurationsAre
<1>5. PICK m \in Nat, n \in Nat : m = Len(a) /\ n = Len(b)
  <2>1. Len(a) \in Nat /\ Len(b) \in Nat
    OBVIOUS
  <2> QED BY <2>1
<1>6. /\ Len(c) = m + n /\ \A i \in 1 .. m : c[i] = a[i]
      /\ \A i \in m + 1 .. m + n : c[i] = b[i - m]
  BY ONLY <1>1, <1>5, a \in Seq(X), b \in Seq(X)
<1>12. PICK y \in Seq(Nat) : y = u \o v
  <2>1. u \o v \in Seq(Nat)
    BY ONLY u \in Seq(Nat), v \in Seq(Nat)
  <2> QED BY <2>1
<1>7. /\ Len(y) = m + n /\ \A i \in 1 .. m : y[i] = u[i]
      /\ \A i \in m + 1 .. m + n : y[i] = v[i - m]
  <2>1. Len(u) = m /\ Len(v) = n
    BY ONLY <1>2, <1>3, <1>5
  <2>2. Len(y) = m + n
    <3>1. Len(u \o v) = Len(u) + Len(v)
      BY ONLY u \in Seq(Nat), v \in Seq(Nat)
    <3> QED BY ONLY <1>12, <2>1, <3>1
  <2>3. ASSUME NEW i \in 1 .. m  PROVE y[i] = u[i]
    BY ONLY <1>12, <2>1, u \in Seq(Nat), v \in Seq(Nat), m \in Nat, n \in Nat, i \in 1 .. m
  <2>4. ASSUME NEW i \in m + 1 .. m + n  PROVE y[i] = v[i - m]
    BY ONLY <1>12, <2>1, u \in Seq(Nat), v \in Seq(Nat), m \in Nat, n \in Nat, i \in m + 1 .. m + n, SMTT(30)
  <2> QED BY ONLY <2>2, <2>3, <2>4
<1>8. ASSUME NEW i \in 1 .. m + n  PROVE w[i] = y[i]
  <2>0. w[i] = c[i].dur
    BY ONLY <1>4, <1>6, i \in 1 .. m + n
  <2>1. CASE i \in 1 .. m
    <3>1. c[i] = a[i] /\ y[i] = u[i] /\ u[i] = a[i].dur
      BY ONLY <1>2, <1>5, <1>6, <1>7, <2>1
    <3> QED BY ONLY <2>0, <3>1
  <2>2. CASE i \in m + 1 .. m + n
    <3>1. i - m \in 1 .. n
      BY ONLY <2>2, m \in Nat, n \in Nat
    <3>2. PICK j \in 1 .. n : j = i - m
      BY <3>1
    <3>3. c[i] = b[j] /\ y[i] = v[j]
      BY ONLY <1>6, <1>7, <2>2, <3>2
    <3>4. v[j] = b[j].dur
      BY ONLY <1>3, <1>5, j \in 1 .. n
    <3> QED BY ONLY <2>0, <3>3, <3>4
  <2>3. i \in 1 .. m \/ i \in m + 1 .. m + n
    BY ONLY i \in 1 .. m + n, m \in Nat, n \in Nat
  <2> QED BY ONLY <2>1, <2>2, <2>3
<1>9. w = y
  <2>1. Len(w) = m + n /\ Len(y) = m + n
    BY ONLY <1>4, <1>6, <1>7
  <2>2. \A i \in 1 .. Len(w) : w[i] = y[i]
    BY ONLY <1>8, <2>1
  <2> QED BY ONLY <2>1, <2>2, w \in Seq(Nat), y \in Seq(Nat), SameSeq
<1>10. SumOf(u \o v) = SumOf(u) + SumOf(v) /\ SumOf(u) \in Nat /\ SumOf(v) \in Nat
       /\ (u = <<>> => SumOf(u) = 0)
  BY SumConcat, SumNat
<1>11. a = <<>> => u = <<>>
  BY ONLY <1>2 DEF Durations
<1> QED BY ONLY <1>1, <1>2, <1>3, <1>4, <1>12, <1>9, <1>10, <1>11 DEF TimeOf

\* The level of a pulse and its marks do not change its time.
LEMMA TimeLevelled ==
    ASSUME NEW s \in Seq(Sound), NEW l \in {0, 1}
    PROVE  TimeOf(Levelled(s, l)) = TimeOf(s)
<1>1. PICK q \in Seq(Pulse) :
        /\ q = Levelled(s, l) /\ Len(q) = Len(s)
        /\ \A i \in 1 .. Len(s) : q[i] = [dur |-> s[i].dur, lvl |-> (l + i - 1) % 2,
                                          rom |-> s[i].rom, first |-> s[i].first]
  BY LevelledType
<1>2. PICK u \in Seq(Nat) : u = Durations(q) /\ Len(u) = Len(q) /\ \A i \in 1 .. Len(q) : u[i] = q[i].dur
  BY TimedSounds, DurationsAre
<1>3. PICK v \in Seq(Nat) : v = Durations(s) /\ Len(v) = Len(s) /\ \A i \in 1 .. Len(s) : v[i] = s[i].dur
  BY TimedSounds, DurationsAre
<1>4. ASSUME NEW i \in 1 .. Len(s)  PROVE q[i].dur = s[i].dur
  <2>1. PICK a, e, b, c : a = s[i].dur /\ e = (l + i - 1) % 2 /\ b = s[i].rom /\ c = s[i].first
    OBVIOUS
  <2>2. q[i] = [dur |-> a, lvl |-> e, rom |-> b, first |-> c]
    BY ONLY <1>1, <2>1, i \in 1 .. Len(s)
  <2>3. q[i].dur = a
    BY ONLY <2>2
  <2> QED BY ONLY <2>1, <2>3
<1>5. Len(u) = Len(v) /\ \A i \in 1 .. Len(u) : u[i] = v[i]
  <2>1. Len(q) = Len(s) /\ Len(u) = Len(s) /\ Len(v) = Len(s)
    BY ONLY <1>1, <1>2, <1>3
  <2>2. ASSUME NEW i \in 1 .. Len(s)  PROVE u[i] = v[i]
    <3>1. u[i] = q[i].dur /\ v[i] = s[i].dur
      BY ONLY <1>2, <1>3, <2>1, i \in 1 .. Len(s)
    <3> QED BY ONLY <1>4, <3>1, i \in 1 .. Len(s)
  <2> QED BY ONLY <2>1, <2>2
<1>6. u = v
  BY ONLY <1>5, u \in Seq(Nat), v \in Seq(Nat), SameSeq
<1> QED BY ONLY <1>1, <1>2, <1>3, <1>6 DEF TimeOf

LEMMA TimeMarked ==
    ASSUME NEW x, NEW s \in Seq(Word), NEW f \in BOOLEAN
    PROVE  TimeOf(SentMarked(x, s, f)) = SumOf(s) /\ s \in Seq(Nat)
<1>1. PICK q \in Seq(Sound) : q = SentMarked(x, s, f) /\ Len(q) = Len(s)
  BY MarkedType
<1>2. \A i \in 1 .. Len(s) : q[i].dur = s[i]
  <2>1. q = [i \in 1 .. Len(s) |-> [dur |-> s[i], rom |-> x.id = "std", first |-> f /\ i = 1]]
    BY ONLY <1>1 DEF SentMarked
  <2>2. \A i \in 1 .. Len(s) : q[i] = [dur |-> s[i], rom |-> x.id = "std", first |-> f /\ i = 1]
    BY ONLY <2>1
  <2>3. ASSUME NEW i \in 1 .. Len(s)  PROVE q[i].dur = s[i]
    <3>1. PICK d, b, c : d = s[i] /\ b = (x.id = "std") /\ c = (f /\ i = 1)
      OBVIOUS
    <3>2. q[i] = [dur |-> d, rom |-> b, first |-> c]
      BY ONLY <2>2, <3>1, i \in 1 .. Len(s)
    <3>3. q[i].dur = d
      BY ONLY <3>2
    <3> QED BY ONLY <3>1, <3>3
  <2> QED BY ONLY <2>3
<1>3. PICK u \in Seq(Nat) : u = Durations(q) /\ Len(u) = Len(q) /\ \A i \in 1 .. Len(q) : u[i] = q[i].dur
  BY TimedSounds, DurationsAre
<1>4. s \in Seq(Nat)
  <2>1. \A d \in Word : d \in Nat
    BY WordNat
  <2> QED BY ONLY <2>1, s \in Seq(Word)
<1>5. Len(u) = Len(s) /\ \A i \in 1 .. Len(u) : u[i] = s[i]
  BY ONLY <1>1, <1>2, <1>3
<1>6. u = s
  BY ONLY <1>4, <1>5, u \in Seq(Nat), SameSeq
<1> QED BY ONLY <1>1, <1>3, <1>4, <1>6 DEF TimeOf

LEMMA TimeSilence ==
    ASSUME NEW x \in Block, x.id \notin Steering
    PROVE  TimeOf(SentSilence(x)) = Wire(PauseLen(x)) /\ Wire(PauseLen(x)) \in Nat
<1>1. PauseLen(x) \in Nat /\ Wire(PauseLen(x)) \in Duration /\ SentSilence(x) \in Seq(Sound)
  BY PauseType
<1>2. PICK w \in Nat : w = Wire(PauseLen(x))
  BY <1>1, WireNat
<1>3. CASE PauseLen(x) = 0
  <2>1. w = 0
    <3>1. 0 \in Word
      BY TapeAssumption DEF Word
    <3> QED BY <1>2, <1>3, <3>1, WordNat
  <2>2. SentSilence(x) = <<>>
    BY ONLY <1>3 DEF SentSilence
  <2>3. TimeOf(SentSilence(x)) = 0
    BY <1>1, <2>2, TimedSounds, TimeConcat
  <2> QED BY <1>2, <2>1, <2>3
<1>4. CASE PauseLen(x) # 0
  <2>1. PICK u : u = [dur |-> w, rom |-> FALSE, first |-> FALSE]
    OBVIOUS
  <2>2. SentSilence(x) = <<u>> /\ u.dur = w
    BY ONLY <1>2, <1>4, <2>1 DEF SentSilence
  <2>3. Durations(<<u>>) = Append(<<>>, w) /\ <<>> \in Seq(Nat)
    BY ONLY <2>2 DEF Durations
  <2>4. SumOf(Append(<<>>, w)) = SumOf(<<>>) + w /\ SumOf(<<>>) = 0
    BY <2>3, SumNext, SumNat
  <2> QED BY <1>2, <2>2, <2>3, <2>4 DEF TimeOf
<1> QED BY <1>3, <1>4

-----------------------------------------------------------------------------
(* tape_total_T counts a block as long as its pulses are. *)
BitOf(x, i) == [k \in 1 .. BITS |-> BitLen(x, x.data[i][k])]
LEMMA ByteTime ==
    ASSUME NEW x \in Block, x.id \in WithData, NEW i \in 1 .. Len(x.data)
    PROVE  SumOf(BytePulses(x, i)) = SumOf([k \in 1 .. Kept(x, i) |-> 2 * BitLen(x, x.data[i][k])])
<1>1. BITS \in Nat /\ x.data[i] \in [1 .. BITS -> {0, 1}]
  <2>1. BITS \in Nat
    BY TapeAssumption
  <2>2. x.data[i] \in [1 .. BITS -> {0, 1}]
    BY BlockFields
  <2> QED BY <2>1, <2>2
<1>2. PICK n \in 1 .. BITS : n = Kept(x, i)
  <2>1. i \in Nat
    BY BlockFields
  <2> QED BY <2>1, BlockFields
<1>3. ASSUME NEW k \in 1 .. BITS  PROVE BitLen(x, x.data[i][k]) \in Nat
  <2>1. x.data[i][k] \in {0, 1}
    BY ONLY <1>1, k \in 1 .. BITS
  <2>2. BitLen(x, x.data[i][k]) \in Word
    BY <2>1, BlockFields
  <2> QED BY <2>2, WordNat
<1>4. PICK f \in [1 .. BITS -> Nat] :
        f = BitOf(x, i) /\ \A k \in 1 .. BITS : f[k] = BitLen(x, x.data[i][k])
  <2>1. \A k \in 1 .. BITS : BitOf(x, i)[k] = BitLen(x, x.data[i][k])
    BY DEF BitOf
  <2>2. BitOf(x, i) \in [1 .. BITS -> Nat]
    BY <1>3 DEF BitOf
  <2> QED BY <2>1, <2>2
<1>5. n \in 0 .. BITS
  BY ONLY <1>1, n \in 1 .. BITS
<1>6. SumOf(Halves(f, n)) = SumOf(Wholes(f, n))
  BY ONLY <1>1, <1>5, f \in [1 .. BITS -> Nat], SumHalves
<1>7. Halves(f, n) = BytePulses(x, i)
  <2>1. ASSUME NEW k \in 1 .. 2 * n  PROVE f[(k + 1) \div 2] = BitLen(x, x.data[i][(k + 1) \div 2])
    <3>1. (k + 1) \div 2 \in 1 .. BITS
      BY ONLY <1>1, n \in 1 .. BITS, k \in 1 .. 2 * n
    <3> QED BY ONLY <1>4, <3>1
  <2> QED BY ONLY <1>2, <2>1 DEF Halves, BytePulses
<1>8. Wholes(f, n) = [k \in 1 .. n |-> 2 * BitLen(x, x.data[i][k])]
  <2>1. ASSUME NEW k \in 1 .. n  PROVE f[k] = BitLen(x, x.data[i][k])
    <3>1. k \in 1 .. BITS
      BY ONLY <1>1, n \in 1 .. BITS, k \in 1 .. n
    <3> QED BY ONLY <1>4, <3>1
  <2> QED BY ONLY <2>1 DEF Wholes
<1> QED BY ONLY <1>2, <1>6, <1>7, <1>8

LEMMA DataTime ==
    ASSUME NEW x \in Block, x.id \in WithData
    PROVE  SumOf(BitPulses(x)) = DataT(x) /\ DataT(x) \in Nat /\ BitPulses(x) \in Seq(Nat)
<1> DEFINE Byte(i) == SumOf([k \in 1 .. Kept(x, i) |-> 2 * BitLen(x, x.data[i][k])])
<1>1. /\ Bits(x) \in Seq(Seq(Word)) /\ Len(Bits(x)) = Len(x.data) /\ BitPulses(x) = FlattenSeq(Bits(x))
      /\ \A i \in 1 .. Len(x.data) : Bits(x)[i] = BytePulses(x, i)
      /\ BitPulses(x) \in Seq(Word)
  BY BitsType
<1>2. Bits(x) \in Seq(Seq(Nat)) /\ BitPulses(x) \in Seq(Nat)
  <2>2. Seq(Word) \subseteq Seq(Nat)
    BY TimeMarked
  <2> DEFINE Y == Seq(Word)
             Z == Seq(Nat)
  <2>3. Y \subseteq Z /\ Bits(x) \in Seq(Y)
    BY <1>1, <2>2
  <2> HIDE DEF Y, Z
  <2>4. Bits(x) \in Seq(Z)
    BY ONLY <2>3
  <2> QED BY <1>1, <2>2, <2>4 DEF Z
<1>3. SumOf(BitPulses(x)) = SumOf(SumsOf(Bits(x))) /\ SumsOf(Bits(x)) \in Seq(Nat)
  BY <1>1, <1>2, SumFlat
<1>4. ASSUME NEW i \in 1 .. Len(x.data)  PROVE SumOf(Bits(x)[i]) = Byte(i)
  BY <1>1, ByteTime
<1>5. SumsOf(Bits(x)) = [i \in 1 .. Len(x.data) |-> Byte(i)]
  <2>1. SumsOf(Bits(x)) = [i \in 1 .. Len(x.data) |-> SumOf(Bits(x)[i])]
    BY ONLY <1>1 DEF SumsOf
  <2> HIDE DEF Byte
  <2> QED BY ONLY <1>4, <2>1
<1>6. DataT(x) = SumOf(SumsOf(Bits(x)))
  BY ONLY <1>5 DEF DataT
<1>7. SumOf(SumsOf(Bits(x))) \in Nat
  BY <1>3, SumNat
<1> QED BY ONLY <1>2, <1>3, <1>6, <1>7

LEMMA LengthsTime ==
    ASSUME NEW x \in Block, x.id \notin Steering
    PROVE  BlockT(x) = Wire(PauseLen(x)) + SumOf(Lengths(x)) /\ SumOf(Lengths(x)) \in Nat
<1>1. CASE x.id \in {"std", "turbo"}
  <2>1. x.id \in WithData /\ BlockT(x) = Wire(PauseLen(x)) + (Pilots(x) * PilotLen(x) + SumOf(Sync(x)) + DataT(x))
    BY <1>1 DEF BlockT, WithData
  <2>2. PICK n \in Nat, d \in Nat : n = Pilots(x) /\ d = PilotLen(x)
    BY <1>1, LeadFields, WordNat
  <2>3. PICK s \in Seq(Nat) : s = Sync(x)
    <3>1. Sync(x) \in Seq(Word)
      BY <1>1, LeadFields, PairType
    <3>2. Sync(x) \in Seq(Nat)
      BY <3>1, TimeMarked
    <3> QED BY <3>2
  <2>4. PICK b \in Seq(Nat) : b = BitPulses(x) /\ SumOf(b) = DataT(x) /\ DataT(x) \in Nat
    BY <2>1, DataTime
  <2>5. PICK p \in Seq(Nat) : p = Run(n, d) /\ SumOf(p) = n * d
    <3>1. Run(n, d) \in Seq(Nat)
      BY ConstType DEF Run
    <3> QED BY <3>1, SumRun
  <2>6. Lengths(x) = (p \o s) \o b
    BY ONLY <1>1, <2>2, <2>3, <2>4, <2>5 DEF Lengths, Run
  <2>7. p \o s \in Seq(Nat)
    BY ONLY p \in Seq(Nat), s \in Seq(Nat)
  <2>8. /\ SumOf((p \o s) \o b) = SumOf(p \o s) + SumOf(b) /\ SumOf(p \o s) = SumOf(p) + SumOf(s)
        /\ SumOf(p) \in Nat /\ SumOf(s) \in Nat /\ SumOf(b) \in Nat
    BY <2>7, SumConcat, SumNat
  <2>9. SumOf(Lengths(x)) = n * d + SumOf(s) + DataT(x) /\ SumOf(Lengths(x)) \in Nat
    <3>1. PICK y \in Nat, z \in Nat, v \in Nat : y = SumOf(p) /\ z = SumOf(s) /\ v = SumOf(b)
      BY <2>8
    <3>2. SumOf(Lengths(x)) = (y + z) + v
      BY ONLY <2>6, <2>8, <3>1
    <3>3. (y + z) + v \in Nat
      BY ONLY y \in Nat, z \in Nat, v \in Nat
    <3> QED BY ONLY <2>4, <2>5, <3>1, <3>2, <3>3
  <2> QED BY ONLY <2>1, <2>2, <2>3, <2>9
<1>2. CASE x.id = "tone"
  <2>1. BlockT(x) = Wire(PauseLen(x)) + (x.count * x.pilot)
    BY <1>2 DEF BlockT
  <2>2. PICK n \in Nat, d \in Nat : n = x.count /\ d = x.pilot
    BY <1>2, Fields, WordNat
  <2>3. Lengths(x) = Run(n, d)
    BY ONLY <1>2, <2>2 DEF Lengths, Run
  <2>4. SumOf(Run(n, d)) = n * d /\ Run(n, d) \in Seq(Nat)
    BY SumRun, ConstType DEF Run
  <2>5. SumOf(Run(n, d)) \in Nat
    BY <2>4, SumNat
  <2> QED BY ONLY <2>1, <2>2, <2>3, <2>4, <2>5
<1>3. CASE x.id = "pulses"
  <2>1. BlockT(x) = Wire(PauseLen(x)) + SumOf(x.lens) /\ Lengths(x) = x.lens
    BY <1>3 DEF BlockT, Lengths
  <2>2. x.lens \in Seq(Nat)
    BY <1>3, Fields, TimeMarked
  <2>3. SumOf(x.lens) \in Nat
    BY <2>2, SumNat
  <2> QED BY ONLY <2>1, <2>3
<1>4. CASE x.id = "data"
  <2>1. x.id \in WithData /\ BlockT(x) = Wire(PauseLen(x)) + DataT(x) /\ Lengths(x) = BitPulses(x)
    BY <1>4 DEF BlockT, WithData, Lengths
  <2> QED BY <2>1, DataTime
<1>5. CASE x.id = "pause"
  <2>1. BlockT(x) = Wire(PauseLen(x)) + 0 /\ Lengths(x) = <<>>
    BY <1>5 DEF BlockT, Lengths
  <2>2. <<>> \in Seq(Nat)
    OBVIOUS
  <2>3. SumOf(<<>>) = 0
    BY <2>2, SumNat
  <2> QED BY <2>1, <2>3
<1> QED BY <1>1, <1>2, <1>3, <1>4, <1>5, Fields

LEMMA BlockTime ==
    ASSUME NEW x \in Block, x.id \notin Steering
    PROVE  TimeOf(SentBlock(x)) = BlockT(x) /\ BlockT(x) \in Nat
<1>1. Lengths(x) \in Seq(Word)
  BY LengthsType
<1>2. PICK a \in Seq(Sound) : a = SentMarked(x, Lengths(x), TRUE) /\ TimeOf(a) = SumOf(Lengths(x))
  BY <1>1, MarkedType, TimeMarked
<1>3. PICK b \in Seq(Sound) : b = SentSilence(x) /\ TimeOf(b) = Wire(PauseLen(x))
  BY PauseType, TimeSilence
<1>4. TimeOf(a \o b) = TimeOf(a) + TimeOf(b) /\ TimeOf(a) \in Nat /\ TimeOf(b) \in Nat
  BY TimedSounds, TimeConcat
<1>5. SentBlock(x) = a \o b
  BY ONLY <1>2, <1>3 DEF SentBlock
<1>6. BlockT(x) = Wire(PauseLen(x)) + SumOf(Lengths(x))
  BY LengthsTime
<1>7. PICK m \in Nat, n \in Nat : m = TimeOf(a) /\ n = TimeOf(b)
  BY <1>4
<1>8. TimeOf(SentBlock(x)) = m + n /\ BlockT(x) = n + m
  BY ONLY <1>2, <1>3, <1>4, <1>5, <1>6, <1>7
<1>9. m + n = n + m /\ m + n \in Nat
  BY ONLY m \in Nat, n \in Nat
<1> QED BY ONLY <1>8, <1>9

-----------------------------------------------------------------------------
(* tape_total_T: turn by turn, the time counted and the time ahead make up the
   recording's. *)
Turned == [w : Walker, T : Nat]
Counts(t, x) ==
    /\ x \in Turned /\ Walking(t, x.w[1], x.w[2], x.w[3])
    /\ x.T + TimeOf(Rest(t, x.w[1], x.w[2], x.w[3])) = TimeOf(SentUnrolled(t))

LEMMA TurnedIs ==
    ASSUME NEW x \in Turned
    PROVE  \E p \in Nat \ {0}, c \in Nat, s \in Nat \ {0}, T \in Nat :
              /\ x = [w |-> <<p, c, s>>, T |-> T] /\ x.w = <<p, c, s>> /\ x.T = T
              /\ x.w[1] = p /\ x.w[2] = c /\ x.w[3] = s
<1>1. x.w \in Walker /\ x.T \in Nat /\ x = [w |-> x.w, T |-> x.T]
  BY DEF Turned
<1>2. PICK p \in Nat \ {0}, c \in Nat, s \in Nat \ {0} : x.w = <<p, c, s>>
  BY <1>1 DEF Walker
<1>3. x.w[1] = p /\ x.w[2] = c /\ x.w[3] = s
  BY ONLY <1>2
<1> QED BY <1>1, <1>2, <1>3

LEMMA MakesTurned ==
    ASSUME NEW p \in Nat \ {0}, NEW c \in Nat, NEW s \in Nat \ {0}, NEW T \in Nat,
           NEW y, y = [w |-> <<p, c, s>>, T |-> T]
    PROVE  y \in Turned /\ y.w[1] = p /\ y.w[2] = c /\ y.w[3] = s /\ y.T = T
<1>1. <<p, c, s>> \in Walker
  BY DEF Walker
<1>2. y \in Turned /\ y.w = <<p, c, s>> /\ y.T = T
  BY ONLY <1>1, T \in Nat, y = [w |-> <<p, c, s>>, T |-> T] DEF Turned
<1> QED BY ONLY <1>2

\* What one turn does: nothing at the end, its loop's turn, or a block counted.
TurnOf(t, x) == TotalTurn(t)[x]
LEMMA TurnedOnce ==
    ASSUME NEW t, IsFile(t), NEW x \in Turned, NEW p \in Nat \ {0}, NEW c \in Nat, NEW s \in Nat \ {0},
           NEW T \in Nat, x = [w |-> <<p, c, s>>, T |-> T]
    PROVE  /\ Ends(t, p) => TurnOf(t, x) = x
           /\ ~Ends(t, p) /\ Steers(t, <<p, c, s>>) =>
                TurnOf(t, x) = [w |-> Turn(t, <<p, c, s>>), T |-> T]
           /\ ~Ends(t, p) /\ ~Steers(t, <<p, c, s>>) =>
                TurnOf(t, x) = [w |-> <<p + 1, c, s>>, T |-> T + BlockT(Blocks(t)[p])]
<1>1. x.w = <<p, c, s>> /\ x.T = T /\ x.w[1] = p /\ x.w[2] = c /\ x.w[3] = s
  BY ONLY x = [w |-> <<p, c, s>>, T |-> T]
<1>2. TurnOf(t, x) = CASE Ends(t, x.w[1]) -> x
                       [] Steers(t, x.w)  -> [x EXCEPT !.w = Turn(t, x.w)]
                       [] OTHER -> [w |-> <<x.w[1] + 1, x.w[2], x.w[3]>>,
                                    T |-> x.T + BlockT(Blocks(t)[x.w[1]])]
  BY ONLY x \in Turned DEF TurnOf, TotalTurn, Turned
<1>3. [x EXCEPT !.w = Turn(t, x.w)] = [w |-> Turn(t, x.w), T |-> T]
  BY ONLY x = [w |-> <<p, c, s>>, T |-> T]
<1>4. PICK y, z :
        /\ y = [w |-> Turn(t, x.w), T |-> T]
        /\ z = [w |-> <<p + 1, c, s>>, T |-> T + BlockT(Blocks(t)[p])]
  OBVIOUS
<1>5. [w |-> <<x.w[1] + 1, x.w[2], x.w[3]>>, T |-> x.T + BlockT(Blocks(t)[x.w[1]])] = z
  BY ONLY <1>1, <1>4
<1>6. TurnOf(t, x) = CASE Ends(t, x.w[1]) -> x [] Steers(t, x.w) -> y [] OTHER -> z
  BY ONLY <1>2, <1>3, <1>4, <1>5
<1>7. /\ Ends(t, x.w[1]) => TurnOf(t, x) = x
      /\ ~Ends(t, x.w[1]) /\ Steers(t, x.w) => TurnOf(t, x) = y
      /\ ~Ends(t, x.w[1]) /\ ~Steers(t, x.w) => TurnOf(t, x) = z
  <2>1. Ends(t, x.w[1]) => ~Steers(t, x.w)
    <3>1. Len(Blocks(t)) \in Nat
      BY FileFacts
    <3> QED BY <1>1, <3>1 DEF Ends, Steers
  <2>2. CASE Ends(t, x.w[1])
    BY ONLY <1>6, <2>1, <2>2
  <2>3. CASE ~Ends(t, x.w[1]) /\ Steers(t, x.w)
    BY ONLY <1>6, <2>3
  <2>4. CASE ~Ends(t, x.w[1]) /\ ~Steers(t, x.w)
    BY ONLY <1>6, <2>4
  <2> QED BY ONLY <2>2, <2>3, <2>4
<1> QED BY ONLY <1>1, <1>4, <1>7

LEMMA PlaysHere ==
    ASSUME NEW t, IsFile(t), NEW p \in Nat \ {0}, NEW c, NEW s, ~Ends(t, p), ~Steers(t, <<p, c, s>>)
    PROVE  /\ p \in 1 .. Len(Blocks(t)) /\ Blocks(t)[p] \in Block /\ Blocks(t)[p].id \notin Steering
           /\ p <= Len(Blocks(t))
<1>1. Len(Blocks(t)) \in Nat /\ \A k \in 1 .. Len(Blocks(t)) : Blocks(t)[k] \in Block
  BY FileFacts
<1>2. ~(p > Len(Blocks(t))) /\ Blocks(t)[p].id # "bad"
  BY DEF Ends
<1>3. p \in 1 .. Len(Blocks(t)) /\ p <= Len(Blocks(t))
  BY ONLY <1>1, <1>2, p \in Nat \ {0}
<1>4. Blocks(t)[p].id \notin {"loop", "endloop", "info"}
  BY <1>3 DEF Steers
<1> QED BY <1>1, <1>2, <1>3, <1>4 DEF Steering

LEMMA TurnType ==
    ASSUME NEW t, IsFile(t), NEW x \in Turned
    PROVE  TurnOf(t, x) \in Turned
<1>1. PICK p \in Nat \ {0}, c \in Nat, s \in Nat \ {0}, T \in Nat :
        x = [w |-> <<p, c, s>>, T |-> T]
  BY TurnedIs
<1>2. /\ Ends(t, p) => TurnOf(t, x) = x
      /\ ~Ends(t, p) /\ Steers(t, <<p, c, s>>) =>
           TurnOf(t, x) = [w |-> Turn(t, <<p, c, s>>), T |-> T]
      /\ ~Ends(t, p) /\ ~Steers(t, <<p, c, s>>) =>
           TurnOf(t, x) = [w |-> <<p + 1, c, s>>, T |-> T + BlockT(Blocks(t)[p])]
  BY <1>1, TurnedOnce
<1>3. CASE Ends(t, p)
  BY <1>2, <1>3
<1>4. CASE ~Ends(t, p) /\ Steers(t, <<p, c, s>>)
  <2>1. Turn(t, <<p, c, s>>) \in Walker
    <3>1. <<p, c, s>> \in Walker
      BY DEF Walker
    <3> QED BY <1>4, <3>1, TurnWalks
  <2> QED BY <1>2, <1>4, <2>1 DEF Turned
<1>5. CASE ~Ends(t, p) /\ ~Steers(t, <<p, c, s>>)
  <2>1. BlockT(Blocks(t)[p]) \in Nat
    BY <1>5, PlaysHere, BlockTime
  <2>2. PICK q \in Nat \ {0}, U \in Nat : q = p + 1 /\ U = T + BlockT(Blocks(t)[p])
    <3>1. p + 1 \in Nat \ {0} /\ T + BlockT(Blocks(t)[p]) \in Nat
      BY <2>1
    <3> QED BY <3>1
  <2> QED BY <1>2, <1>5, <2>2, MakesTurned
<1> QED BY <1>3, <1>4, <1>5

LEMMA TurnCounts ==
    ASSUME NEW t, IsFile(t), NEW x, Counts(t, x)
    PROVE  Counts(t, TurnOf(t, x))
<1>0. x \in Turned
  BY DEF Counts
<1>1. PICK p \in Nat \ {0}, c \in Nat, s \in Nat \ {0}, T \in Nat :
        /\ x = [w |-> <<p, c, s>>, T |-> T] /\ x.w = <<p, c, s>> /\ x.T = T
        /\ x.w[1] = p /\ x.w[2] = c /\ x.w[3] = s
  BY <1>0, TurnedIs
<1>2. Walking(t, p, c, s) /\ T + TimeOf(Rest(t, p, c, s)) = TimeOf(SentUnrolled(t))
  BY ONLY <1>1, Counts(t, x) DEF Counts
<1>3. /\ Ends(t, p) => TurnOf(t, x) = x
      /\ ~Ends(t, p) /\ Steers(t, <<p, c, s>>) =>
           TurnOf(t, x) = [w |-> Turn(t, <<p, c, s>>), T |-> T]
      /\ ~Ends(t, p) /\ ~Steers(t, <<p, c, s>>) =>
           TurnOf(t, x) = [w |-> <<p + 1, c, s>>, T |-> T + BlockT(Blocks(t)[p])]
  BY <1>0, <1>1, TurnedOnce
<1>4. CASE Ends(t, p)
  BY <1>3, <1>4
<1>5. CASE ~Ends(t, p) /\ Steers(t, <<p, c, s>>)
  <2>1. PICK q \in Nat \ {0}, d \in Nat, r \in Nat \ {0} :
          Turn(t, <<p, c, s>>) = <<q, d, r>> /\ TurnsTo(t, p, c, s, q, d, r)
    BY <1>5, TurnIs
  <2>2. Walking(t, q, d, r) /\ Rest(t, q, d, r) = Rest(t, p, c, s)
    BY <1>2, <1>5, <2>1, RestTurn
  <2>3. PICK y : y = TurnOf(t, x) /\ y = [w |-> <<q, d, r>>, T |-> T]
    BY <1>3, <1>5, <2>1
  <2>4. y \in Turned /\ y.w[1] = q /\ y.w[2] = d /\ y.w[3] = r /\ y.T = T
    BY <2>3, MakesTurned
  <2> QED BY ONLY <1>2, <2>2, <2>3, <2>4 DEF Counts
<1>6. CASE ~Ends(t, p) /\ ~Steers(t, <<p, c, s>>)
  <2>1. PICK b \in Block : b = Blocks(t)[p] /\ b.id \notin Steering /\ p <= Len(Blocks(t))
    BY <1>6, PlaysHere
  <2>2. Walking(t, p + 1, c, s) /\ Rest(t, p, c, s) = SentBlock(b) \o Rest(t, p + 1, c, s)
    <3>1. p <= Len(Blocks(t)) /\ Blocks(t)[p].id \notin Steering
      BY ONLY <2>1
    <3>2. Walking(t, p, c, s)
      BY ONLY <1>2
    <3>3. /\ Walking(t, p + 1, c, s)
          /\ Rest(t, p, c, s) = SentBlock(Blocks(t)[p]) \o Rest(t, p + 1, c, s)
      BY <3>1, <3>2, RestPlays, ZenonT(40)
    <3> QED BY ONLY <2>1, <3>3
  <2>3. PICK q \in Nat \ {0}, m \in Nat : q = p + 1 /\ m = BlockT(b) /\ TimeOf(SentBlock(b)) = m
    <3>1. p + 1 \in Nat \ {0}
      OBVIOUS
    <3> QED BY <2>1, <3>1, BlockTime
  <2>4. PICK U \in Nat : U = T + m
    <3>1. T + m \in Nat
      OBVIOUS
    <3> QED BY <3>1
  <2>5. PICK y : y = TurnOf(t, x) /\ y = [w |-> <<q, c, s>>, T |-> U]
    BY <1>3, <1>6, <2>1, <2>3, <2>4
  <2>6. y \in Turned /\ y.w[1] = q /\ y.w[2] = c /\ y.w[3] = s /\ y.T = U
    BY <2>5, MakesTurned
  <2>7. Walking(t, q, c, s)
    BY <2>2, <2>3
  <2>8. PICK u \in Seq(Sound), v \in Seq(Sound) : u = SentBlock(b) /\ v = Rest(t, q, c, s)
    BY <2>1, <2>7, PulsesType, RestType
  <2>9. TimeOf(u \o v) = TimeOf(u) + TimeOf(v) /\ TimeOf(v) \in Nat
    BY TimedSounds, TimeConcat
  <2>10. U + TimeOf(Rest(t, q, c, s)) = TimeOf(SentUnrolled(t))
    <3>1. PICK n \in Nat : n = TimeOf(v)
      BY <2>9
    <3>2. T + (m + n) = TimeOf(SentUnrolled(t))
      BY ONLY <1>2, <2>2, <2>3, <2>8, <2>9, <3>1
    <3>3. U + n = T + (m + n)
      BY ONLY <2>4, T \in Nat, m \in Nat, n \in Nat
    <3> QED BY ONLY <2>8, <3>1, <3>2, <3>3
  <2> QED BY ONLY <2>5, <2>6, <2>7, <2>10 DEF Counts
<1> QED BY <1>4, <1>5, <1>6

\* The count as tape_total_T makes it, GUARD turns from the file's beginning.
From0 == [w |-> <<1, 0, 1>>, T |-> 0]
LEMMA TotalledDef ==
    ASSUME NEW t, IsFile(t)
    PROVE  \E g : /\ g[0] = From0 /\ Totalled(t) = g[GUARD]
                  /\ \A k \in 1 .. GUARD : g[k] = TotalTurn(t)[g[k - 1]]
<1> DEFINE D == [k \in 1 .. GUARD |-> TotalTurn(t)]
           Is(g) == g = [n \in 0 .. GUARD |-> IF n = 0 THEN [w |-> <<1, 0, 1>>, T |-> 0]
                                              ELSE TotalTurn(t)[g[n - 1]]]
<1>1. GUARD \in Nat
  BY TapeAssumption
<1>2. From0 \in Turned
  <2>1. 1 \in Nat \ {0} /\ 0 \in Nat
    OBVIOUS
  <2> QED BY <2>1, MakesTurned DEF From0
<1>3. D \in [1 .. GUARD -> [Turned -> Turned]]
  <2>1. TotalTurn(t) \in [Turned -> Turned]
    <3> DEFINE E(x) ==
          CASE Ends(t, x.w[1]) -> x
            [] Steers(t, x.w)  -> [x EXCEPT !.w = Turn(t, @)]
            [] OTHER           -> [w |-> <<x.w[1] + 1, x.w[2], x.w[3]>>,
                                   T |-> x.T + BlockT(Blocks(t)[x.w[1]])]
    <3>1. TotalTurn(t) = [x \in Turned |-> E(x)]
      BY ONLY TRUE DEF TotalTurn, Turned
    <3> HIDE DEF E
    <3>2. \A x \in Turned : TotalTurn(t)[x] = E(x)
      BY ONLY <3>1
    <3>3. \A x \in Turned : E(x) \in Turned
      BY <3>2, TurnType DEF TurnOf
    <3> QED BY ONLY <3>1, <3>3
  <2> QED BY <2>1
<1>4. PICK g : Goes(g, GUARD, Turned, From0, D)
  BY ONLY <1>1, <1>2, <1>3, Recursion
<1>5. /\ g \in [0 .. GUARD -> Turned] /\ g[0] = From0
      /\ \A k \in 1 .. GUARD : g[k] = TotalTurn(t)[g[k - 1]]
  BY <1>4 DEF Goes
<1>6. Is(g)
  <2> DEFINE h == [n \in 0 .. GUARD |-> IF n = 0 THEN [w |-> <<1, 0, 1>>, T |-> 0]
                                        ELSE TotalTurn(t)[g[n - 1]]]
  <2>1. ASSUME NEW k \in 0 .. GUARD  PROVE g[k] = h[k]
    <3>1. CASE k = 0
      BY ONLY <1>5, <3>1, k \in 0 .. GUARD DEF From0
    <3>2. CASE k # 0
      <4>1. k \in 1 .. GUARD
        BY ONLY <1>1, <3>2, k \in 0 .. GUARD
      <4>2. h[k] = TotalTurn(t)[g[k - 1]]
        BY ONLY <3>2, k \in 0 .. GUARD
      <4> QED BY ONLY <1>5, <4>1, <4>2
    <3> QED BY ONLY <3>1, <3>2
  <2>2. g = [k \in 0 .. GUARD |-> g[k]]
    BY ONLY <1>5
  <2>3. h = [k \in 0 .. GUARD |-> h[k]]
    BY ONLY TRUE
  <2> HIDE DEF h
  <2>4. g = h
    BY ONLY <2>1, <2>2, <2>3, SMTT(30)
  <2> QED BY ONLY <2>4 DEF h
<1> DEFINE c == CHOOSE f : Is(f)
<1>7. Is(c)
  BY ONLY <1>6
<1>8. Totalled(t) = c[GUARD]
  BY ONLY TRUE DEF Totalled
<1> HIDE DEF c
<1>9. c[0] = From0
  BY ONLY <1>1, <1>7 DEF From0
<1>10. ASSUME NEW k \in 1 .. GUARD  PROVE c[k] = TotalTurn(t)[c[k - 1]]
  <2>1. k \in 0 .. GUARD /\ k # 0
    BY ONLY <1>1, k \in 1 .. GUARD
  <2>2. c[k] = IF k = 0 THEN [w |-> <<1, 0, 1>>, T |-> 0] ELSE TotalTurn(t)[c[k - 1]]
    BY ONLY <1>7, <2>1
  <2> QED BY ONLY <2>1, <2>2
<1> QED BY ONLY <1>8, <1>9, <1>10

\* Given turns enough, the count at the end is the whole recording's time.
LEMMA TotalledTime ==
    ASSUME NEW t, IsFile(t), Ends(t, Totalled(t).w[1])
    PROVE  Totalled(t).T = TimeOf(SentUnrolled(t))
<1>1. PICK g : /\ g[0] = From0 /\ Totalled(t) = g[GUARD]
               /\ \A k \in 1 .. GUARD : g[k] = TotalTurn(t)[g[k - 1]]
  BY TotalledDef
<1>2. Counts(t, From0)
  <2>1. Rest(t, 1, 0, 1) = SentUnrolled(t) /\ Walking(t, 1, 0, 1)
    BY PartsWhole DEF IsFile
  <2>2. From0 \in Turned /\ From0.w[1] = 1 /\ From0.w[2] = 0 /\ From0.w[3] = 1 /\ From0.T = 0
    <3>1. 1 \in Nat \ {0} /\ 0 \in Nat
      OBVIOUS
    <3> QED BY <3>1, MakesTurned DEF From0
  <2>3. PICK n \in Nat : n = TimeOf(SentUnrolled(t))
    <3>1. SentUnrolled(t) \in Seq(Sound)
      BY <2>1, RestType
    <3>2. TimeOf(SentUnrolled(t)) \in Nat
      BY <3>1, TimedSounds, TimeConcat
    <3> QED BY <3>2
  <2>4. 0 + n = n
    OBVIOUS
  <2> QED BY ONLY <2>1, <2>2, <2>3, <2>4 DEF Counts
<1>3. \A k \in Nat : k <= GUARD => Counts(t, g[k])
  <2> DEFINE S == {k \in Nat : k <= GUARD => Counts(t, g[k])}
  <2>1. 0 \in S
    BY ONLY <1>1, <1>2
  <2>2. ASSUME NEW k \in Nat, k \in S  PROVE k + 1 \in S
    <3> SUFFICES ASSUME k + 1 <= GUARD PROVE Counts(t, g[k + 1])
      OBVIOUS
    <3>1. GUARD \in Nat
      BY TapeAssumption
    <3>2. k <= GUARD /\ k + 1 \in 1 .. GUARD /\ (k + 1) - 1 = k
      BY ONLY <3>1, k \in Nat, k + 1 <= GUARD
    <3>3. Counts(t, g[k])
      BY ONLY <2>2, <3>2
    <3>4. g[k + 1] = TurnOf(t, g[k])
      BY ONLY <1>1, <3>2 DEF TurnOf
    <3> QED BY <3>3, <3>4, TurnCounts
  <2> HIDE DEF S
  <2>3. \A k \in Nat : k \in S
    BY ONLY <2>1, <2>2, Induction
  <2> QED BY ONLY <2>3 DEF S
<1>4. PICK x : x = Totalled(t) /\ Counts(t, x)
  <2>1. GUARD \in Nat /\ GUARD <= GUARD
    BY TapeAssumption
  <2> QED BY ONLY <1>1, <1>3, <2>1
<1>5. x \in Turned
  BY ONLY <1>4 DEF Counts
<1>6. PICK p \in Nat \ {0}, c \in Nat, s \in Nat \ {0}, T \in Nat :
        x.w[1] = p /\ x.w[2] = c /\ x.w[3] = s /\ x.T = T
  BY <1>5, TurnedIs
<1>7. Walking(t, p, c, s) /\ T + TimeOf(Rest(t, p, c, s)) = TimeOf(SentUnrolled(t)) /\ Ends(t, p)
  BY ONLY <1>4, <1>6, Ends(t, Totalled(t).w[1]) DEF Counts
<1>8. Rest(t, p, c, s) = <<>>
  BY <1>7, RestEnds
<1>9. TimeOf(<<>>) = 0
  <2>1. <<>> \in Seq(Sound)
    OBVIOUS
  <2> QED BY <2>1, TimedSounds, TimeConcat
<1>10. T + 0 = T
  OBVIOUS
<1> QED BY ONLY <1>4, <1>6, <1>7, <1>8, <1>9, <1>10

LEMMA TotalTime ==
    ASSUME Short, NEW t \in DOMAIN Tapes
    PROVE  tape_total_T(t) = TimeOf(Sent(t))
<1>0. tape_total_T(t) = Total(t)
  BY ONLY Short, t \in DOMAIN Tapes DEF Short, tape_total_T
<1>1. CASE Listed(t)
  BY ONLY <1>0, <1>1 DEF Total, Sent, TimeOf
<1>2. CASE ~Listed(t)
  <2>1. Ends(t, Totalled(t).w[1])
    BY ONLY <1>2, Short, t \in DOMAIN Tapes DEF Short
  <2>2. IsFile(t)
    BY <1>2 DEF IsFile
  <2>3. Totalled(t).T = TimeOf(SentUnrolled(t))
    BY <2>1, <2>2, TotalledTime
  <2>4. SentUnrolled(t) \in Seq(Sound)
    <3>1. Rest(t, 1, 0, 1) = SentUnrolled(t) /\ Walking(t, 1, 0, 1)
      BY <2>2, PartsWhole DEF IsFile
    <3> QED BY <2>2, <3>1, RestType
  <2>5. TimeOf(Levelled(SentUnrolled(t), 0)) = TimeOf(SentUnrolled(t))
    <3>1. 0 \in {0, 1}
      OBVIOUS
    <3> QED BY <2>4, <3>1, TimeLevelled
  <2> QED BY ONLY <1>0, <1>2, <2>3, <2>5 DEF Total, Sent
<1> QED BY ONLY <1>1, <1>2

-----------------------------------------------------------------------------
(* What has been delivered: on top of what was delivered before the tape was *)
(* armed, the time of the pulses heard and queued.                           *)
Counted ==
    /\ extra \in Nat /\ (at = "starting" => played \in Nat)
    /\ fate = "loading" => played = extra + TimeOf(heard \o Queued)

LEMMA TimeNone == TimeOf(<<>>) = 0
<1>1. <<>> \in Seq(Pulse)
  OBVIOUS
<1> QED BY <1>1, TimedSounds, TimeConcat

LEMMA TimeTypes ==
    ASSUME IInv
    PROVE  heard \in Seq(Pulse) /\ Queued \in Seq(Pulse) /\ heard \o Queued \in Seq(Pulse)
<1>1. heard \in Seq(Pulse) /\ Queued \in Seq(Pulse)
  BY QueuedType DEF IInv, Types
<1>2. heard \o Queued \in Seq(Pulse)
  BY ONLY <1>1
<1> QED BY <1>1, <1>2

\* Most steps deliver nothing, and only a start enters "starting".
Delivered ==
    UNCHANGED <<played, extra, heard, fifo, stale, fate>> /\ (at' = "starting" => at = "starting")
LEMMA DeliveredCounts == ASSUME Counted, Delivered PROVE Counted'
<1>1. PICK n : n = extra + TimeOf(heard \o Queued)
  OBVIOUS
<1>2. n = extra' + TimeOf(heard \o Queued)'
  BY ONLY <1>1, Delivered DEF Delivered, Queued, TimeOf, SumOf, Durations
<1>3. /\ extra \in Nat /\ (at = "starting" => played \in Nat)
      /\ fate = "loading" => played = n
  BY ONLY <1>1, Counted DEF Counted
<1>4. /\ extra' \in Nat /\ (at' = "starting" => played' \in Nat)
      /\ fate' = "loading" => played' = n
  BY ONLY <1>3, Delivered DEF Delivered
<1> QED BY ONLY <1>2, <1>4 DEF Counted

LEMMA PlayCounts == ASSUME IInv, Counted, Play PROVE Counted'
<1>1. /\ UNCHANGED <<at, played, extra, fate>> /\ run /\ fifo # <<>> /\ fifo' = Tail(fifo)
      /\ IF stale > 0 THEN stale' = stale - 1 /\ UNCHANGED heard
                      ELSE heard' = Append(heard, Head(fifo)) /\ UNCHANGED stale
  BY DEF Play, feeder
<1>2. heard \in Seq(Pulse) /\ fifo \in Seq(Pulse) /\ stale \in Nat /\ stale <= Len(fifo)
  BY DEF IInv, Types
<1>3. heard' \o Queued' = heard \o Queued
  <2>1. CASE stale > 0
    <3>1. Queued' = Queued
      BY ONLY <1>1, <1>2, <2>1, BehindFacts DEF Queued
    <3> QED BY ONLY <1>1, <2>1, <3>1
  <2>2. CASE ~(stale > 0)
    <3>1. stale = 0 /\ stale' = 0 /\ heard' = Append(heard, Head(fifo))
      BY ONLY <1>1, <1>2, <2>2
    <3>2. Queued = fifo /\ Queued' = Tail(fifo)
      <4>1. Behind(fifo, 0) = fifo /\ Behind(Tail(fifo), 0) = Tail(fifo)
        BY ONLY <1>1, <1>2 DEF Behind
      <4> QED BY ONLY <1>1, <3>1, <4>1 DEF Queued
    <3>3. PICK u \in Pulse, q \in Seq(Pulse) : u = Head(fifo) /\ q = Tail(fifo) /\ fifo = <<u>> \o q
      <4>1. Head(fifo) \in Pulse /\ Tail(fifo) \in Seq(Pulse) /\ fifo = <<Head(fifo)>> \o Tail(fifo)
        BY ONLY <1>1, <1>2
      <4> QED BY ONLY <4>1
    <3>4. PICK v \in Seq(Pulse), a \in Seq(Pulse) : v = <<u>> /\ a = heard
      <4>1. <<u>> \in Seq(Pulse)
        BY ONLY u \in Pulse
      <4> QED BY ONLY <1>2, <4>1
    <3>5. (a \o v) \o q = a \o (v \o q)
      <4>1. Regrouped(a, v, q)
        BY ONLY a \in Seq(Pulse), v \in Seq(Pulse), q \in Seq(Pulse), Regroup, ZenonT(40)
      <4> QED BY ONLY <4>1, Zenon DEF Regrouped
    <3>6. Append(a, u) = a \o <<u>>
      BY ONLY a \in Seq(Pulse), u \in Pulse
    <3> QED BY ONLY <3>1, <3>2, <3>3, <3>4, <3>5, <3>6
  <2> QED BY ONLY <2>1, <2>2
<1>4. PICK n : n = extra + TimeOf(heard \o Queued)
  OBVIOUS
<1>5. n = extra' + TimeOf(heard' \o Queued')
  BY ONLY <1>1, <1>3, <1>4
<1>6. /\ extra' \in Nat /\ (at' = "starting" => played' \in Nat)
      /\ fate' = "loading" => played' = n
  <2>1. /\ extra \in Nat /\ (at = "starting" => played \in Nat)
        /\ fate = "loading" => played = n
    BY ONLY <1>4, Counted DEF Counted
  <2> QED BY ONLY <1>1, <2>1
<1> QED BY ONLY <1>5, <1>6 DEF Counted, Queued, TimeOf, SumOf, Durations

LEMMA FeedCounts == ASSUME IInv, Counted, Feed PROVE Counted'
<1>1. PICK k, s :
        /\ k = (IF Len(ring) < FIFO - Len(fifo) THEN Len(ring) ELSE FIFO - Len(fifo))
        /\ s = SubSeq(ring, 1, k) /\ at' = (IF at = "decide" THEN "fed" ELSE at)
        /\ fifo' = fifo \o s /\ played' = played + TimeOf(s)
        /\ UNCHANGED <<extra, heard, stale, fate>>
  BY DEF Feed, ghosts, TimeOf
<1>2. s \in Seq(Pulse) /\ Behind(fifo \o s, stale) = Queued \o s
  BY <1>1, Fed
<1>3. PICK a \in Seq(Pulse), b \in Seq(Pulse), m \in Seq(Pulse) : a = heard /\ b = Queued /\ m = heard \o Queued
  BY TimeTypes
<1>4. a \o (b \o s) = m \o s
  <2>1. (a \o b) \o s = a \o (b \o s)
    <3>1. Regrouped(a, b, s)
      BY ONLY a \in Seq(Pulse), b \in Seq(Pulse), <1>2, Regroup, ZenonT(40)
    <3> QED BY ONLY <3>1, Zenon DEF Regrouped
  <2> QED BY ONLY <1>3, <2>1
<1>5. TimeOf(m \o s) = TimeOf(m) + TimeOf(s) /\ TimeOf(m) \in Nat /\ TimeOf(s) \in Nat
  BY <1>2, TimedSounds, TimeConcat
<1>6. extra \in Nat /\ (at = "starting" => played \in Nat) /\ (fate = "loading" => played = extra + TimeOf(m))
  BY ONLY <1>3, Counted DEF Counted
<1>7. /\ extra' \in Nat /\ (at' = "starting" => played' \in Nat)
      /\ fate' = "loading" => played' = extra' + TimeOf(m \o s)
  <2>1. at' = "starting" => at = "starting"
    BY ONLY <1>1
  <2>2. PICK x, y, z : x = TimeOf(m) /\ y = TimeOf(s) /\ z = TimeOf(m \o s)
    OBVIOUS
  <2>3. x \in Nat /\ y \in Nat /\ z = x + y
    BY ONLY <1>5, <2>2
  <2>4. played' = played + y /\ extra' = extra /\ fate' = fate
    BY ONLY <1>1, <2>2
  <2>5. extra \in Nat /\ (at = "starting" => played \in Nat) /\ (fate = "loading" => played = extra + x)
    BY ONLY <1>6, <2>2
  <2>6. fate' = "loading" => played' = extra' + z
    BY ONLY <2>3, <2>4, <2>5
  <2> QED BY ONLY <2>1, <2>2, <2>3, <2>4, <2>5, <2>6
<1>8. heard' \o Queued' = m \o s
  BY ONLY <1>1, <1>2, <1>3, <1>4 DEF Queued
<1>9. PICK n : n = extra' + TimeOf(m \o s)
  OBVIOUS
<1>10. n = extra' + TimeOf(heard' \o Queued')
  BY ONLY <1>8, <1>9
<1>11. /\ extra' \in Nat /\ (at' = "starting" => played' \in Nat)
       /\ fate' = "loading" => played' = n
  BY ONLY <1>7, <1>9
<1> QED BY ONLY <1>10, <1>11 DEF Counted, Queued, TimeOf, SumOf, Durations

LEMMA ArmedCounts == ASSUME IInv, Counted, Armed PROVE Counted'
<1>1. /\ at = "starting" /\ at' = "top" /\ heard' = <<>> /\ fifo' = fifo
      /\ stale' = Len(fifo) /\ extra' = played' /\ (played' = 0 \/ played' = played)
  BY DEF Armed
<1>2. played' \in Nat /\ fifo \in Seq(Pulse)
  BY ONLY <1>1, IInv, Counted DEF IInv, Types, Counted
<1>3. Queued' = <<>>
  BY ONLY <1>1, <1>2, BehindFacts DEF Queued, Behind
<1>4. heard' \o Queued' = <<>>
  BY ONLY <1>1, <1>3
<1>5. PICK n : n = extra' + TimeOf(<<>>)
  OBVIOUS
<1>6. n = extra' + TimeOf(heard' \o Queued')
  BY ONLY <1>4, <1>5
<1>7. extra' \in Nat /\ played' = n /\ at' # "starting"
  <2>1. extra' \in Nat /\ extra' = played' /\ at' # "starting"
    BY ONLY <1>1, <1>2
  <2> QED BY ONLY <1>5, <2>1, TimeNone
<1> QED BY ONLY <1>6, <1>7 DEF Counted, Queued, TimeOf, SumOf, Durations

LEMMA CountedStep == ASSUME IInv, Counted, [Next]_vars PROVE Counted'
<1>1. CASE Produce
  BY <1>1, DeliveredCounts
     DEF Delivered, Produce, Pilot, SyncPulse, DataPulse, ListedPulse, Gap, Copy, unproduced, fabric, ghosts
<1>2. CASE DrainLook
  BY <1>2, DeliveredCounts DEF Delivered, DrainLook, feeder, fabric, ghosts
<1>3. CASE DrainDecide
  <2>1. CASE Drained \/ Stuck
    BY <1>3, <2>1 DEF DrainDecide, Counted
  <2>2. CASE ~(Drained \/ Stuck)
    BY <1>3, <2>2, DeliveredCounts DEF Delivered, DrainDecide
  <2> QED BY <2>1, <2>2
<1>4. CASE Feed
  BY <1>4, FeedCounts
<1>5. CASE Play
  BY <1>5, PlayCounts
<1>6. CASE Fall
  BY <1>6, DeliveredCounts DEF Delivered, Fall, feeder, ghosts
<1>7. CASE Discard
  <2>1. fate # "loading" /\ UNCHANGED <<at, played, extra, fate>>
    BY ONLY IInv, <1>7 DEF Discard, feeder, IInv, Control
  <2> QED BY ONLY <2>1, Counted DEF Counted
<1>8. CASE Armed
  BY <1>8, ArmedCounts
<1>9. CASE Resume
  BY <1>9, DeliveredCounts DEF Delivered, Resume, feeder, fabric, ghosts
<1>10. CASE TimePasses
  BY <1>10, DeliveredCounts DEF Delivered, TimePasses, feeder, fabric, ghosts
<1>11. CASE \E t \in DOMAIN Tapes : Start(t)
  BY <1>11 DEF Start, Counted
<1>12. CASE tape_stop
  BY <1>12 DEF tape_stop, Counted
<1>13. CASE Pause
  BY <1>13, DeliveredCounts DEF Delivered, Pause, feeder, fabric, ghosts
<1>14. CASE UNCHANGED vars
  BY <1>14, DeliveredCounts DEF Delivered, vars, feeder, fabric, ghosts
<1> QED BY <1>1, <1>2, <1>3, <1>4, <1>5, <1>6, <1>7, <1>8, <1>9, <1>10, <1>11, <1>12, <1>13, <1>14
        DEF Next, Fabric, User

\* TotalExact (the time computed at the start is the time delivered at the end)
\* for files that take some time and end within the turns tape_total_T gives them.
THEOREM TotalExactAlways == Short => (Spec => []TotalExact)
<1> SUFFICES ASSUME Short PROVE Spec => []TotalExact
  OBVIOUS
<1>1. Init => Counted
  BY DEF Init, Counted
<1>2. IInv /\ Counted /\ [Next]_vars => Counted'
  BY CountedStep
<1>3. IInv /\ Counted => TotalExact
  <2> SUFFICES ASSUME IInv, Counted, fate = "loading", drain, ring = <<>>
      PROVE  played = extra + tape_total_T(tape)
    BY DEF TotalExact
  <2>1. PICK s : s = Stream(heard, Queued, ring, Coming(tape, seg, lvl)) /\ s = Sent(tape)
    BY Loading
  <2>2. ring = <<>> /\ Coming(tape, seg, lvl) = <<>> /\ tape \in DOMAIN Tapes
    BY Loading
  <2>3. heard \in Seq(Pulse) /\ Queued \in Seq(Pulse)
    BY TimeTypes
  <2>4. heard \o Queued = s
    <3>1. <<>> \o <<>> = <<>> /\ Queued \o <<>> = Queued
      BY ONLY <2>3
    <3> QED BY ONLY <2>1, <2>2, <3>1 DEF Stream
  <2>5. played = extra + TimeOf(s)
    BY ONLY <2>4, Counted, fate = "loading" DEF Counted
  <2>6. tape_total_T(tape) = TimeOf(Sent(tape))
    BY <2>2, TotalTime
  <2> QED BY ONLY <2>1, <2>5, <2>6
<1> QED BY <1>1, <1>2, <1>3, TapeInvariant, PTL DEF Spec
=============================================================================
