-------------------------- MODULE FileOpsProofs --------------------------
(***************************************************************************)
(* FileOps for any card, any operations, and failures and power cuts at    *)
(* any moment and in any number: what copy_file_pg reports as copied is a  *)
(* copy, and no operation loses a file.  The invariant says how far the    *)
(* operation has come: entries behind the one in hand are as they were or  *)
(* copied, those ahead untouched, and for the one in hand each frame of    *)
(* the recursion says the same of its folder's entries.                    *)
(***************************************************************************)
EXTENDS FileOps, TLAPS

-----------------------------------------------------------------------------
(* Paths. *)

LEMMA PathLen == ASSUME NEW p \in Path  PROVE Len(p) \in Nat /\ (p # <<>> <=> Len(p) >= 1)
BY DEF Path

LEMMA PathAt == ASSUME NEW p \in Path, NEW k \in 1 .. Len(p)  PROVE p[k] \in Name
BY DEF Path

LEMMA PathEq ==
    ASSUME NEW p \in Path, NEW q \in Path, Len(p) = Len(q), \A k \in 1 .. Len(p) : p[k] = q[k]
    PROVE  p = q
BY DEF Path

LEMMA UnderAt ==
    ASSUME NEW p \in Path, NEW q \in Path
    PROVE  Under(p, q) <=> Len(p) <= Len(q) /\ \A k \in 1 .. Len(p) : p[k] = q[k]
BY DEF Under, IsPrefix, Path

LEMMA Cut ==
    ASSUME NEW p \in Path, NEW n \in 0 .. Len(p)
    PROVE  /\ SubSeq(p, 1, n) \in Path /\ Len(SubSeq(p, 1, n)) = n
           /\ \A k \in 1 .. n : SubSeq(p, 1, n)[k] = p[k]
BY DEF Path

LEMMA Longer ==
    ASSUME NEW p \in Path, NEW x \in Name
    PROVE  /\ Append(p, x) \in Path /\ Len(Append(p, x)) = Len(p) + 1
           /\ Append(p, x)[Len(p) + 1] = x
           /\ \A k \in 1 .. Len(p) : Append(p, x)[k] = p[k]
BY DEF Path

LEMMA UnderSelf == ASSUME NEW p \in Path  PROVE Under(p, p)
BY UnderAt, PathLen

LEMMA UnderTwice ==
    ASSUME NEW p \in Path, NEW q \in Path, NEW r \in Path, Under(p, q), Under(q, r)
    PROVE  Under(p, r)
BY UnderAt, PathLen

LEMMA UnderBoth ==
    ASSUME NEW p \in Path, NEW q \in Path, NEW r \in Path, Under(p, r), Under(q, r), Len(p) = Len(q)
    PROVE  p = q
BY UnderAt, PathEq, PathLen

\* Of two folders above a third, one is above the other.
LEMMA UnderLine ==
    ASSUME NEW p \in Path, NEW q \in Path, NEW r \in Path, Under(p, r), Under(q, r), Len(p) <= Len(q)
    PROVE  Under(p, q)
BY UnderAt, PathLen

LEMMA UnderEq ==
    ASSUME NEW p \in Path, NEW q \in Path, Under(p, q), Len(p) >= Len(q)
    PROVE  p = q
BY UnderAt, PathEq, PathLen

\* An entry of a folder.
LEMMA Child ==
    ASSUME NEW q \in Path, q # <<>>
    PROVE  /\ Front(q) \in Path /\ Len(q) = Len(Front(q)) + 1 /\ Last(q) \in Name
           /\ Under(Front(q), q) /\ Front(q) # q /\ q = Append(Front(q), Last(q))
<1>1. Len(q) - 1 \in 0 .. Len(q) /\ Len(q) \in Nat /\ Len(q) >= 1
  BY PathLen
<1>2. Front(q) \in Path /\ Len(Front(q)) = Len(q) - 1 /\ \A k \in 1 .. Len(q) - 1 : Front(q)[k] = q[k]
  BY <1>1, Cut DEF Front
<1>3. Under(Front(q), q)
  BY <1>1, <1>2, UnderAt
<1>4. Last(q) \in Name
  BY <1>1, PathAt DEF Last
<1>5. q = Append(Front(q), Last(q))
  <2> DEFINE r == Append(Front(q), Last(q))
  <2>1. r \in Path /\ Len(r) = Len(q) /\ r[Len(q)] = q[Len(q)]
    <3>1. Len(Front(q)) + 1 = Len(q)
      BY <1>1, <1>2
    <3>2. r \in Path /\ Len(r) = Len(Front(q)) + 1 /\ r[Len(Front(q)) + 1] = Last(q)
      BY <1>2, <1>4, Longer
    <3> QED BY <3>1, <3>2 DEF Last
  <2>2. \A k \in 1 .. Len(q) - 1 : r[k] = q[k]
    BY <1>1, <1>2, <1>4, Longer
  <2> HIDE DEF r
  <2>3. \A k \in 1 .. Len(q) : r[k] = q[k]
    BY <1>1, <2>1, <2>2
  <2>4. r = q
    BY <2>1, <2>3, PathEq
  <2> QED BY <2>4 DEF r
<1> QED BY <1>1, <1>2, <1>3, <1>4, <1>5

LEMMA ChildOf ==
    ASSUME NEW p \in Path, NEW x \in Name
    PROVE  Append(p, x) # <<>> /\ Front(Append(p, x)) = p /\ Last(Append(p, x)) = x
<1> DEFINE q == Append(p, x)
<1>1. q \in Path /\ Len(q) = Len(p) + 1 /\ q[Len(p) + 1] = x /\ \A k \in 1 .. Len(p) : q[k] = p[k]
  BY Longer
<1> HIDE DEF q
<1>2. q # <<>>
  BY <1>1, PathLen
<1>3. Front(q) \in Path /\ Len(Front(q)) = Len(p) /\ Under(Front(q), q)
  BY <1>1, <1>2, Child, PathLen
<1>4. Under(p, q)
  BY <1>1, UnderAt, PathLen
<1>5. Front(q) = p
  BY <1>1, <1>3, <1>4, UnderBoth
<1> QED BY <1>1, <1>2, <1>5 DEF q, Last

\* The entry of a folder on the way to what is below it.
LEMMA Toward ==
    ASSUME NEW p \in Path, NEW q \in Path, Under(p, q), p # q
    PROVE  LET c == SubSeq(q, 1, Len(p) + 1)
           IN  /\ Len(p) < Len(q)
               /\ c \in Path /\ c # <<>> /\ Front(c) = p /\ Under(c, q) /\ Len(c) = Len(p) + 1
<1> DEFINE c == SubSeq(q, 1, Len(p) + 1)
<1>1. Len(p) < Len(q)
  BY UnderEq, PathLen
<1>2. Len(p) + 1 \in 0 .. Len(q)
  BY <1>1, PathLen
<1>3. c \in Path /\ Len(c) = Len(p) + 1 /\ \A k \in 1 .. Len(p) + 1 : c[k] = q[k]
  BY <1>2, Cut
<1> HIDE DEF c
<1>4. Under(c, q)
  BY <1>2, <1>3, UnderAt
<1>5. c # <<>>
  BY <1>3, PathLen
<1>6. Front(c) \in Path /\ Len(Front(c)) = Len(p) /\ Under(Front(c), q)
  BY <1>3, <1>4, <1>5, Child, UnderTwice, PathLen
<1>7. Front(c) = p
  BY <1>6, UnderBoth
<1> QED BY <1>1, <1>3, <1>4, <1>5, <1>7 DEF c

\* Two entries of one folder have nothing in common below them.
LEMMA SiblingsApart ==
    ASSUME NEW p \in Path, NEW q \in Path, NEW r \in Path,
           p # <<>>, q # <<>>, Front(p) = Front(q), Under(p, r), Under(q, r)
    PROVE  p = q
BY Child, UnderBoth, PathLen

-----------------------------------------------------------------------------
(* Where an entry goes. *)

\* The entry at place i of an operation's snapshot, and its target.
RootOf(o, i) == Append(Here, o.names[i])
DstOf(o, i) == Append(o.folder, IF o.as = "" THEN o.names[i] ELSE o.as)
Chosen(o, p) == \E i \in DOMAIN o.names : Under(RootOf(o, i), p)
Onto(o) == o.folder = Here /\ (o.as = "" \/ o.as = o.names[1])
Goes(o, p) ==
    Append(o.folder, IF o.as = "" THEN p[Len(Here) + 1] ELSE o.as) \o SubSeq(p, Len(Here) + 2, Len(p))

Deep(o) == Len(o.folder)

LEMMA OpParts ==
    ASSUME NEW o \in Ops
    PROVE  /\ Here \in Path /\ Len(Here) \in Nat /\ o \in OpType
           /\ o.folder \in Path /\ Deep(o) = Len(o.folder) /\ Deep(o) \in Nat /\ o.as \in Name
           /\ o.names \in Seq(Name) /\ Len(o.names) \in Nat /\ DOMAIN o.names = 1 .. Len(o.names)
           /\ \A i \in DOMAIN o.names : o.names[i] \in Name
           /\ \A i, j \in DOMAIN o.names : o.names[i] = o.names[j] => i = j
           /\ o.as # "" => Len(o.names) = 1
           /\ o.kind \in {"rename", "recase"} => o.folder = Here /\ Len(o.names) = 1
           /\ \A i \in DOMAIN o.names : ~Under(RootOf(o, i), o.folder)
           /\ 1 \in DOMAIN o.names
<1>1. Here \in Path /\ o \in OpType /\ IsInjective(o.names) /\ o.names # <<>>
  BY FileOpsAssumption
<1>2. o.folder \in Path /\ o.as \in Name /\ o.names \in Seq(Name)
  BY <1>1 DEF OpType
<1>3. /\ Len(o.names) \in Nat /\ DOMAIN o.names = 1 .. Len(o.names)
      /\ \A i \in DOMAIN o.names : o.names[i] \in Name
  BY <1>2
<1>4. \A i, j \in DOMAIN o.names : o.names[i] = o.names[j] => i = j
  BY <1>1 DEF IsInjective
<1>5. Len(Here) \in Nat /\ Deep(o) \in Nat /\ Deep(o) = Len(o.folder)
  BY <1>1, <1>2, PathLen DEF Deep
<1>6. /\ o.as # "" => Len(o.names) = 1
      /\ o.kind \in {"rename", "recase"} => o.folder = Here /\ Len(o.names) = 1
      /\ \A i \in DOMAIN o.names : ~Under(RootOf(o, i), o.folder)
  BY FileOpsAssumption DEF Under, RootOf
<1>7. 1 \in DOMAIN o.names
  <2>1. Len(o.names) # 0
    BY <1>1, <1>2
  <2> QED BY <1>3, <2>1
<1> QED BY <1>1, <1>2, <1>3, <1>4, <1>5, <1>6, <1>7

LEMMA RootAt ==
    ASSUME NEW o \in Ops, NEW i \in DOMAIN o.names
    PROVE  /\ RootOf(o, i) \in Path /\ Len(RootOf(o, i)) = Len(Here) + 1 /\ RootOf(o, i) # <<>>
           /\ RootOf(o, i)[Len(Here) + 1] = o.names[i]
           /\ \A k \in 1 .. Len(Here) : RootOf(o, i)[k] = Here[k]
           /\ Front(RootOf(o, i)) = Here
<1>1. Here \in Path /\ o.names[i] \in Name
  BY OpParts
<1>2. /\ Append(Here, o.names[i]) \in Path /\ Len(Append(Here, o.names[i])) = Len(Here) + 1
      /\ Append(Here, o.names[i])[Len(Here) + 1] = o.names[i]
      /\ \A k \in 1 .. Len(Here) : Append(Here, o.names[i])[k] = Here[k]
  BY <1>1, Longer
<1>3. Append(Here, o.names[i]) # <<>> /\ Front(Append(Here, o.names[i])) = Here
  BY <1>1, ChildOf
<1> QED BY <1>2, <1>3 DEF RootOf

LEMMA DstAt ==
    ASSUME NEW o \in Ops, NEW i \in DOMAIN o.names
    PROVE  /\ DstOf(o, i) \in Path /\ Len(DstOf(o, i)) = Deep(o) + 1
           /\ DstOf(o, i)[Deep(o) + 1] = (IF o.as = "" THEN o.names[i] ELSE o.as)
           /\ \A k \in 1 .. Deep(o) : DstOf(o, i)[k] = o.folder[k]
           /\ Front(DstOf(o, i)) = o.folder /\ DstOf(o, i) # <<>>
<1> DEFINE x == IF o.as = "" THEN o.names[i] ELSE o.as
<1>1. o.folder \in Path /\ x \in Name
  BY OpParts
<1> HIDE DEF x
<1>2. /\ Append(o.folder, x) \in Path /\ Len(Append(o.folder, x)) = Deep(o) + 1
      /\ Append(o.folder, x)[Deep(o) + 1] = x
      /\ \A k \in 1 .. Deep(o) : Append(o.folder, x)[k] = o.folder[k]
  BY <1>1, Longer DEF Deep
<1>3. Append(o.folder, x) # <<>> /\ Front(Append(o.folder, x)) = o.folder
  BY <1>1, ChildOf
<1> QED BY <1>2, <1>3 DEF DstOf, x

\* Two entries of the snapshot have nothing below them in common.
LEMMA RootsApart ==
    ASSUME NEW o \in Ops, NEW i \in DOMAIN o.names, NEW j \in DOMAIN o.names, NEW p \in Path,
           Under(RootOf(o, i), p), Under(RootOf(o, j), p)
    PROVE  i = j
<1>1. RootOf(o, i) = RootOf(o, j)
  BY RootAt, UnderBoth
<1>2. o.names[i] = o.names[j]
  <2>1. RootOf(o, i)[Len(Here) + 1] = o.names[i]
    BY RootAt
  <2>2. RootOf(o, j)[Len(Here) + 1] = o.names[j]
    BY RootAt
  <2> QED BY <1>1, <2>1, <2>2
<1> QED BY <1>2, OpParts

\* What lies below an entry of the snapshot.
LEMMA InAt ==
    ASSUME NEW o \in Ops, NEW i \in DOMAIN o.names, NEW p \in Path
    PROVE  Under(RootOf(o, i), p) <=> /\ Len(p) >= Len(Here) + 1 /\ p[Len(Here) + 1] = o.names[i]
                                      /\ \A k \in 1 .. Len(Here) : p[k] = Here[k]
<1>1. /\ RootOf(o, i) \in Path /\ Len(RootOf(o, i)) = Len(Here) + 1
      /\ RootOf(o, i)[Len(Here) + 1] = o.names[i]
      /\ \A k \in 1 .. Len(Here) : RootOf(o, i)[k] = Here[k]
  BY RootAt
<1>2. Len(Here) \in Nat /\ Len(p) \in Nat
  BY OpParts, PathLen
<1>3. Under(RootOf(o, i), p) <=>
          Len(RootOf(o, i)) <= Len(p) /\ \A k \in 1 .. Len(RootOf(o, i)) : RootOf(o, i)[k] = p[k]
  BY <1>1, UnderAt
<1> QED BY <1>1, <1>2, <1>3

LEMMA Joined ==
    ASSUME NEW S, NEW s \in Seq(S), NEW t \in Seq(S)
    PROVE  /\ s \o t \in Seq(S) /\ Len(s \o t) = Len(s) + Len(t)
           /\ \A k \in 1 .. Len(s) : (s \o t)[k] = s[k]
           /\ \A k \in 1 .. Len(t) : (s \o t)[Len(s) + k] = t[k]
OBVIOUS

\* The target, letter by letter.
LEMMA GoesAt ==
    ASSUME NEW o \in Ops, NEW p \in Path, Len(p) >= Len(Here) + 1
    PROVE  /\ Goes(o, p) \in Path /\ Len(Goes(o, p)) = Deep(o) + Len(p) - Len(Here)
           /\ \A k \in 1 .. Deep(o) : Goes(o, p)[k] = o.folder[k]
           /\ Goes(o, p)[Deep(o) + 1] = (IF o.as = "" THEN p[Len(Here) + 1] ELSE o.as)
           /\ \A k \in Len(Here) + 2 .. Len(p) : Goes(o, p)[Deep(o) + k - Len(Here)] = p[k]
<1> DEFINE x == IF o.as = "" THEN p[Len(Here) + 1] ELSE o.as
           a == Append(o.folder, x)
           b == SubSeq(p, Len(Here) + 2, Len(p))
<1>1. Len(Here) \in Nat /\ Deep(o) \in Nat /\ Len(p) \in Nat /\ o.folder \in Path
  BY OpParts, PathLen
<1>2. x \in Name
  <2>1. Len(Here) + 1 \in 1 .. Len(p)
    BY <1>1
  <2>2. p[Len(Here) + 1] \in Name
    BY <2>1, PathAt
  <2> QED BY <2>2, OpParts
<1> HIDE DEF x
<1>3. /\ a \in Path /\ Len(a) = Deep(o) + 1 /\ a[Deep(o) + 1] = x
      /\ \A k \in 1 .. Deep(o) : a[k] = o.folder[k]
  BY <1>1, <1>2, Longer DEF Deep
<1>4. /\ b \in Path /\ Len(b) = Len(p) - Len(Here) - 1
      /\ \A k \in 1 .. Len(p) - Len(Here) - 1 : b[k] = p[Len(Here) + 1 + k]
  BY <1>1 DEF Path
<1> HIDE DEF a, b
<1> DEFINE r == a \o b
<1>5. r \in Path /\ Len(r) = Len(a) + Len(b)
  BY <1>3, <1>4, Joined DEF Path
<1>6. /\ \A k \in 1 .. Len(a) : r[k] = a[k]
      /\ \A k \in 1 .. Len(b) : r[Len(a) + k] = b[k]
  <2>1. a \in Seq(Name) /\ b \in Seq(Name)
    BY <1>3, <1>4 DEF Path
  <2> QED BY ONLY <2>1, Joined
<1>7. Goes(o, p) = r
  BY DEF Goes, x, a, b
<1> HIDE DEF r
<1>8. Len(r) = Deep(o) + Len(p) - Len(Here)
  BY <1>1, <1>3, <1>4, <1>5
<1>9. \A k \in 1 .. Deep(o) : r[k] = o.folder[k]
  BY <1>1, <1>3, <1>6
<1>10. r[Deep(o) + 1] = x
  BY <1>1, <1>3, <1>6
<1>11. ASSUME NEW k \in Len(Here) + 2 .. Len(p)  PROVE r[Deep(o) + k - Len(Here)] = p[k]
  <2> DEFINE j == k - Len(Here) - 1
  <2>1. j \in 1 .. Len(p) - Len(Here) - 1 /\ Len(a) + j = Deep(o) + k - Len(Here) /\ Len(Here) + 1 + j = k
    BY <1>1, <1>3
  <2> HIDE DEF j
  <2>2. r[Len(a) + j] = b[j] /\ b[j] = p[Len(Here) + 1 + j]
    BY <2>1, <1>4, <1>6
  <2> QED BY <2>1, <2>2
<1> QED BY <1>5, <1>7, <1>8, <1>9, <1>10, <1>11 DEF x

\* Two selected entries go to two places.
LEMMA GoesInjective ==
    ASSUME NEW o \in Ops, NEW p \in Path, NEW q \in Path, Chosen(o, p), Chosen(o, q), Goes(o, p) = Goes(o, q)
    PROVE  p = q
<1> PICK i \in DOMAIN o.names : Under(RootOf(o, i), p)
  BY DEF Chosen
<1> PICK j \in DOMAIN o.names : Under(RootOf(o, j), q)
  BY DEF Chosen
<1>1. Len(Here) \in Nat /\ Deep(o) \in Nat /\ Len(p) \in Nat /\ Len(q) \in Nat
  BY OpParts, PathLen
<1>2. Len(p) >= Len(Here) + 1 /\ p[Len(Here) + 1] = o.names[i] /\ \A k \in 1 .. Len(Here) : p[k] = Here[k]
  BY InAt
<1>3. Len(q) >= Len(Here) + 1 /\ q[Len(Here) + 1] = o.names[j] /\ \A k \in 1 .. Len(Here) : q[k] = Here[k]
  BY InAt
<1>4. Len(p) = Len(q)
  <2>1. Len(Goes(o, p)) = Deep(o) + Len(p) - Len(Here)
    BY <1>2, GoesAt
  <2>2. Len(Goes(o, q)) = Deep(o) + Len(q) - Len(Here)
    BY <1>3, GoesAt
  <2> QED BY <1>1, <2>1, <2>2
<1>5. p[Len(Here) + 1] = q[Len(Here) + 1]
  <2>1. CASE o.as = ""
    <3>1. Goes(o, p)[Deep(o) + 1] = p[Len(Here) + 1]
      BY <2>1, <1>2, GoesAt
    <3>2. Goes(o, q)[Deep(o) + 1] = q[Len(Here) + 1]
      BY <2>1, <1>3, GoesAt
    <3> QED BY <3>1, <3>2
  <2>2. CASE o.as # ""
    <3>1. Len(o.names) = 1 /\ DOMAIN o.names = 1 .. Len(o.names)
      BY <2>2, OpParts
    <3>2. i = j
      BY <3>1
    <3> QED BY <3>2, <1>2, <1>3
  <2> QED BY <2>1, <2>2
<1>6. ASSUME NEW k \in Len(Here) + 2 .. Len(p)  PROVE p[k] = q[k]
  <2>1. k \in Len(Here) + 2 .. Len(q)
    BY <1>4
  <2>2. Goes(o, p)[Deep(o) + k - Len(Here)] = p[k]
    BY <1>2, GoesAt
  <2>3. Goes(o, q)[Deep(o) + k - Len(Here)] = q[k]
    BY <2>1, <1>3, GoesAt
  <2> QED BY <2>2, <2>3
<1>7. \A k \in 1 .. Len(p) : p[k] = q[k]
  BY <1>1, <1>2, <1>3, <1>5, <1>6
<1> QED BY <1>4, <1>7, PathEq

LEMMA InLonger ==
    ASSUME NEW o \in Ops, NEW p \in Path, Chosen(o, p)
    PROVE  Len(p) >= Len(Here) + 1 /\ Len(p) \in Nat /\ Len(Here) \in Nat /\ Deep(o) \in Nat
BY InAt, OpParts, PathLen DEF Chosen

LEMMA InUnder ==
    ASSUME NEW o \in Ops, NEW p \in Path, NEW q \in Path, Chosen(o, p), Under(p, q)
    PROVE  Chosen(o, q)
<1> PICK i \in DOMAIN o.names : Under(RootOf(o, i), p)
  BY DEF Chosen
<1>1. Under(RootOf(o, i), q)
  BY RootAt, UnderTwice
<1> QED BY <1>1 DEF Chosen

LEMMA RootIn == ASSUME NEW o \in Ops, NEW i \in DOMAIN o.names  PROVE Chosen(o, RootOf(o, i))
BY RootAt, UnderSelf DEF Chosen

\* An entry of the snapshot goes to its place in the target folder.
LEMMA GoesRoot ==
    ASSUME NEW o \in Ops, NEW i \in DOMAIN o.names
    PROVE  Goes(o, RootOf(o, i)) = DstOf(o, i)
<1> DEFINE p == RootOf(o, i)
<1>1. /\ p \in Path /\ Len(p) = Len(Here) + 1 /\ p[Len(Here) + 1] = o.names[i]
  BY RootAt
<1> HIDE DEF p
<1>2. Len(Here) \in Nat /\ Deep(o) \in Nat
  BY OpParts
<1>0. Len(p) >= Len(Here) + 1
  BY <1>1, <1>2
<1>3. Goes(o, p) \in Path /\ Len(Goes(o, p)) = Deep(o) + 1
  <2>2. Goes(o, p) \in Path /\ Len(Goes(o, p)) = Deep(o) + Len(p) - Len(Here)
    BY <1>1, <1>0, GoesAt
  <2> QED BY <1>1, <1>2, <2>2
<1>4. /\ \A k \in 1 .. Deep(o) : Goes(o, p)[k] = o.folder[k]
      /\ Goes(o, p)[Deep(o) + 1] = (IF o.as = "" THEN p[Len(Here) + 1] ELSE o.as)
  BY <1>1, <1>0, GoesAt
<1>5. /\ DstOf(o, i) \in Path /\ Len(DstOf(o, i)) = Deep(o) + 1
      /\ DstOf(o, i)[Deep(o) + 1] = (IF o.as = "" THEN o.names[i] ELSE o.as)
      /\ \A k \in 1 .. Deep(o) : DstOf(o, i)[k] = o.folder[k]
  BY DstAt
<1>6. Goes(o, p)[Deep(o) + 1] = DstOf(o, i)[Deep(o) + 1]
  BY <1>1, <1>4, <1>5
<1>7. ASSUME NEW k \in 1 .. Len(Goes(o, p))  PROVE Goes(o, p)[k] = DstOf(o, i)[k]
  <2>1. k \in 1 .. Deep(o) \/ k = Deep(o) + 1
    BY <1>2, <1>3
  <2> QED BY <2>1, <1>4, <1>5, <1>6
<1>8. Goes(o, p) = DstOf(o, i)
  BY <1>3, <1>5, <1>7, PathEq
<1> QED BY <1>8 DEF p

\* What is below a selected entry goes below its target.
LEMMA GoesUnder ==
    ASSUME NEW o \in Ops, NEW p \in Path, NEW q \in Path, Chosen(o, p), Under(p, q)
    PROVE  Under(Goes(o, p), Goes(o, q))
<1>1. Len(p) >= Len(Here) + 1 /\ Len(p) \in Nat /\ Len(Here) \in Nat /\ Deep(o) \in Nat
  BY InLonger
<1>2. Len(q) \in Nat /\ Len(p) <= Len(q) /\ \A k \in 1 .. Len(p) : p[k] = q[k]
  BY UnderAt, PathLen
<1>3. Len(q) >= Len(Here) + 1
  BY <1>1, <1>2
<1>4. Goes(o, p) \in Path /\ Len(Goes(o, p)) = Deep(o) + Len(p) - Len(Here)
  BY <1>1, GoesAt
<1>5. Goes(o, q) \in Path /\ Len(Goes(o, q)) = Deep(o) + Len(q) - Len(Here)
  BY <1>3, GoesAt
<1>6. ASSUME NEW k \in 1 .. Len(Goes(o, p))  PROVE Goes(o, p)[k] = Goes(o, q)[k]
  <2>1. CASE k <= Deep(o)
    <3>1. k \in 1 .. Deep(o)
      BY <2>1, <1>1, <1>4
    <3>2. Goes(o, p)[k] = o.folder[k]
      BY <3>1, <1>1, GoesAt
    <3>3. Goes(o, q)[k] = o.folder[k]
      BY <3>1, <1>3, GoesAt
    <3> QED BY <3>2, <3>3
  <2>2. CASE k = Deep(o) + 1
    <3>1. p[Len(Here) + 1] = q[Len(Here) + 1]
      BY <1>1, <1>2
    <3>2. Goes(o, p)[Deep(o) + 1] = (IF o.as = "" THEN p[Len(Here) + 1] ELSE o.as)
      BY <1>1, GoesAt
    <3>3. Goes(o, q)[Deep(o) + 1] = (IF o.as = "" THEN q[Len(Here) + 1] ELSE o.as)
      BY <1>3, GoesAt
    <3> QED BY <2>2, <3>1, <3>2, <3>3
  <2>3. CASE k > Deep(o) + 1
    <3>a. k \in Nat /\ k <= Deep(o) + Len(p) - Len(Here)
      BY <1>1, <1>4
    <3>0. PICK j \in Int : j = k - Deep(o) + Len(Here)
      BY <3>a, <1>1
    <3>1. j \in Nat /\ j >= Len(Here) + 2 /\ j <= Len(p) /\ Deep(o) + j - Len(Here) = k
      BY <3>a, <3>0, <1>1, <2>3
    <3>2. j \in Len(Here) + 2 .. Len(p) /\ j \in Len(Here) + 2 .. Len(q) /\ j \in 1 .. Len(p)
      BY <3>1, <1>1, <1>2
    <3>3. Goes(o, p)[Deep(o) + j - Len(Here)] = p[j]
      BY <3>2, <1>1, GoesAt
    <3>4. Goes(o, q)[Deep(o) + j - Len(Here)] = q[j]
      BY <3>2, <1>3, GoesAt
    <3> QED BY <3>1, <3>2, <3>3, <3>4, <1>2
  <2> QED BY <1>1, <1>4, <2>1, <2>2, <2>3
<1>7. Len(Goes(o, p)) <= Len(Goes(o, q))
  BY <1>1, <1>2, <1>4, <1>5
<1> QED BY <1>4, <1>5, <1>6, <1>7, UnderAt

\* A child goes to the child of that name (copy_entry's path_join of both).
LEMMA GoesChild ==
    ASSUME NEW o \in Ops, NEW q \in Path, q # <<>>, Chosen(o, Front(q))
    PROVE  Goes(o, q) = Append(Goes(o, Front(q)), Last(q)) /\ Chosen(o, q)
<1>1. Front(q) \in Path /\ Len(q) = Len(Front(q)) + 1 /\ Last(q) \in Name /\ Under(Front(q), q)
  BY Child
<1>2. Chosen(o, q) /\ Under(Goes(o, Front(q)), Goes(o, q))
  BY <1>1, InUnder, GoesUnder
<1>3. /\ Len(Front(q)) >= Len(Here) + 1 /\ Len(Front(q)) \in Nat
      /\ Len(Here) \in Nat /\ Deep(o) \in Nat
  BY <1>1, InLonger
<1>a. Len(q) >= Len(Here) + 1 /\ Len(q) \in Nat
  BY <1>1, <1>3
<1>4. Goes(o, Front(q)) \in Path /\ Len(Goes(o, Front(q))) = Deep(o) + Len(Front(q)) - Len(Here)
  BY <1>1, <1>3, GoesAt
<1>5. Goes(o, q) \in Path /\ Len(Goes(o, q)) = Deep(o) + Len(q) - Len(Here)
  BY <1>a, GoesAt
<1> DEFINE a == Goes(o, Front(q))
           b == Goes(o, q)
<1> HIDE DEF a, b
<1>6. Len(b) = Len(a) + 1 /\ Len(a) \in Nat
  <2>1. Len(a) = Deep(o) + Len(Front(q)) - Len(Here) /\ Len(b) = Deep(o) + Len(q) - Len(Here)
    BY <1>4, <1>5 DEF a, b
  <2> QED BY <2>1, <1>1, <1>3, <1>a
<1>7. b[Len(b)] = q[Len(q)]
  <2>1. Len(q) \in Len(Here) + 2 .. Len(q)
    BY <1>1, <1>3
  <2>2. b[Deep(o) + Len(q) - Len(Here)] = q[Len(q)]
    <3>1. \A k \in Len(Here) + 2 .. Len(q) : Goes(o, q)[Deep(o) + k - Len(Here)] = q[k]
      BY <1>a, GoesAt
    <3> QED BY <2>1, <3>1 DEF b
  <2> QED BY <1>5, <2>2 DEF a, b
<1>8. b # <<>>
  BY <1>5, <1>6, PathLen DEF a, b
<1>9. Front(b) \in Path /\ Len(b) = Len(Front(b)) + 1 /\ Under(Front(b), b) /\ b = Append(Front(b), Last(b))
  BY <1>5, <1>8, Child DEF a, b
<1>10. Front(b) = a
  BY <1>2, <1>4, <1>5, <1>6, <1>9, UnderBoth, PathLen DEF a, b
<1>11. Last(b) = Last(q)
  BY <1>7 DEF Last
<1> QED BY <1>2, <1>9, <1>10, <1>11 DEF a, b

\* No target lies in a selected entry, if none of them goes to its own place.
LEMMA Disjoint ==
    ASSUME NEW o \in Ops, ~Onto(o), \A k \in DOMAIN o.names : ~Under(DstOf(o, k), Here),
           NEW i \in DOMAIN o.names, NEW d \in Path, Under(DstOf(o, i), d)
    PROVE  ~Chosen(o, d)
<1> SUFFICES ASSUME NEW j \in DOMAIN o.names, Under(RootOf(o, j), d)
             PROVE  FALSE
  BY DEF Chosen
<1> DEFINE a == RootOf(o, j)
           b == DstOf(o, i)
<1>1. a \in Path /\ Len(a) = Len(Here) + 1 /\ Front(a) = Here /\ a # <<>>
  BY RootAt
<1>2. b \in Path /\ Len(b) = Deep(o) + 1 /\ Front(b) = o.folder /\ b # <<>>
  BY DstAt
<1>3. Len(Here) \in Nat /\ Deep(o) \in Nat /\ Deep(o) = Len(o.folder) /\ Here \in Path /\ o.folder \in Path
  BY OpParts
<1>4. ~Under(a, o.folder) /\ ~Under(b, Here)
  BY OpParts
<1>5. Under(a, d) /\ Under(b, d)
  OBVIOUS
<1>6. Under(Here, a) /\ Under(o.folder, b)
  BY <1>1, <1>2, Child
<1>7. Under(Here, d) /\ Under(o.folder, d)
  BY <1>1, <1>2, <1>3, <1>5, <1>6, UnderTwice
<1>8. CASE Len(Here) < Deep(o)
  <2>1. Len(a) <= Deep(o)
    BY <1>1, <1>3, <1>8
  <2>2. Under(a, o.folder)
    BY <2>1, <1>1, <1>3, <1>5, <1>7, UnderLine
  <2> QED BY <2>2, <1>4
<1>9. CASE Deep(o) < Len(Here)
  <2>1. Under(b, Here)
    BY <1>2, <1>3, <1>5, <1>7, <1>9, UnderLine
  <2> QED BY <2>1, <1>4
<1>10. CASE Len(Here) = Deep(o)
  <2>1. a = b
    BY <1>1, <1>2, <1>5, <1>10, UnderBoth
  <2>2. Here = o.folder
    BY <2>1, <1>1, <1>2
  <2>3. o.names[j] = (IF o.as = "" THEN o.names[i] ELSE o.as)
    <3>1. a[Len(Here) + 1] = o.names[j]
      BY RootAt
    <3>2. b[Deep(o) + 1] = (IF o.as = "" THEN o.names[i] ELSE o.as)
      BY DstAt
    <3> QED BY <3>1, <3>2, <2>1, <2>2, <1>10
  <2>4. CASE o.as # ""
    <3>1. Len(o.names) = 1 /\ DOMAIN o.names = 1 .. Len(o.names)
      BY <2>4, OpParts
    <3>2. j = 1
      BY <3>1
    <3> QED BY <2>2, <2>3, <2>4, <3>2 DEF Onto
  <2>5. CASE o.as = ""
    BY <2>2, <2>5 DEF Onto
  <2> QED BY <2>4, <2>5
<1> QED BY <1>3, <1>8, <1>9, <1>10

-----------------------------------------------------------------------------
(* Volumes. *)

\* A volume, with the folders above an entry in place of the prefixes of its path.
LEMMA VolumeIs ==
    ASSUME NEW v
    PROVE  IsVolume(v) <=>
              /\ \A p \in DOMAIN v : p \in Path /\ v[p] \in Node
              /\ \A p \in DOMAIN v, q \in Path : Under(q, p) /\ q # p => q \in DOMAIN v /\ v[q].dir
<1>1. ASSUME IsVolume(v), NEW p \in DOMAIN v, NEW q \in Path, Under(q, p), q # p
      PROVE  q \in DOMAIN v /\ v[q].dir
  <2>1. p \in Path
    BY <1>1 DEF IsVolume
  <2>2. Len(q) < Len(p) /\ Len(q) \in Nat /\ Len(p) \in Nat
    BY <1>1, <2>1, UnderAt, UnderEq, PathLen
  <2>3. Len(q) \in 0 .. Len(p) - 1 /\ Len(q) \in 0 .. Len(p)
    BY <2>2
  <2>4. SubSeq(p, 1, Len(q)) = q
    <3>1. /\ SubSeq(p, 1, Len(q)) \in Path /\ Len(SubSeq(p, 1, Len(q))) = Len(q)
          /\ \A k \in 1 .. Len(q) : SubSeq(p, 1, Len(q))[k] = p[k]
      BY <2>1, <2>3, Cut
    <3>2. \A k \in 1 .. Len(q) : q[k] = p[k]
      BY <1>1, <2>1, UnderAt
    <3> QED BY <3>1, <3>2, PathEq
  <2> QED BY <1>1, <2>3, <2>4 DEF IsVolume
<1>2. ASSUME \A p \in DOMAIN v : p \in Path /\ v[p] \in Node,
             \A p \in DOMAIN v, q \in Path : Under(q, p) /\ q # p => q \in DOMAIN v /\ v[q].dir,
             NEW p \in DOMAIN v, NEW n \in 0 .. Len(p) - 1
      PROVE  SubSeq(p, 1, n) \in DOMAIN v /\ v[SubSeq(p, 1, n)].dir
  <2>1. p \in Path /\ Len(p) \in Nat
    BY <1>2, PathLen
  <2>2. n \in 0 .. Len(p) /\ n < Len(p)
    BY <2>1
  <2>3. /\ SubSeq(p, 1, n) \in Path /\ Len(SubSeq(p, 1, n)) = n
        /\ \A k \in 1 .. n : SubSeq(p, 1, n)[k] = p[k]
    BY <2>1, <2>2, Cut
  <2>4. Under(SubSeq(p, 1, n), p) /\ SubSeq(p, 1, n) # p
    <3>1. SubSeq(p, 1, n) # p
      BY <2>1, <2>2, <2>3
    <3>2. Under(SubSeq(p, 1, n), p)
      <4> DEFINE c == SubSeq(p, 1, n)
      <4>1. c \in Path /\ Len(c) <= Len(p) /\ \A k \in 1 .. Len(c) : c[k] = p[k]
        BY <2>1, <2>2, <2>3
      <4> HIDE DEF c
      <4>2. Under(c, p)
        BY <2>1, <4>1, UnderAt
      <4> QED BY <4>2 DEF c
    <3> QED BY <3>1, <3>2
  <2> QED BY <1>2, <2>3, <2>4
<1>3. IsVolume(v) => \A p \in DOMAIN v : p \in Path /\ v[p] \in Node
  BY DEF IsVolume
<1>4. IsVolume(v) => \A p \in DOMAIN v, q \in Path : Under(q, p) /\ q # p => q \in DOMAIN v /\ v[q].dir
  BY <1>1
<1>5. ASSUME \A p \in DOMAIN v : p \in Path /\ v[p] \in Node,
             \A p \in DOMAIN v, q \in Path : Under(q, p) /\ q # p => q \in DOMAIN v /\ v[q].dir
      PROVE  IsVolume(v)
  BY <1>2, <1>5 DEF IsVolume
<1> QED BY <1>3, <1>4, <1>5

LEMMA NodeAt ==
    ASSUME NEW v, IsVolume(v), NEW p \in DOMAIN v
    PROVE  p \in Path /\ v[p] \in Node /\ v[p].dir \in BOOLEAN /\ v[p].data \in Seq(Chunk)
BY VolumeIs DEF Node

\* The folders above an entry are there.
LEMMA Above ==
    ASSUME NEW v, IsVolume(v), NEW p \in DOMAIN v, NEW q \in Path, Under(q, p), q # p
    PROVE  q \in DOMAIN v /\ v[q].dir
BY VolumeIs

LEMMA AboveToo ==
    ASSUME NEW v, IsVolume(v), NEW p \in DOMAIN v, NEW q \in Path, Under(q, p)
    PROVE  q \in DOMAIN v
BY Above

\* Nothing is below a file.
LEMMA Leaf ==
    ASSUME NEW v, IsVolume(v), NEW q \in DOMAIN v, ~v[q].dir, NEW p \in DOMAIN v, Under(q, p)
    PROVE  p = q
BY Above, NodeAt

\* Below a folder there is a child on the way.
LEMMA TowardIn ==
    ASSUME NEW v, IsVolume(v), NEW p \in DOMAIN v, NEW r \in Path, Under(r, p), r # p
    PROVE  \E c \in Children(v, r) : Under(c, p) /\ c \in Path
<1>1. p \in Path
  BY NodeAt
<1> DEFINE c == SubSeq(p, 1, Len(r) + 1)
<1>2. c \in Path /\ c # <<>> /\ Front(c) = r /\ Under(c, p)
  BY <1>1, Toward
<1> HIDE DEF c
<1>3. c \in DOMAIN v
  BY <1>2, AboveToo
<1> QED BY <1>2, <1>3 DEF Children

LEMMA WithAt ==
    ASSUME NEW v, NEW p, NEW n
    PROVE  /\ DOMAIN With(v, p, n) = DOMAIN v \cup {p}
           /\ With(v, p, n)[p] = n
           /\ \A q \in DOMAIN v : q # p => With(v, p, n)[q] = v[q]
BY DEF With

LEMMA WithoutAt ==
    ASSUME NEW v, NEW p
    PROVE  /\ DOMAIN Without(v, p) = DOMAIN v \ {p}
           /\ \A q \in DOMAIN v : q # p => Without(v, p)[q] = v[q]
BY DEF Without, Restrict

\* Something new in a folder, or a file written again.
LEMMA WithVolume ==
    ASSUME NEW v, IsVolume(v), NEW p \in Path, p # <<>>, NEW n \in Node,
           IsDir(v, Front(p)), ~IsDir(v, p)
    PROVE  IsVolume(With(v, p, n))
<1> DEFINE w == With(v, p, n)
<1>1. /\ DOMAIN w = DOMAIN v \cup {p} /\ w[p] = n
      /\ \A q \in DOMAIN v : q # p => w[q] = v[q]
  BY DEF With
<1> HIDE DEF w
<1>2. \A r \in DOMAIN w : r \in Path /\ w[r] \in Node
  BY <1>1, NodeAt
<1>3. ASSUME NEW r \in DOMAIN w, NEW q \in Path, Under(q, r), q # r
      PROVE  q \in DOMAIN w /\ w[q].dir
  <2>1. CASE r \in DOMAIN v
    <3>1. q \in DOMAIN v /\ v[q].dir
      BY <1>3, <2>1, Above
    <3>2. q # p
      BY <3>1 DEF IsDir
    <3> QED BY <3>1, <3>2, <1>1
  <2>2. CASE r = p
    <3>1. Front(p) \in DOMAIN v /\ v[Front(p)].dir
      BY DEF IsDir
    <3>2. Front(p) \in Path /\ Under(Front(p), p) /\ Len(p) = Len(Front(p)) + 1
      BY Child
    <3>3. Len(q) <= Len(Front(p))
      <4>1. Len(q) <= Len(p) /\ Len(q) # Len(p) /\ Len(q) \in Nat /\ Len(p) \in Nat
        BY <1>3, <2>2, UnderAt, UnderEq, PathLen
      <4> QED BY <4>1, <3>2, PathLen
    <3>4. Under(q, Front(p))
      BY <1>3, <2>2, <3>2, <3>3, UnderLine
    <3>5. q \in DOMAIN v /\ v[q].dir
      BY <3>1, <3>4, Above
    <3> QED BY <3>5, <1>3, <2>2, <1>1
  <2> QED BY <1>1, <2>1, <2>2
<1>4. IsVolume(w)
  BY <1>2, <1>3, VolumeIs
<1> QED BY <1>4 DEF w

\* A file or an empty folder taken away.
LEMMA WithoutVolume ==
    ASSUME NEW v, IsVolume(v), NEW p, Removable(v, p)
    PROVE  IsVolume(Without(v, p))
<1> DEFINE w == Without(v, p)
<1>1. DOMAIN w = DOMAIN v \ {p} /\ \A q \in DOMAIN v : q # p => w[q] = v[q]
  BY WithoutAt
<1> HIDE DEF w
<1>2. p \in DOMAIN v /\ Children(v, p) = {} /\ p \in Path
  BY NodeAt DEF Removable
<1>3. \A r \in DOMAIN w : r \in Path /\ w[r] \in Node
  BY <1>1, NodeAt
<1>4. ASSUME NEW r \in DOMAIN w, NEW q \in Path, Under(q, r), q # r
      PROVE  q \in DOMAIN w /\ w[q].dir
  <2>1. r \in DOMAIN v
    BY <1>1
  <2>2. q \in DOMAIN v /\ v[q].dir
    BY <1>4, <2>1, Above
  <2>3. q # p
    BY <1>2, <1>4, <2>1, TowardIn
  <2> QED BY <1>1, <2>2, <2>3
<1>5. IsVolume(w)
  BY <1>3, <1>4, VolumeIs
<1> QED BY <1>5 DEF w

\* f_rename: an entry a and all below it take the place b in the same folder,
\* which is free or the same.
Swap(v, a, b) ==
    /\ IsVolume(v) /\ a \in DOMAIN v /\ a \in Path /\ b \in Path
    /\ a # <<>> /\ b # <<>> /\ Front(a) = Front(b)
    /\ a = b \/ b \notin DOMAIN v

LEMMA MovedAt ==
    ASSUME NEW v, NEW a, NEW b, Swap(v, a, b), NEW p \in Path, Under(a, p)
    PROVE  /\ Len(a) \in Nat /\ Len(b) = Len(a) /\ Len(a) >= 1 /\ Len(a) <= Len(p)
           /\ Moved(p, a, b) \in Path /\ Len(Moved(p, a, b)) = Len(p)
           /\ \A k \in 1 .. Len(p) : Moved(p, a, b)[k] = IF k = Len(a) THEN b[k] ELSE p[k]
           /\ Under(b, Moved(p, a, b))
<1> DEFINE t == SubSeq(p, Len(a) + 1, Len(p))
           m == b \o t
<1>1. /\ a \in Path /\ b \in Path /\ a # <<>> /\ b # <<>> /\ Front(a) = Front(b)
      /\ Len(a) \in Nat /\ Len(b) \in Nat /\ Len(p) \in Nat
  BY PathLen DEF Swap
<1>2. Len(a) = Len(Front(a)) + 1 /\ Len(b) = Len(Front(b)) + 1 /\ Len(Front(a)) \in Nat
      /\ Under(Front(a), a) /\ Under(Front(b), b) /\ Front(a) \in Path
  BY <1>1, Child, PathLen
<1>3. Len(b) = Len(a) /\ Len(a) >= 1 /\ Len(a) <= Len(p) /\ \A k \in 1 .. Len(a) : a[k] = p[k]
  BY <1>1, <1>2, UnderAt
<1>4. ASSUME NEW k \in 1 .. Len(a), k # Len(a)  PROVE b[k] = p[k]
  <2>1. k \in 1 .. Len(Front(a))
    BY <1>1, <1>2, <1>4
  <2>2. Front(a)[k] = a[k]
    BY <2>1, <1>1, <1>2, UnderAt
  <2>3. Front(b)[k] = b[k]
    BY <2>1, <1>1, <1>2, UnderAt
  <2> QED BY <2>2, <2>3, <1>1, <1>3
<1>5. /\ t \in Path /\ Len(t) = Len(p) - Len(a)
      /\ \A k \in 1 .. Len(p) - Len(a) : t[k] = p[Len(a) + k]
  BY <1>1, <1>3 DEF Path
<1> HIDE DEF t
<1>6. /\ m \in Path /\ Len(m) = Len(b) + Len(t)
      /\ \A k \in 1 .. Len(b) : m[k] = b[k]
      /\ \A k \in 1 .. Len(t) : m[Len(b) + k] = t[k]
  <2>1. b \in Seq(Name) /\ t \in Seq(Name)
    BY <1>1, <1>5 DEF Path
  <2> QED BY ONLY <2>1, Joined DEF Path
<1> HIDE DEF m
<1>7. Len(m) = Len(p)
  BY <1>1, <1>3, <1>5, <1>6
<1>8. ASSUME NEW k \in 1 .. Len(p)  PROVE m[k] = IF k = Len(a) THEN b[k] ELSE p[k]
  <2>1. CASE k <= Len(a)
    BY <2>1, <1>1, <1>3, <1>4, <1>6
  <2>2. CASE k > Len(a)
    <3>1. PICK j \in Int : j = k - Len(a)
      BY <1>1
    <3>2. j \in 1 .. Len(t) /\ j \in 1 .. Len(p) - Len(a) /\ Len(b) + j = k /\ Len(a) + j = k
      BY <3>1, <2>2, <1>1, <1>3, <1>5
    <3>3. m[Len(b) + j] = t[j] /\ t[j] = p[Len(a) + j]
      BY <3>2, <1>5, <1>6
    <3> QED BY <3>2, <3>3, <2>2, <1>1
  <2> QED BY <2>1, <2>2, <1>1
<1>9. Under(b, m)
  <2>1. Len(b) <= Len(m)
    BY <1>3, <1>7
  <2> QED BY <2>1, <1>1, <1>6, UnderAt
<1>10. Moved(p, a, b) = m
  BY DEF Moved, m, t
<1> QED BY <1>1, <1>3, <1>6, <1>7, <1>8, <1>9, <1>10

LEMMA MovedStays == ASSUME NEW p, NEW a, NEW b, ~Under(a, p)  PROVE Moved(p, a, b) = p
BY DEF Moved

LEMMA MovedSame ==
    ASSUME NEW v, NEW a, Swap(v, a, a), NEW p \in Path
    PROVE  Moved(p, a, a) = p
<1>1. CASE ~Under(a, p)
  BY <1>1, MovedStays
<1>2. CASE Under(a, p)
  <2>1. a \in Path /\ Len(a) <= Len(p) /\ \A k \in 1 .. Len(a) : a[k] = p[k]
    BY <1>2, UnderAt DEF Swap
  <2>2. /\ Len(a) >= 1 /\ Moved(p, a, a) \in Path /\ Len(Moved(p, a, a)) = Len(p) /\ Len(a) \in Nat
        /\ \A k \in 1 .. Len(p) : Moved(p, a, a)[k] = IF k = Len(a) THEN a[k] ELSE p[k]
    BY <1>2, MovedAt
  <2>3. \A k \in 1 .. Len(p) : Moved(p, a, a)[k] = p[k]
    BY <2>1, <2>2
  <2> QED BY <2>2, <2>3, PathEq
<1> QED BY <1>1, <1>2

LEMMA MovedPath ==
    ASSUME NEW v, NEW a, NEW b, Swap(v, a, b), NEW p \in Path
    PROVE  Moved(p, a, b) \in Path /\ Len(Moved(p, a, b)) = Len(p)
BY MovedAt, MovedStays

\* No two entries of the volume meet.
LEMMA MovedInjective ==
    ASSUME NEW v, NEW a, NEW b, Swap(v, a, b), NEW p \in DOMAIN v, NEW q \in DOMAIN v,
           Moved(p, a, b) = Moved(q, a, b)
    PROVE  p = q
<1>1. p \in Path /\ q \in Path /\ IsVolume(v) /\ a \in Path /\ b \in Path
  BY NodeAt DEF Swap
<1>2. CASE a = b
  BY <1>1, <1>2, MovedSame
<1>3. CASE a # b
  <2>1. b \notin DOMAIN v
    BY <1>3 DEF Swap
  <2>2. ~Under(b, p) /\ ~Under(b, q)
    BY <2>1, <1>1, AboveToo
  <2>3. CASE Under(a, p) /\ Under(a, q)
    <3> DEFINE m == Moved(p, a, b)
               n == Moved(q, a, b)
    <3>1. /\ Len(a) \in Nat /\ Len(a) >= 1 /\ Len(a) <= Len(p) /\ Len(m) = Len(p)
          /\ \A k \in 1 .. Len(p) : m[k] = IF k = Len(a) THEN b[k] ELSE p[k]
      BY <1>1, <2>3, MovedAt
    <3>2. /\ Len(n) = Len(q)
          /\ \A k \in 1 .. Len(q) : n[k] = IF k = Len(a) THEN b[k] ELSE q[k]
      BY <1>1, <2>3, MovedAt
    <3>3. m = n
      OBVIOUS
    <3> HIDE DEF m, n
    <3>4. Len(p) = Len(q)
      BY <3>1, <3>2, <3>3
    <3>5. p[Len(a)] = q[Len(a)]
      <4>1. Len(a) \in 1 .. Len(a)
        BY <3>1
      <4>2. a[Len(a)] = p[Len(a)]
        BY <4>1, <1>1, <2>3, UnderAt
      <4>3. a[Len(a)] = q[Len(a)]
        BY <4>1, <1>1, <2>3, UnderAt
      <4> QED BY <4>2, <4>3
    <3>6. \A k \in 1 .. Len(p) : p[k] = q[k]
      BY <3>1, <3>2, <3>3, <3>4, <3>5
    <3> QED BY <1>1, <3>4, <3>6, PathEq
  <2>4. CASE Under(a, p) /\ ~Under(a, q)
    <3>1. Under(b, Moved(p, a, b)) /\ Moved(q, a, b) = q
      BY <1>1, <2>4, MovedAt, MovedStays
    <3> QED BY <3>1, <2>2
  <2>5. CASE ~Under(a, p) /\ Under(a, q)
    <3>1. Under(b, Moved(q, a, b)) /\ Moved(p, a, b) = p
      BY <1>1, <2>5, MovedAt, MovedStays
    <3> QED BY <3>1, <2>2
  <2>6. CASE ~Under(a, p) /\ ~Under(a, q)
    BY <2>6, MovedStays
  <2> QED BY <2>3, <2>4, <2>5, <2>6
<1> QED BY <1>2, <1>3

LEMMA RenamedAt ==
    ASSUME NEW v, NEW a, NEW b, Swap(v, a, b)
    PROVE  /\ \A q : q \in DOMAIN Renamed(v, a, b) <=> \E p \in DOMAIN v : q = Moved(p, a, b)
           /\ \A p \in DOMAIN v : Renamed(v, a, b)[Moved(p, a, b)] = v[p]
<1>1. ASSUME NEW p \in DOMAIN v
      PROVE  Renamed(v, a, b)[Moved(p, a, b)] = v[p]
  <2> DEFINE q == Moved(p, a, b)
             r == CHOOSE x \in DOMAIN v : Moved(x, a, b) = q
  <2>1. \E x \in DOMAIN v : Moved(x, a, b) = q
    OBVIOUS
  <2>2. r \in DOMAIN v /\ Moved(r, a, b) = q
    BY <2>1
  <2>3. Renamed(v, a, b)[q] = v[r]
    BY DEF Renamed
  <2> HIDE DEF r
  <2>4. r = p
    BY <2>2, MovedInjective
  <2> QED BY <2>3, <2>4
<1>2. \A q : q \in DOMAIN Renamed(v, a, b) <=> \E p \in DOMAIN v : q = Moved(p, a, b)
  BY DEF Renamed
<1> QED BY <1>1, <1>2

\* What is above a moved entry is above it again.
LEMMA MovedAbove ==
    ASSUME NEW v, NEW a, NEW b, Swap(v, a, b), NEW p \in DOMAIN v,
           NEW q \in Path, Under(q, Moved(p, a, b)), q # Moved(p, a, b)
    PROVE  \E c \in DOMAIN v : c \in Path /\ Under(c, p) /\ c # p /\ q = Moved(c, a, b)
<1>1. p \in Path /\ IsVolume(v) /\ a \in Path /\ b \in Path
  BY NodeAt DEF Swap
<1>2. CASE ~Under(a, p)
  <2>1. Moved(p, a, b) = p /\ Under(q, p) /\ q # p
    BY <1>2, MovedStays
  <2>2. ~Under(a, q)
    BY <1>1, <1>2, <2>1, UnderTwice
  <2>3. q \in DOMAIN v /\ Moved(q, a, b) = q
    BY <1>1, <2>1, <2>2, AboveToo, MovedStays
  <2> QED BY <2>1, <2>3
<1>3. CASE Under(a, p)
  <2> DEFINE m == Moved(p, a, b)
             c == SubSeq(p, 1, Len(q))
  <2>1. /\ Len(a) \in Nat /\ Len(b) = Len(a) /\ Len(a) >= 1 /\ Len(a) <= Len(p)
        /\ m \in Path /\ Len(m) = Len(p)
        /\ \A k \in 1 .. Len(p) : m[k] = IF k = Len(a) THEN b[k] ELSE p[k]
    BY <1>1, <1>3, MovedAt
  <2>2. Under(q, m) /\ q # m
    OBVIOUS
  <2> HIDE DEF m
  <2>3. Len(q) <= Len(m) /\ Len(q) # Len(m) /\ \A k \in 1 .. Len(q) : q[k] = m[k]
    BY <2>1, <2>2, UnderAt, UnderEq, PathLen
  <2>4. Len(q) \in 0 .. Len(p) /\ Len(q) < Len(p) /\ Len(q) \in Nat /\ Len(p) \in Nat
    BY <1>1, <2>1, <2>3, PathLen
  <2>5. c \in Path /\ Len(c) = Len(q) /\ \A k \in 1 .. Len(q) : c[k] = p[k]
    BY <1>1, <2>4, Cut
  <2> HIDE DEF c
  <2>6. Under(c, p) /\ c # p
    BY <1>1, <2>4, <2>5, UnderAt
  <2>7. c \in DOMAIN v
    BY <1>1, <2>5, <2>6, AboveToo
  <2>8. CASE Len(q) >= Len(a)
    <3>1. Under(a, c)
      BY <1>1, <1>3, <2>5, <2>6, <2>8, UnderLine
    <3>2. /\ Moved(c, a, b) \in Path /\ Len(Moved(c, a, b)) = Len(c)
          /\ \A k \in 1 .. Len(c) : Moved(c, a, b)[k] = IF k = Len(a) THEN b[k] ELSE c[k]
      BY <2>5, <3>1, MovedAt
    <3>3. \A k \in 1 .. Len(q) : Moved(c, a, b)[k] = q[k]
      BY <3>2, <2>1, <2>3, <2>4, <2>5
    <3>4. Moved(c, a, b) = q
      BY <3>2, <3>3, <2>5, PathEq
    <3> QED BY <2>5, <2>6, <2>7, <3>4
  <2>9. CASE Len(q) < Len(a)
    <3>1. ~Under(a, c)
      BY <1>1, <2>5, <2>9, <2>1, <2>4, UnderAt
    <3>2. Moved(c, a, b) = c
      BY <3>1, MovedStays
    <3>3. \A k \in 1 .. Len(q) : c[k] = q[k]
      BY <2>1, <2>3, <2>4, <2>5, <2>9
    <3>4. c = q
      BY <3>3, <2>5, PathEq
    <3> QED BY <2>6, <2>7, <2>5, <3>2, <3>4
  <2> QED BY <2>1, <2>4, <2>8, <2>9
<1> QED BY <1>2, <1>3

LEMMA RenamedVolume ==
    ASSUME NEW v, NEW a, NEW b, Swap(v, a, b)
    PROVE  IsVolume(Renamed(v, a, b))
<1> DEFINE w == Renamed(v, a, b)
<1>1. /\ \A q : q \in DOMAIN w <=> \E p \in DOMAIN v : q = Moved(p, a, b)
      /\ \A p \in DOMAIN v : w[Moved(p, a, b)] = v[p]
  BY RenamedAt
<1> HIDE DEF w
<1>2. IsVolume(v)
  BY DEF Swap
<1>3. ASSUME NEW r \in DOMAIN w  PROVE r \in Path /\ w[r] \in Node
  <2> PICK p \in DOMAIN v : r = Moved(p, a, b)
    BY <1>1
  <2> QED BY <1>1, <1>2, NodeAt, MovedPath
<1>4. ASSUME NEW r \in DOMAIN w, NEW q \in Path, Under(q, r), q # r
      PROVE  q \in DOMAIN w /\ w[q].dir
  <2> PICK p \in DOMAIN v : r = Moved(p, a, b)
    BY <1>1
  <2>1. PICK c \in DOMAIN v : c \in Path /\ Under(c, p) /\ c # p /\ q = Moved(c, a, b)
    BY <1>4, MovedAbove
  <2>2. v[c].dir
    BY <1>2, <2>1, Above
  <2> QED BY <1>1, <2>1, <2>2
<1>5. IsVolume(w)
  BY <1>3, <1>4, VolumeIs
<1> QED BY <1>5 DEF w

-----------------------------------------------------------------------------
(* The inductive invariant.  The entry in hand is the one at place Count of *)
(* the snapshot.                                                            *)

Entries(o) == Len(o.names)
Count == Entries(op) - Len(todo)
Root(i) == RootOf(op, i)
Trees == op.kind \in {"copy", "move", "delete"}
Copies == op.kind \in {"copy", "move"}

InFile == {"open", "loop", "close", "verify"}
InTree == {"entry", "list", "leave", "rmdir", "back"} \cup InFile

FrameType == [src : Path, dst : Path, seen : SUBSET Path]
ReportType == [src : Path, dst : Path, how : Modes]

Types ==
    /\ IsVolume(vol) /\ IsVolume(before)
    /\ op \in Ops \cup {NoOp} /\ (pc # "idle" => op \in Ops)
    /\ pc \in Busy \cup {"idle"}
    /\ todo \in Seq(Name) /\ Len(todo) <= Entries(op)
    /\ todo = SubSeq(op.names, Count + 1, Entries(op))
    /\ item \in [src : Path, dst : Path] /\ cur \in [src : Path, dst : Path]
    /\ walk \in Seq(FrameType)
    /\ phase \in {"copy", "remove"} /\ how \in Modes
    /\ fd \in [open : BOOLEAN, data : Seq(Chunk)] /\ pos \in Nat
    /\ rc \in {-1, 0, 1, 2} /\ askall \in {"ask", "overwrite", "skip"} /\ abort \in BOOLEAN
    /\ copied \subseteq ReportType
    /\ skipped \subseteq Path /\ unnoticed \subseteq Path

\* Where the user's operation is, by the program counter.
Control ==
    /\ pc \in InTree \cup {"rename", "again", "recase", "recase2"} =>
          /\ Count \in DOMAIN op.names
          /\ item.src = Root(Count) /\ item.dst = DstOf(op, Count)
    /\ pc \in InTree => Trees
    /\ pc \in InTree /\ Copies => ~Onto(op)
    /\ pc \in {"rename", "again"} => op.kind = "rename"
    /\ pc \in {"recase", "recase2"} => op.kind = "recase"
    /\ pc \in InTree => IF phase = "copy" THEN Copies ELSE op.kind # "copy"
    /\ pc \in InFile \cup {"leave"} => phase = "copy"
    /\ pc = "rmdir" => phase = "remove"
    /\ pc \in {"list", "leave", "rmdir"} => walk # <<>>
    /\ pc \notin InTree => walk = <<>>

\* An entry is on the card as it was when the operation began.
Same(p) ==
    /\ p \in DOMAIN vol <=> p \in DOMAIN before
    /\ p \in DOMAIN before => vol[p] = before[p]
Intact(r) == \A p \in Path : Under(r, p) => Same(p)

\* A file that may go from its old place, and a tree of such files.
Done(p) ==
    \/ p \in skipped
    \/ \E u \in unnoticed : Under(u, p)
    \/ \E c \in copied : c.src = p
AllDone(r) == \A p \in DOMAIN before : Under(r, p) /\ ~before[p].dir => Done(p)

\* A tree of which nothing has been copied yet.
Unmade(r) == \A p \in Path : Under(r, p) => Same(Goes(op, p)) /\ \A c \in copied : c.src # p

Aimed(p) == \E i \in DOMAIN op.names : Under(DstOf(op, i), p)
Others == \A p \in DOMAIN before : ~Chosen(op, p) /\ ~(Copies /\ Aimed(p)) => Same(p)
Targets ==
    Copies => \A p \in DOMAIN before : Aimed(p) =>
        Same(p) \/ (~before[p].dir /\ (Replaceable(p) \/ p \in unnoticed))
Roots ==
    \A i \in DOMAIN op.names :
        /\ i > Count => Intact(Root(i)) /\ (Copies => Unmade(Root(i))) /\ Root(i) \in DOMAIN before
        /\ i <= Count => \/ op.kind = "delete"
                         \/ Intact(Root(i))
                         \/ op.kind = "move" /\ AllDone(Root(i))

\* What copy_file_pg's mode can be for a target d.
HowRight(h, d) ==
    d \in DOMAIN before =>
        \/ h = "overwrite" /\ (before[d].dir \/ d \in unnoticed)
        \/ IF op.mode = "ask" THEN h \in {"overwrite", "skip"} ELSE h = op.mode
Delivered(c) ==
    Holds(c.dst, Result(IF c.dst \in DOMAIN before THEN c.how ELSE "overwrite",
                        DataBefore(c.dst), DataBefore(c.src)))
Right(c) ==
    /\ Copies /\ ~Onto(op)
    /\ Chosen(op, c.src) /\ c.src \in DOMAIN before /\ ~before[c.src].dir
    /\ c.dst = Goes(op, c.src)
    /\ HowRight(c.how, c.dst) /\ (c.how = "skip" => c.dst \notin DOMAIN before)
    /\ c.src \notin unnoticed => Delivered(c)
Reported == \A c \in copied : Right(c)

InHand == pc \in {"entry"} \cup InFile
Failed == pc = "back" /\ rc <= 0

\* copy_entry's recursion: in the folders of the walk everything read so far is
\* done but what lies in the next folder or is in hand, and the rest not begun.
Frames ==
    \A k \in DOMAIN walk :
        /\ Under(item.src, walk[k].src) /\ IsDir(before, walk[k].src)
        /\ walk[k].dst = Goes(op, walk[k].src)
        /\ \A q \in walk[k].seen : q # <<>> /\ Front(q) = walk[k].src
        /\ \A q \in Path : q # <<>> /\ Front(q) = walk[k].src /\ q \notin walk[k].seen => Unmade(q)
Nested ==
    \A j, k \in DOMAIN walk : j < k => \E q \in walk[j].seen : Under(q, walk[k].src)
Progress ==
    \A k \in DOMAIN walk : \A q \in walk[k].seen :
        \/ AllDone(q)
        \/ k < Len(walk) /\ q = walk[k + 1].src
        \/ k = Len(walk) /\ InHand /\ q = cur.src

CopyWalk ==
    /\ Intact(item.src)
    /\ ~Failed => /\ Frames /\ Nested /\ Progress
                  /\ walk # <<>> => walk[1].src = item.src
    /\ InHand => /\ cur.dst = Goes(op, cur.src) /\ cur.src \in DOMAIN before
                 /\ IF walk = <<>> THEN cur.src = item.src ELSE cur.src \in top.seen
    /\ pc \in {"entry", "open"} => Unmade(cur.src)
    /\ pc = "leave" => AllDone(top.src)
    /\ pc = "back" /\ rc = 1 /\ walk = <<>> => AllDone(item.src)

\* rmdir_recursive: whatever it takes was copied before, if this is a move.
RemoveWalk ==
    /\ op.kind = "move" => AllDone(item.src)
    /\ \A k \in DOMAIN walk : Under(item.src, walk[k].src)
    /\ pc = "entry" => Under(item.src, cur.src)

\* copy_file_pg: what lies in the target and what waits in its open file.
Old == IF how \in {"append", "resume"} THEN before[cur.dst].data ELSE <<>>
StartedAt == IF how = "resume" THEN Len(before[cur.dst].data) ELSE 0
File ==
    /\ pc \in InFile => /\ ~before[cur.src].dir
                        /\ HowRight(how, cur.dst)
                        /\ cur.dst \notin DOMAIN before => how = "overwrite"
                        /\ \A c \in copied : c.src # cur.src
    /\ pc \in {"loop", "close", "verify"} =>
        /\ cur.dst \in DOMAIN vol /\ ~vol[cur.dst].dir
        /\ cur.dst \in DOMAIN before => ~before[cur.dst].dir
        /\ how # "skip"
    /\ pc \in {"loop", "close"} =>
        /\ IF Full THEN vol[cur.dst].data = <<>> ELSE Same(cur.dst)
        /\ pos \in StartedAt .. Len(before[cur.src].data)
        /\ fd.data = Old \o SubSeq(before[cur.src].data, StartedAt + 1, pos)
    /\ pc = "close" => rc <= 1
    /\ pc = "close" /\ rc = 1 => pos = Len(before[cur.src].data)
    /\ pc = "verify" => Full

TreeInv == Trees =>
    /\ Others /\ Targets /\ Roots
    /\ pc \in InTree /\ phase = "copy" => CopyWalk
    /\ pc \in InTree /\ phase = "remove" => RemoveWalk
    /\ File

\* rename_selected: the three states the card can be in.
Source1 == Root(1)
Target1 == DstOf(op, 1)
Cleared ==
    /\ op.mode = "overwrite" /\ Source1 # Target1
    /\ Removable(before, Target1) /\ vol = Without(before, Target1)
RenameInv == op.kind = "rename" =>
    /\ Source1 \in DOMAIN before
    /\ pc = "rename" \/ todo # <<>> => vol = before
    /\ pc = "again" => vol = before \/ Cleared
    /\ \/ vol = before \/ Cleared
       \/ (Source1 = Target1 \/ Target1 \notin DOMAIN before) /\ vol = Renamed(before, Source1, Target1)
       \/ /\ op.mode = "overwrite" /\ Source1 # Target1 /\ Removable(before, Target1)
          /\ vol = Renamed(Without(before, Target1), Source1, Target1)
Aside == Tmp \notin DOMAIN before /\ vol = Renamed(before, Source1, Tmp)
RecaseInv == op.kind = "recase" =>
    /\ Source1 \in DOMAIN before
    /\ pc = "recase" \/ todo # <<>> => vol = before
    /\ pc = "recase2" => Aside
    /\ \/ vol = before \/ Aside
       \/ /\ Tmp \notin DOMAIN before /\ Target1 \notin DOMAIN Renamed(before, Source1, Tmp)
          /\ vol = Renamed(Renamed(before, Source1, Tmp), Tmp, Target1)

IInv == Types /\ Control /\ Reported /\ TreeInv /\ RenameInv /\ RecaseInv

-----------------------------------------------------------------------------
(* The entries of the snapshot. *)

LEMMA NoOpIs == NoOp.names = <<>> /\ NoOp.kind = "delete" /\ DOMAIN NoOp.names = {}
<1>1. NoOp.names = <<>> /\ NoOp.kind = "delete"
  BY DEF NoOp
<1> QED BY <1>1

LEMMA Places ==
    ASSUME Types
    PROVE  /\ Entries(op) \in Nat /\ DOMAIN op.names = 1 .. Entries(op) /\ Len(todo) \in Nat
           /\ Count \in 0 .. Entries(op)
           /\ op.names \in Seq(Name) /\ Here \in Path
<1>1. op.names \in Seq(Name)
  <2>1. CASE op \in Ops
    BY <2>1, OpParts
  <2>2. CASE op = NoOp
    <3>1. op.names = <<>>
      BY <2>2, NoOpIs
    <3> QED BY <3>1
  <2> QED BY <2>1, <2>2 DEF Types
<1>2. Entries(op) \in Nat /\ DOMAIN op.names = 1 .. Entries(op)
  BY <1>1 DEF Entries
<1>3. Len(todo) \in Nat /\ Len(todo) <= Entries(op)
  BY DEF Types
<1>4. Count \in 0 .. Entries(op)
  BY <1>2, <1>3 DEF Count
<1>5. Here \in Path
  BY FileOpsAssumption
<1> QED BY <1>1, <1>2, <1>3, <1>4, <1>5

\* The operation under way is one of the user's.
LEMMA Real == ASSUME Types, NEW i \in DOMAIN op.names  PROVE op \in Ops
<1>1. CASE op = NoOp
  BY <1>1, NoOpIs
<1> QED BY <1>1 DEF Types

LEMMA RealCopy == ASSUME Types, Copies  PROVE op \in Ops
<1>1. CASE op = NoOp
  BY <1>1, NoOpIs DEF Copies
<1> QED BY <1>1 DEF Types

LEMMA RootPath ==
    ASSUME Types, NEW i \in DOMAIN op.names
    PROVE  Root(i) \in Path /\ Chosen(op, Root(i)) /\ Goes(op, Root(i)) = DstOf(op, i) /\ DstOf(op, i) \in Path
BY Real, RootAt, RootIn, GoesRoot, DstAt DEF Root

LEMMA BelowRoot ==
    ASSUME Types, NEW i \in DOMAIN op.names, NEW p \in Path, Under(Root(i), p)
    PROVE  /\ Chosen(op, p) /\ Goes(op, p) \in Path /\ Aimed(Goes(op, p)) /\ Goes(op, p) # <<>>
           /\ Goes(op, p) # op.folder
<1>1. op \in Ops
  BY Real
<1>2. Chosen(op, p)
  BY DEF Chosen, Root
<1>3. Under(DstOf(op, i), Goes(op, p))
  <2>1. Root(i) \in Path /\ Chosen(op, Root(i)) /\ Goes(op, Root(i)) = DstOf(op, i)
    BY RootPath
  <2> QED BY <1>1, <2>1, GoesUnder
<1>4. /\ Len(p) >= Len(Here) + 1 /\ Len(p) \in Nat /\ Len(Here) \in Nat /\ Deep(op) \in Nat
      /\ Deep(op) = Len(op.folder)
  BY <1>1, <1>2, InLonger, OpParts
<1>5. Goes(op, p) \in Path /\ Len(Goes(op, p)) = Deep(op) + Len(p) - Len(Here)
  BY <1>1, <1>4, GoesAt
<1>6. Len(Goes(op, p)) >= Deep(op) + 1
  BY <1>4, <1>5
<1>7. Goes(op, p) # <<>>
  BY <1>4, <1>5, <1>6, PathLen
<1>8. Goes(op, p) # op.folder
  BY <1>4, <1>6
<1> QED BY <1>2, <1>3, <1>5, <1>7, <1>8 DEF Aimed

LEMMA ChosenIs == ASSUME Types, NEW p, Chosen(op, p)  PROVE \E i \in DOMAIN op.names : Under(Root(i), p)
BY DEF Chosen, Root

\* A target lies in no selected entry.
LEMMA AimedApart ==
    ASSUME Types, Copies, Separate, ~Onto(op), NEW d \in Path, Aimed(d)
    PROVE  ~Chosen(op, d)
<1>1. op \in Ops
  BY RealCopy
<1>2. \A k \in DOMAIN op.names : ~Under(DstOf(op, k), Here)
  BY DEF Separate, Copies, ItemOf, DstOf
<1> QED BY <1>1, <1>2, Disjoint DEF Aimed

-----------------------------------------------------------------------------
(* What a step does to the store. *)

Still == op' = op /\ before' = before
Grow == skipped \subseteq skipped' /\ unnoticed \subseteq unnoticed' /\ copied \subseteq copied'
\* Only the entry d changes.
But(d) == \A q \in Path : q # d => /\ q \in DOMAIN vol' <=> q \in DOMAIN vol
                                   /\ q \in DOMAIN vol => vol'[q] = vol[q]

LEMMA AllDoneGrows == ASSUME Still, Grow, NEW r, AllDone(r)  PROVE AllDone(r)'
BY DEF Still, Grow, AllDone, Done

LEMMA SameBut ==
    ASSUME Still, NEW d, But(d), NEW p \in Path, p # d
    PROVE  Same(p)' <=> Same(p)
BY DEF Still, But, Same

LEMMA IntactBut ==
    ASSUME Still, NEW d, But(d), NEW r, ~Under(r, d), Intact(r)
    PROVE  Intact(r)'
BY SameBut DEF Intact

\* A copy of s changes nothing about the entries that do not lie above it.
LEMMA UnmadeBut ==
    ASSUME Types, Still, NEW s \in Path, Chosen(op, s), But(Goes(op, s)),
           \A c \in copied' : c \in copied \/ c.src = s,
           NEW r \in Path, Chosen(op, r), ~Under(r, s), Unmade(r)
    PROVE  Unmade(r)'
<1>1. op \in Ops
  BY Real DEF Chosen
<1> SUFFICES ASSUME NEW p \in Path, Under(r, p)
             PROVE  Same(Goes(op, p))' /\ \A c \in copied' : c.src # p
  BY DEF Unmade, Still
<1>2. p # s
  OBVIOUS
<1>3. Same(Goes(op, p)) /\ \A c \in copied : c.src # p
  BY DEF Unmade
<1>4. Chosen(op, p)
  BY <1>1, InUnder
<1>5. Goes(op, p) # Goes(op, s)
  BY <1>1, <1>2, <1>4, GoesInjective
<1>6. Goes(op, p) \in Path
  BY <1>4, ChosenIs, BelowRoot
<1>7. Same(Goes(op, p))'
  <2> DEFINE g == Goes(op, p)
  <2>1. g \in Path /\ g # Goes(op, s) /\ Same(g)
    BY <1>3, <1>5, <1>6
  <2> HIDE DEF g
  <2>2. PICK h : h = g
    OBVIOUS
  <2>3. Same(h)'
    BY <2>1, <2>2, SameBut
  <2>4. Goes(op, p)' = h
    BY <2>2 DEF g, Still, Goes
  <2> QED BY <2>3, <2>4 DEF Same
<1> QED BY <1>2, <1>3, <1>7

Store == Others /\ Targets /\ Roots /\ Reported

LEMMA RightBut ==
    ASSUME Still, unnoticed \subseteq unnoticed', NEW d, But(d),
           NEW c, c.dst \in Path, c.dst # d, Right(c)
    PROVE  Right(c)'
<1>1. ASSUME Delivered(c)  PROVE Delivered(c)'
  BY <1>1 DEF Still, But, Delivered, Holds, DataBefore
<1> QED BY <1>1 DEF Still, Right, Copies, HowRight

LEMMA ReplaceableBut ==
    ASSUME Still, NEW d, But(d), NEW p \in Path, p # d, Replaceable(p)
    PROVE  Replaceable(p)'
<1>1. CASE op.kind = "rename" /\ op.mode = "overwrite"
  BY <1>1 DEF Still, Replaceable
<1>2. CASE ~(op.kind = "rename" /\ op.mode = "overwrite")
  <2>1. op.kind \in {"copy", "move"} /\ op.mode # "skip"
    BY <1>2 DEF Replaceable
  <2>2. ASSUME op.mode \in {"append", "resume"}
        PROVE  p \in DOMAIN vol' /\ IsPrefix(before[p].data, vol'[p].data)
    <3>1. p \in DOMAIN vol /\ IsPrefix(before[p].data, vol[p].data)
      BY <1>2, <2>2 DEF Replaceable
    <3> QED BY <3>1 DEF But
  <2> QED BY <2>1, <2>2 DEF Still, Replaceable
<1> QED BY <1>1, <1>2

\* A file or folder copied, or a note made of it.
LEMMA StoreMade ==
    ASSUME Types, Copies, Separate, ~Onto(op), Store, Still, Grow, todo' = todo,
           Count \in DOMAIN op.names, NEW s \in Path, Under(Root(Count), s), But(Goes(op, s)),
           \A c \in copied : c.src # s,
           \A c \in copied' : c \in copied \/ (c.src = s /\ Right(c)'),
           Goes(op, s) \in DOMAIN before =>
               \/ Same(Goes(op, s))'
               \/ ~before[Goes(op, s)].dir /\ (Replaceable(Goes(op, s))' \/ Goes(op, s) \in unnoticed')
    PROVE  Store'
<1>1. PICK d \in Path : d = Goes(op, s)
  BY BelowRoot
<1>2. Chosen(op, s) /\ Aimed(d) /\ But(d)
  BY <1>1, BelowRoot
<1>3. ~Chosen(op, d) /\ op \in Ops
  BY <1>2, AimedApart, RealCopy
<1>4. \A p \in DOMAIN before : p \in Path
  BY NodeAt DEF Types
<1>5. Count' = Count /\ \A i : Root(i)' = Root(i)
  BY DEF Still, Count, Root
<1>6. Others'
  <2> SUFFICES ASSUME NEW p \in DOMAIN before, ~Chosen(op, p), ~(Copies /\ Aimed(p))
               PROVE  Same(p)'
    BY DEF Others, Still, Copies, Aimed
  <2>1. Same(p) /\ p # d
    BY <1>2 DEF Others, Store
  <2> QED BY <2>1, <1>2, <1>4, SameBut
<1>7. Targets'
  <2> SUFFICES ASSUME NEW p \in DOMAIN before, Aimed(p)
               PROVE  Same(p)' \/ (~before[p].dir /\ (Replaceable(p)' \/ p \in unnoticed'))
    BY DEF Targets, Still, Copies, Aimed
  <2>1. CASE p = d
    <3>1. \/ Same(Goes(op, s))'
          \/ ~before[Goes(op, s)].dir /\ (Replaceable(Goes(op, s))' \/ Goes(op, s) \in unnoticed')
      BY <1>1, <2>1
    <3>2. Goes(op, s)' = d
      BY <1>1 DEF Still, Goes
    <3> QED BY <1>1, <2>1, <3>1, <3>2 DEF Same, Replaceable
  <2>2. CASE p # d
    <3>1. Same(p) \/ (~before[p].dir /\ (Replaceable(p) \/ p \in unnoticed'))
      BY DEF Targets, Store, Grow
    <3> QED BY <3>1, <2>2, <1>2, <1>4, SameBut, ReplaceableBut
  <2> QED BY <2>1, <2>2
<1>8. Roots'
  <2> SUFFICES ASSUME NEW i \in DOMAIN op.names, NEW r, r = Root(i)
               PROVE  /\ i > Count => Intact(r)' /\ Unmade(r)' /\ r \in DOMAIN before
                      /\ i <= Count => \/ op.kind = "delete"
                                       \/ Intact(r)'
                                       \/ op.kind = "move" /\ AllDone(r)'
    BY <1>5 DEF Roots, Still, Copies, Intact, Unmade, AllDone
  <2>1. r \in Path /\ Chosen(op, r)
    BY RootPath
  <2>2. ~Under(r, d)
    BY <1>3 DEF Chosen, Root
  <2>3. Intact(r) => Intact(r)'
    BY <1>2, <2>2, IntactBut
  <2>4. AllDone(r) => AllDone(r)'
    BY AllDoneGrows
  <2>5. ASSUME i > Count, Unmade(r)  PROVE Unmade(r)'
    <3>1. i # Count
      BY <2>5, Places
    <3>2. ~Under(r, s)
      BY <3>1, <1>3, RootsApart DEF Root
    <3> QED BY <2>1, <2>5, <3>2, <1>2, UnmadeBut
  <2>6. /\ i > Count => Intact(r) /\ Unmade(r) /\ r \in DOMAIN before
        /\ i <= Count => \/ op.kind = "delete"
                         \/ Intact(r)
                         \/ op.kind = "move" /\ AllDone(r)
    BY DEF Store, Roots
  <2> QED BY <2>3, <2>4, <2>5, <2>6
<1>9. Reported'
  <2> SUFFICES ASSUME NEW c \in copied'
               PROVE  Right(c)'
    BY DEF Reported
  <2>1. CASE c \in copied
    <3>1. Right(c) /\ c \in ReportType
      BY <2>1 DEF Store, Reported, Types
    <3>2. c.src \in Path /\ c.dst \in Path
      BY <3>1 DEF ReportType
    <3>3. Chosen(op, c.src) /\ c.dst = Goes(op, c.src) /\ c.src # s
      BY <2>1, <3>1 DEF Right
    <3>4. c.dst # d
      BY <1>1, <1>2, <1>3, <3>2, <3>3, GoesInjective
    <3> QED BY <3>1, <3>2, <3>4, <1>2, RightBut DEF Grow
  <2>2. CASE c \notin copied
    BY <2>2
  <2> QED BY <2>1, <2>2
<1> QED BY <1>6, <1>7, <1>8, <1>9 DEF Store

\* Nothing on the card changes.
LEMMA StoreStays ==
    ASSUME Types, Store, Still, Grow, todo' = todo, vol' = vol, copied' = copied
    PROVE  Store'
<1>1. \A p : Same(p)' <=> Same(p)
  BY DEF Still, Same
<1>2. Count' = Count /\ \A i : Root(i)' = Root(i)
  BY DEF Still, Count, Root
<1>3. Others'
  BY <1>1 DEF Store, Others, Still, Copies, Aimed
<1>4. Targets'
  BY <1>1 DEF Store, Targets, Still, Grow, Copies, Aimed, Replaceable
<1>5. Roots'
  <2>1. \A r : (Intact(r)' <=> Intact(r)) /\ (Unmade(r)' <=> Unmade(r))
    BY <1>1 DEF Intact, Unmade, Still, Goes, Same
  <2>2. \A r : AllDone(r) => AllDone(r)'
    BY AllDoneGrows
  <2> QED BY <1>2, <2>1, <2>2 DEF Store, Roots, Still, Copies
<1>6. Reported'
  <2>1. \A c \in copied : Right(c) => Right(c)'
    BY DEF Right, Still, Grow, Delivered, Holds, DataBefore, HowRight, Copies
  <2> QED BY <2>1 DEF Store, Reported
<1> QED BY <1>3, <1>4, <1>5, <1>6 DEF Store

\* Something taken out of the entry in hand.
LEMMA StoreRemoved ==
    ASSUME Types, Trees, Store, Still, Grow, todo' = todo, copied' = copied,
           Count \in DOMAIN op.names, NEW s \in Path, Under(Root(Count), s), But(s),
           op.kind # "copy", op.kind = "move" => Separate /\ ~Onto(op) /\ AllDone(Root(Count))
    PROVE  Store'
<1>1. Chosen(op, s) /\ op \in Ops
  BY Real DEF Chosen, Root
<1>2. op.kind \in {"move", "delete"} /\ (Copies => op.kind = "move")
  BY DEF Trees, Copies
<1>3. Copies => ~Aimed(s)
  BY <1>1, <1>2, AimedApart
<1>4. \A p \in DOMAIN before : p \in Path
  BY NodeAt DEF Types
<1>5. Count' = Count /\ \A i : Root(i)' = Root(i)
  BY DEF Still, Count, Root
<1>6. Others'
  <2> SUFFICES ASSUME NEW p \in DOMAIN before, ~Chosen(op, p), ~(Copies /\ Aimed(p))
               PROVE  Same(p)'
    BY DEF Others, Still, Copies, Aimed
  <2>1. Same(p) /\ p # s
    BY <1>1 DEF Others, Store
  <2> QED BY <2>1, <1>4, SameBut
<1>7. Targets'
  <2> SUFFICES ASSUME NEW p \in DOMAIN before, Copies, Aimed(p)
               PROVE  Same(p)' \/ (~before[p].dir /\ (Replaceable(p)' \/ p \in unnoticed'))
    BY DEF Targets, Still, Copies, Aimed
  <2>1. Same(p) \/ (~before[p].dir /\ (Replaceable(p) \/ p \in unnoticed'))
    BY DEF Targets, Store, Grow
  <2> QED BY <2>1, <1>3, <1>4, SameBut, ReplaceableBut
<1>8. Roots'
  <2> SUFFICES ASSUME NEW i \in DOMAIN op.names, NEW r, r = Root(i)
               PROVE  /\ i > Count => Intact(r)' /\ (Copies => Unmade(r)') /\ r \in DOMAIN before
                      /\ i <= Count => \/ op.kind = "delete"
                                       \/ Intact(r)'
                                       \/ op.kind = "move" /\ AllDone(r)'
    BY <1>5 DEF Roots, Still, Copies, Intact, Unmade, AllDone
  <2>1. r \in Path /\ Chosen(op, r)
    BY RootPath
  <2>2. i # Count => ~Under(r, s)
    BY <1>1, RootsApart DEF Root
  <2>3. i # Count /\ Intact(r) => Intact(r)'
    BY <2>2, IntactBut
  <2>4. AllDone(r) => AllDone(r)'
    BY AllDoneGrows
  <2>5. ASSUME Copies, Unmade(r)  PROVE Unmade(r)'
    <3> SUFFICES ASSUME NEW p \in Path, Under(r, p)
                 PROVE  Same(Goes(op, p))' /\ \A c \in copied : c.src # p
      BY DEF Unmade, Still
    <3>1. Same(Goes(op, p)) /\ \A c \in copied : c.src # p
      BY <2>5 DEF Unmade
    <3>2. PICK g \in Path : g = Goes(op, p)
      BY BelowRoot
    <3>3. Aimed(g)
      BY <3>2, BelowRoot
    <3>4. Same(g)'
      BY <3>1, <3>2, <3>3, <2>5, <1>3, SameBut
    <3>5. Goes(op, p)' = g
      BY <3>2 DEF Still, Goes
    <3> QED BY <3>1, <3>4, <3>5 DEF Same
  <2>6. /\ i > Count => Intact(r) /\ (Copies => Unmade(r)) /\ r \in DOMAIN before
        /\ i <= Count => \/ op.kind = "delete"
                         \/ Intact(r)
                         \/ op.kind = "move" /\ AllDone(r)
    BY DEF Store, Roots
  <2>7. i > Count => i # Count
    BY Places
  <2> QED BY <2>3, <2>4, <2>5, <2>6, <2>7, <1>2
<1>9. Reported'
  <2> SUFFICES ASSUME NEW c \in copied
               PROVE  Right(c)'
    BY DEF Reported
  <2>1. Right(c) /\ c \in ReportType
    BY DEF Store, Reported, Types
  <2>2. c.src \in Path /\ c.dst \in Path
    BY <2>1 DEF ReportType
  <2>3. Chosen(op, c.src) /\ c.dst = Goes(op, c.src) /\ Copies
    BY <2>1 DEF Right
  <2>4. c.dst # s
    BY <2>2, <2>3, <1>3, ChosenIs, BelowRoot
  <2> QED BY <2>1, <2>2, <2>4, RightBut DEF Grow
<1> QED BY <1>6, <1>7, <1>8, <1>9 DEF Store

\* On to another entry: those passed over are as they were.
LEMMA StoreNext ==
    ASSUME Types, Store, Still, Grow, vol' = vol, copied' = copied,
           Count' \in Nat, Count' >= Count
    PROVE  Store'
<1>1. \A p : Same(p)' <=> Same(p)
  BY DEF Still, Same
<1>2. \A i : Root(i)' = Root(i)
  BY DEF Still, Root
<1>3. Others'
  BY <1>1 DEF Store, Others, Still, Copies, Aimed
<1>4. Targets'
  BY <1>1 DEF Store, Targets, Still, Grow, Copies, Aimed, Replaceable
<1>5. Roots'
  <2>1. \A r : (Intact(r)' <=> Intact(r)) /\ (Unmade(r)' <=> Unmade(r))
    BY <1>1 DEF Intact, Unmade, Still, Goes, Same
  <2>2. \A r : AllDone(r) => AllDone(r)'
    BY AllDoneGrows
  <2> SUFFICES ASSUME NEW i \in DOMAIN op.names, NEW r, r = Root(i)
               PROVE  /\ i > Count' => Intact(r)' /\ (Copies => Unmade(r)') /\ r \in DOMAIN before
                      /\ i <= Count' => \/ op.kind = "delete"
                                        \/ Intact(r)'
                                        \/ op.kind = "move" /\ AllDone(r)'
    BY <1>2 DEF Roots, Still, Copies, Intact, Unmade, AllDone
  <2>3. /\ i > Count => Intact(r) /\ (Copies => Unmade(r)) /\ r \in DOMAIN before
        /\ i <= Count => \/ op.kind = "delete"
                         \/ Intact(r)
                         \/ op.kind = "move" /\ AllDone(r)
    BY DEF Store, Roots
  <2>4. i \in Nat /\ Count \in Nat
    BY Places
  <2>5. i > Count' => i > Count
    BY <2>4
  <2>6. i > Count \/ i <= Count
    BY <2>4
  <2> QED BY <2>1, <2>2, <2>3, <2>5, <2>6
<1>6. Reported'
  <2>1. \A c \in copied : Right(c) => Right(c)'
    BY DEF Right, Still, Grow, Delivered, Holds, DataBefore, HowRight, Copies
  <2> QED BY <2>1 DEF Store, Reported
<1> QED BY <1>3, <1>4, <1>5, <1>6 DEF Store

-----------------------------------------------------------------------------
(* The walk. *)

LEMMA WalkIs ==
    ASSUME Types
    PROVE  /\ Len(walk) \in Nat /\ DOMAIN walk = 1 .. Len(walk)
           /\ \A k \in DOMAIN walk : /\ walk[k] \in FrameType
                                     /\ walk[k].src \in Path /\ walk[k].dst \in Path
                                     /\ walk[k].seen \subseteq Path
           /\ walk # <<>> => /\ Len(walk) \in DOMAIN walk /\ top = walk[Len(walk)]
                             /\ 1 \in DOMAIN walk
<1>1. walk \in Seq(FrameType)
  BY DEF Types
<1>2. Len(walk) \in Nat /\ DOMAIN walk = 1 .. Len(walk) /\ \A k \in DOMAIN walk : walk[k] \in FrameType
  BY <1>1
<1>3. \A k \in DOMAIN walk : /\ walk[k].src \in Path /\ walk[k].dst \in Path
                             /\ walk[k].seen \subseteq Path
  BY <1>2 DEF FrameType
<1>4. walk # <<>> => Len(walk) \in DOMAIN walk /\ 1 \in DOMAIN walk
  BY <1>1
<1> QED BY <1>2, <1>3, <1>4 DEF top, Last

LEMMA WalkGrown ==
    ASSUME Types, NEW f \in FrameType
    PROVE  LET w == Append(walk, f)
           IN  /\ w \in Seq(FrameType) /\ w # <<>> /\ Len(w) = Len(walk) + 1
               /\ DOMAIN w = 1 .. Len(walk) + 1
               /\ w[Len(walk) + 1] = f
               /\ \A k \in DOMAIN walk : k \in DOMAIN w /\ w[k] = walk[k]
BY DEF Types

LEMMA WalkCut ==
    ASSUME Types, walk # <<>>
    PROVE  LET w == Front(walk)
           IN  /\ w \in Seq(FrameType) /\ Len(w) = Len(walk) - 1 /\ Len(walk) \in Nat /\ Len(walk) >= 1
               /\ DOMAIN w = 1 .. Len(walk) - 1 /\ DOMAIN walk = 1 .. Len(walk)
               /\ \A k \in DOMAIN w : k \in DOMAIN walk /\ w[k] = walk[k]
               /\ w # <<>> => Len(walk) > 1
<1> DEFINE w == Front(walk)
<1>1. walk \in Seq(FrameType) /\ Len(walk) \in Nat /\ Len(walk) >= 1 /\ DOMAIN walk = 1 .. Len(walk)
  BY DEF Types
<1>2. /\ w \in Seq(FrameType) /\ Len(w) = Len(walk) - 1
      /\ \A k \in 1 .. Len(walk) - 1 : w[k] = walk[k]
  BY <1>1 DEF Front
<1> HIDE DEF w
<1>3. DOMAIN w = 1 .. Len(walk) - 1
  BY <1>1, <1>2
<1>4. w # <<>> => Len(walk) > 1
  BY <1>1, <1>2
<1> QED BY <1>1, <1>2, <1>3, <1>4 DEF w

LEMMA WalkSeen ==
    ASSUME Types, walk # <<>>, NEW q \in Path
    PROVE  LET w == [walk EXCEPT ![Len(walk)].seen = @ \cup {q}]
           IN  /\ w \in Seq(FrameType) /\ w # <<>> /\ Len(w) = Len(walk) /\ DOMAIN w = DOMAIN walk
               /\ \A k \in DOMAIN walk :
                      /\ w[k].src = walk[k].src /\ w[k].dst = walk[k].dst
                      /\ w[k].seen = IF k = Len(walk) THEN walk[k].seen \cup {q} ELSE walk[k].seen
<1> DEFINE w == [walk EXCEPT ![Len(walk)].seen = @ \cup {q}]
<1>1. walk \in Seq(FrameType) /\ Len(walk) \in Nat /\ Len(walk) \in DOMAIN walk /\ DOMAIN walk = 1 .. Len(walk)
  BY DEF Types
<1>2. \A k \in DOMAIN walk : walk[k] \in FrameType
  BY <1>1
<1>3. DOMAIN w = DOMAIN walk
  OBVIOUS
<1>4. \A k \in DOMAIN walk : k # Len(walk) => w[k] = walk[k]
  BY <1>1
<1>5. /\ w[Len(walk)] \in FrameType
      /\ w[Len(walk)].src = walk[Len(walk)].src /\ w[Len(walk)].dst = walk[Len(walk)].dst
      /\ w[Len(walk)].seen = walk[Len(walk)].seen \cup {q}
  BY <1>1, <1>2 DEF FrameType
<1> HIDE DEF w
<1>6. \A k \in DOMAIN walk : w[k] \in FrameType
  BY <1>2, <1>4, <1>5
<1>7. w \in Seq(FrameType) /\ Len(w) = Len(walk)
  <2>1. w = [k \in 1 .. Len(walk) |-> w[k]]
    BY <1>1, <1>3 DEF w
  <2> QED BY <1>1, <1>6, <2>1
<1>8. w # <<>>
  BY <1>1, <1>3
<1> QED BY <1>3, <1>4, <1>5, <1>7, <1>8 DEF w

-----------------------------------------------------------------------------
(* What the invariant says in the middle of a tree. *)

LEMMA TreeIs ==
    ASSUME IInv, pc \in InTree
    PROVE  /\ Types /\ Trees /\ Store /\ op \in Ops
           /\ Count \in DOMAIN op.names /\ item.src = Root(Count) /\ item.dst = DstOf(op, Count)
           /\ item.src \in Path /\ cur.src \in Path /\ cur.dst \in Path
           /\ op.kind # "rename" /\ op.kind # "recase"
<1>1. Types /\ Trees /\ Store /\ Count \in DOMAIN op.names
  BY DEF IInv, Control, TreeInv, Store
<1>2. item.src = Root(Count) /\ item.dst = DstOf(op, Count)
  BY DEF IInv, Control
<1>3. item.src \in Path /\ cur.src \in Path /\ cur.dst \in Path
  BY <1>1 DEF Types
<1> QED BY <1>1, <1>2, <1>3, Real DEF Trees

LEMMA CopyIs ==
    ASSUME IInv, pc \in InTree, phase = "copy"
    PROVE  /\ Types /\ Store /\ CopyWalk /\ Copies /\ ~Onto(op) /\ op \in Ops
           /\ Count \in DOMAIN op.names /\ item.src = Root(Count) /\ item.src \in Path
<1>1. Types /\ Trees /\ Store /\ op \in Ops /\ Count \in DOMAIN op.names /\ item.src = Root(Count)
      /\ item.src \in Path
  BY TreeIs
<1>2. Copies /\ ~Onto(op)
  BY DEF IInv, Control
<1> QED BY <1>1, <1>2 DEF IInv, TreeInv

\* The file or folder in hand, while copying.
LEMMA HandIs ==
    ASSUME IInv, InHand, phase = "copy"
    PROVE  /\ pc \in InTree /\ cur.src \in Path /\ cur.dst \in Path /\ cur.dst # <<>>
           /\ Under(Root(Count), cur.src) /\ Under(item.src, cur.src)
           /\ Chosen(op, cur.src) /\ cur.dst = Goes(op, cur.src) /\ Aimed(cur.dst)
           /\ cur.src \in DOMAIN before /\ cur.src \in DOMAIN vol /\ vol[cur.src] = before[cur.src]
<1>1. pc \in InTree /\ ~Failed
  BY DEF InHand, InTree, InFile, Failed
<1>2. CopyWalk /\ Types /\ item.src = Root(Count) /\ item.src \in Path /\ Count \in DOMAIN op.names
  BY <1>1, CopyIs
<1>3. cur.src \in Path /\ cur.dst \in Path
  BY <1>1, TreeIs
<1>4. Under(item.src, cur.src)
  <2>1. CASE walk = <<>>
    BY <1>2, <2>1, UnderSelf DEF CopyWalk
  <2>2. CASE walk # <<>>
    <3>1. Len(walk) \in DOMAIN walk /\ top = walk[Len(walk)] /\ top.src \in Path
      BY <1>2, <2>2, WalkIs
    <3>2. cur.src \in top.seen
      BY <1>2, <2>2 DEF CopyWalk
    <3>3. cur.src # <<>> /\ Front(cur.src) = top.src /\ Under(item.src, top.src)
      BY <1>1, <1>2, <3>1, <3>2 DEF CopyWalk, Frames
    <3>4. Under(top.src, cur.src)
      BY <1>3, <3>3, Child
    <3> QED BY <1>2, <1>3, <3>1, <3>3, <3>4, UnderTwice
  <2> QED BY <2>1, <2>2
<1>5. Chosen(op, cur.src) /\ Aimed(Goes(op, cur.src)) /\ Goes(op, cur.src) # <<>>
  BY <1>2, <1>3, <1>4, BelowRoot
<1>6. cur.src \in DOMAIN before /\ cur.dst = Goes(op, cur.src)
  BY <1>2 DEF CopyWalk
<1>7. Same(cur.src)
  BY <1>2, <1>3, <1>4 DEF CopyWalk, Intact
<1> QED BY <1>1, <1>2, <1>3, <1>4, <1>5, <1>6, <1>7 DEF Same

\* What lies above it and in a folder of the walk has been read there.
LEMMA Seen ==
    ASSUME IInv, InHand, phase = "copy", NEW k \in DOMAIN walk,
           NEW q \in Path, q # <<>>, Front(q) = walk[k].src, Under(q, cur.src)
    PROVE  q \in walk[k].seen
<1>1. pc \in InTree /\ ~Failed
  BY DEF InHand, InTree, InFile, Failed
<1>2. Types /\ Frames /\ Nested /\ cur.src \in Path /\ walk # <<>>
  BY <1>1, CopyIs, TreeIs, WalkIs DEF CopyWalk
<1>3. Len(walk) \in DOMAIN walk /\ top = walk[Len(walk)] /\ top.src \in Path /\ top.seen \subseteq Path
      /\ Len(walk) \in Nat /\ DOMAIN walk = 1 .. Len(walk) /\ walk[k].seen \subseteq Path
  BY <1>2, WalkIs
<1>4. cur.src \in top.seen
  BY <1>1, <1>2, CopyIs DEF CopyWalk
<1>5. \E r \in walk[k].seen : Under(r, cur.src)
  <2>1. CASE k = Len(walk)
    BY <1>2, <1>3, <1>4, <2>1, UnderSelf
  <2>2. CASE k # Len(walk)
    <3>1. k < Len(walk)
      BY <1>3, <2>2
    <3>2. PICK r \in walk[k].seen : Under(r, top.src)
      BY <1>2, <1>3, <3>1 DEF Nested
    <3>3. cur.src # <<>> /\ Front(cur.src) = top.src
      BY <1>2, <1>3, <1>4 DEF Frames
    <3>4. Under(top.src, cur.src)
      BY <1>2, <3>3, Child
    <3>5. Under(r, cur.src)
      BY <1>2, <1>3, <3>2, <3>4, UnderTwice
    <3> QED BY <3>5
  <2> QED BY <2>1, <2>2
<1>6. PICK r \in walk[k].seen : Under(r, cur.src)
  BY <1>5
<1>7. r \in Path /\ r # <<>> /\ Front(r) = walk[k].src
  BY <1>2, <1>3 DEF Frames
<1>8. r = q
  BY <1>2, <1>6, <1>7, SiblingsApart
<1> QED BY <1>8

\* The invariant after a step in the middle of a tree, from its parts.
LEMMA TreeStep ==
    ASSUME op' = op, Trees, Types', Control', Store', File',
           pc' \in InTree /\ phase' = "copy" => CopyWalk',
           pc' \in InTree /\ phase' = "remove" => RemoveWalk'
    PROVE  IInv'
BY DEF IInv, TreeInv, Store, Trees, RenameInv, RecaseInv

LEMMA ControlKept ==
    ASSUME Control, Still, todo' = todo, item' = item, phase' = phase, pc \in InTree, pc' \in InTree,
           pc' \in InFile \cup {"leave"} => phase = "copy",
           pc' = "rmdir" => phase = "remove",
           pc' \in {"list", "leave", "rmdir"} => walk' # <<>>
    PROVE  Control'
<1>1. Count' = Count /\ \A i : Root(i)' = Root(i)
  BY DEF Still, Count, Root
<1> QED BY <1>1 DEF Control, Still, InTree, InFile, Trees, Copies

LEMMA UnseenMade ==
    ASSUME IInv, InHand, phase = "copy", Still, NEW s, s = cur.src, But(Goes(op, s)),
           \A c \in copied' : c \in copied \/ c.src = s,
           NEW k \in DOMAIN walk, NEW q \in Path, q # <<>>, Front(q) = walk[k].src, q \notin walk[k].seen
    PROVE  Unmade(q)'
<1>1. pc \in InTree /\ ~Failed
  BY DEF InHand, InTree, InFile, Failed
<1>2. Types /\ Frames /\ item.src = Root(Count) /\ item.src \in Path /\ Count \in DOMAIN op.names
  BY <1>1, CopyIs DEF CopyWalk
<1>3. s \in Path /\ Chosen(op, s)
  BY HandIs
<1>4. ~Under(q, s)
  BY Seen
<1>5. Unmade(q) /\ Under(item.src, walk[k].src) /\ walk[k].src \in Path
  BY <1>2, WalkIs DEF Frames
<1>6. Under(item.src, q)
  BY <1>2, <1>5, Child, UnderTwice
<1>7. Chosen(op, q)
  BY <1>2, <1>6, BelowRoot
<1> QED BY <1>2, <1>3, <1>4, <1>5, <1>7, UnmadeBut

\* One step of the work on the file or folder in hand.
LEMMA HandStep ==
    ASSUME Separate, IInv, InHand, phase = "copy", Still, Grow, todo' = todo, item' = item,
           NEW s, s = cur.src, But(Goes(op, s)),
           \A c \in copied : c.src # s,
           \A c \in copied' : c \in copied \/ (c.src = s /\ Right(c)'),
           Goes(op, s) \in DOMAIN before =>
               \/ Same(Goes(op, s))'
               \/ ~before[Goes(op, s)].dir /\ (Replaceable(Goes(op, s))' \/ Goes(op, s) \in unnoticed')
    PROVE  /\ Store' /\ Intact(item.src)'
           /\ \A k \in DOMAIN walk, q \in Path :
                  q # <<>> /\ Front(q) = walk[k].src /\ q \notin walk[k].seen => Unmade(q)'
<1>1. /\ pc \in InTree /\ s \in Path /\ Under(Root(Count), s) /\ Chosen(op, s) /\ Aimed(Goes(op, s))
  BY HandIs
<1>2. Types /\ Store /\ CopyWalk /\ Copies /\ ~Onto(op) /\ op \in Ops /\ Count \in DOMAIN op.names
      /\ item.src = Root(Count)
  BY <1>1, CopyIs
<1>3. Store'
  BY <1>1, <1>2, StoreMade
<1>4. Intact(item.src)'
  <2>1. PICK d \in Path : d = Goes(op, s)
    BY <1>1, <1>2, BelowRoot
  <2>2. PICK r : r = item.src
    OBVIOUS
  <2>3. ~Under(r, d)
    <3>1. ~Chosen(op, d)
      BY <1>1, <1>2, <2>1, AimedApart
    <3> QED BY <3>1, <2>2, <1>2 DEF Chosen, Root
  <2>4. Intact(r)'
    BY <1>2, <2>1, <2>2, <2>3, IntactBut DEF CopyWalk
  <2> QED BY <2>2, <2>4 DEF Intact
<1>5. ASSUME NEW k \in DOMAIN walk, NEW q \in Path, q # <<>>, Front(q) = walk[k].src,
             q \notin walk[k].seen
      PROVE  Unmade(q)'
  BY <1>5, UnseenMade
<1> QED BY <1>3, <1>4, <1>5

LEMMA NodesTyped == Dir \in Node /\ \A d \in Seq(Chunk) : Written(d) \in Node
<1>1. <<>> \in Seq(Chunk)
  OBVIOUS
<1> QED BY <1>1 DEF Dir, Written, Node, NOW

\* f_mkdir of a copied folder, whether it works or not.
MadeDir(p) ==
    \/ vol' = vol
    \/ p \notin DOMAIN vol /\ IsDir(vol, Front(p)) /\ vol' = With(vol, p, Dir)

LEMMA MadeDirIs ==
    ASSUME IsVolume(vol), NEW p \in Path, MadeDir(p)
    PROVE  IsVolume(vol') /\ But(p) /\ (p \in DOMAIN vol => vol' = vol)
<1>1. CASE vol' = vol
  BY <1>1 DEF But
<1>2. CASE p \notin DOMAIN vol /\ IsDir(vol, Front(p)) /\ vol' = With(vol, p, Dir)
  <2>1. p # <<>>
    <3>1. SUFFICES ASSUME p = <<>>  PROVE FALSE
      OBVIOUS
    <3>2. Front(p) = p
      BY <3>1 DEF Front
    <3> QED BY <3>2, <1>2 DEF IsDir
  <2>2. ~IsDir(vol, p)
    BY <1>2 DEF IsDir
  <2>3. IsVolume(vol')
    BY <1>2, <2>1, <2>2, WithVolume, NodesTyped
  <2>4. But(p)
    BY <1>2 DEF But, With
  <2> QED BY <1>2, <2>3, <2>4
<1> QED BY <1>1, <1>2 DEF MadeDir

LEMMA FrameOf == ASSUME Types  PROVE /\ Frame(cur) \in FrameType /\ Frame(cur).src = cur.src
                                     /\ Frame(cur).dst = cur.dst /\ Frame(cur).seen = {}
BY DEF Types, Frame, FrameType

LEMMA UnmadeBelow ==
    ASSUME NEW s \in Path, NEW q \in Path, Under(s, q), Unmade(s)
    PROVE  Unmade(q)
BY UnderTwice DEF Unmade

LEMMA EnterFolderKeeps ==
    ASSUME Separate, IInv, EnterFolder
    PROVE  IInv'
<1>1. /\ pc = "entry" /\ pc' = "list" /\ pc \in InTree /\ InHand /\ ~Failed
      /\ op' = op /\ todo' = todo /\ item' = item /\ phase' = phase /\ cur' = cur
      /\ copied' = copied /\ skipped' = skipped /\ unnoticed' = unnoticed /\ before' = before
      /\ walk' = Append(walk, Frame(cur))
      /\ how' = how /\ fd' = fd /\ pos' = pos /\ rc' = rc /\ askall' = askall /\ abort' = abort
      /\ IsDir(vol, cur.src)
  BY DEF EnterFolder, file, ghost, InTree, InHand, Failed
<1>2. Still /\ Grow
  BY <1>1 DEF Still, Grow
<1>3. Types /\ Trees /\ Store /\ op \in Ops /\ item.src \in Path /\ cur.src \in Path /\ cur.dst \in Path
      /\ Control
  BY <1>1, TreeIs DEF IInv
<1>4. /\ walk' \in Seq(FrameType) /\ walk' # <<>> /\ Len(walk') = Len(walk) + 1
      /\ DOMAIN walk' = 1 .. Len(walk) + 1 /\ walk'[Len(walk) + 1] = Frame(cur)
      /\ \A k \in DOMAIN walk : k \in DOMAIN walk' /\ walk'[k] = walk[k]
      /\ DOMAIN walk = 1 .. Len(walk) /\ Len(walk) \in Nat
  BY <1>1, <1>3, FrameOf, WalkGrown, WalkIs
<1>5. phase = "copy" => MadeDir(cur.dst)
  BY DEF EnterFolder, f_mkdir, MadeDir
<1>6. phase # "copy" => vol' = vol
  BY DEF EnterFolder
<1>7. IsVolume(vol')
  BY <1>3, <1>5, <1>6, MadeDirIs DEF Types
<1>8. Types'
  BY <1>1, <1>3, <1>4, <1>7 DEF Types, Busy, Count
<1>9. Control'
  BY <1>1, <1>2, <1>3, <1>4, ControlKept DEF InTree, InFile
<1>10. File'
  BY <1>1 DEF File, InFile
<1>11. CASE phase = "copy"
  <2>1. PICK s \in Path : s = cur.src
    BY <1>3
  <2>2. CopyWalk /\ Copies /\ ~Onto(op) /\ Count \in DOMAIN op.names /\ item.src = Root(Count)
    BY <1>1, <1>11, CopyIs
  <2>3. Unmade(s)
    BY <1>1, <2>1, <2>2 DEF CopyWalk
  <2>4. /\ cur.dst = Goes(op, s) /\ Chosen(op, s) /\ Under(item.src, s)
        /\ s \in DOMAIN before /\ vol[s] = before[s] /\ s \in DOMAIN vol
    BY <1>1, <1>11, <2>1, HandIs
  <2>5. Same(Goes(op, s)) /\ \A c \in copied : c.src # s
    BY <2>3, UnderSelf DEF Unmade
  <2>6. But(Goes(op, s)) /\ (Goes(op, s) \in DOMAIN vol => vol' = vol)
    BY <1>3, <1>5, <1>11, <2>4, MadeDirIs DEF Types
  <2>7. Goes(op, s) \in DOMAIN before => Same(Goes(op, s))'
    BY <2>5, <2>6, <1>1 DEF Same
  <2>8. /\ Store' /\ Intact(item.src)'
        /\ \A k \in DOMAIN walk, q \in Path :
               q # <<>> /\ Front(q) = walk[k].src /\ q \notin walk[k].seen => Unmade(q)'
    BY <1>1, <1>2, <1>11, <2>1, <2>5, <2>6, <2>7, HandStep
  <2>9. ASSUME NEW q \in Path, q # <<>>, Front(q) = s  PROVE Unmade(q)'
    <3>1. Under(s, q) /\ s # q
      BY <2>9, Child
    <3>2. ~Under(q, s)
      BY <3>1, UnderAt, UnderEq, PathLen
    <3>3. Unmade(q) /\ Chosen(op, q)
      BY <1>3, <2>3, <2>4, <3>1, UnmadeBelow, InUnder
    <3> QED BY <1>1, <1>2, <1>3, <2>4, <2>6, <3>2, <3>3, UnmadeBut
  <2>10. Frames /\ Nested /\ Progress /\ (walk # <<>> => walk[1].src = item.src)
         /\ (IF walk = <<>> THEN s = item.src ELSE s \in top.seen)
    BY <1>1, <2>1, <2>2 DEF CopyWalk
  <2>11. Frames'
    <3> SUFFICES ASSUME NEW k \in DOMAIN walk'
                 PROVE  /\ Under(item.src, walk'[k].src) /\ IsDir(before, walk'[k].src)
                        /\ walk'[k].dst = Goes(op, walk'[k].src)
                        /\ \A q \in walk'[k].seen : q # <<>> /\ Front(q) = walk'[k].src
                        /\ \A q \in Path : q # <<>> /\ Front(q) = walk'[k].src /\ q \notin walk'[k].seen
                              => Unmade(q)'
      BY <1>1 DEF Frames, Goes, IsDir
    <3>1. CASE k \in DOMAIN walk
      BY <3>1, <1>4, <2>8, <2>10 DEF Frames
    <3>2. CASE k = Len(walk) + 1
      <4>1. walk'[k].src = s /\ walk'[k].dst = cur.dst /\ walk'[k].seen = {}
        BY <3>2, <1>3, <1>4, <2>1, FrameOf
      <4>2. IsDir(before, s)
        BY <1>1, <2>1, <2>4 DEF IsDir
      <4> QED BY <4>1, <4>2, <2>4, <2>9
    <3> QED BY <3>1, <3>2, <1>4
  <2>12. Nested'
    <3> SUFFICES ASSUME NEW j \in DOMAIN walk', NEW k \in DOMAIN walk', j < k
                 PROVE  \E q \in walk'[j].seen : Under(q, walk'[k].src)
      BY DEF Nested
    <3>1. CASE k \in DOMAIN walk
      BY <3>1, <1>4, <2>10 DEF Nested
    <3>2. CASE k = Len(walk) + 1
      <4>1. j \in DOMAIN walk /\ walk'[j] = walk[j] /\ walk'[k].src = s
        BY <3>2, <1>3, <1>4, <2>1, FrameOf
      <4>2. walk # <<>> /\ Len(walk) \in DOMAIN walk /\ top = walk[Len(walk)] /\ top.src \in Path
        BY <1>3, <4>1, WalkIs
      <4>3. s \in top.seen
        BY <2>10, <4>2
      <4>4. CASE j = Len(walk)
        BY <4>1, <4>2, <4>3, <4>4, UnderSelf
      <4>5. CASE j < Len(walk)
        <5>1. PICK q \in walk[j].seen : Under(q, top.src)
          BY <4>1, <4>2, <4>5, <2>10 DEF Nested
        <5>2. q \in Path
          BY <1>3, <4>1, <5>1, WalkIs
        <5>3. s # <<>> /\ Front(s) = top.src
          BY <4>2, <4>3, <2>10 DEF Frames
        <5>4. Under(q, s)
          BY <4>2, <5>1, <5>2, <5>3, Child, UnderTwice
        <5> QED BY <4>1, <5>1, <5>4
      <4> QED BY <1>4, <4>1, <4>4, <4>5
    <3> QED BY <3>1, <3>2, <1>4
  <2>13. Progress'
    <3> SUFFICES ASSUME NEW k \in DOMAIN walk', NEW q \in walk'[k].seen
                 PROVE  AllDone(q)' \/ (k < Len(walk') /\ q = walk'[k + 1].src)
      BY DEF Progress
    <3>1. k \in DOMAIN walk /\ walk'[k] = walk[k]
      BY <1>3, <1>4, FrameOf
    <3>2. \/ AllDone(q)
          \/ k < Len(walk) /\ q = walk[k + 1].src
          \/ k = Len(walk) /\ q = s
      BY <2>1, <2>10, <3>1 DEF Progress
    <3>3. CASE AllDone(q)
      BY <3>3, <1>2, AllDoneGrows
    <3>4. CASE k < Len(walk) /\ q = walk[k + 1].src
      BY <3>4, <3>1, <1>4
    <3>5. CASE k = Len(walk) /\ q = s
      <4>1. walk'[k + 1].src = s
        BY <3>5, <1>3, <1>4, <2>1, FrameOf
      <4> QED BY <4>1, <3>5, <1>4
    <3> QED BY <3>2, <3>3, <3>4, <3>5
  <2>14. walk'[1].src = item.src
    <3>1. CASE walk = <<>>
      <4>1. Len(walk) + 1 = 1
        BY <3>1
      <4>2. walk'[1].src = s
        BY <4>1, <1>3, <1>4, <2>1, FrameOf
      <4> QED BY <4>2, <3>1, <2>10
    <3>2. CASE walk # <<>>
      BY <3>2, <1>3, <1>4, <2>10, WalkIs
    <3> QED BY <3>1, <3>2
  <2>15. CopyWalk'
    <3>1. ~InHand'
      BY <1>1 DEF InHand, InFile
    <3> QED BY <3>1, <1>1, <2>8, <2>11, <2>12, <2>13, <2>14 DEF CopyWalk
  <2> QED BY <1>1, <1>3, <1>8, <1>9, <1>10, <1>11, <2>8, <2>15, TreeStep
<1>12. CASE phase = "remove"
  <2>1. Store'
    BY <1>1, <1>2, <1>3, <1>6, <1>12, StoreStays
  <2>2. RemoveWalk
    BY <1>1, <1>12, <1>3 DEF IInv, TreeInv
  <2>3. RemoveWalk'
    <3>1. op.kind = "move" => AllDone(item.src)'
      <4>1. PICK r : r = item.src
        OBVIOUS
      <4>2. AllDone(r) => AllDone(r)'
        BY <1>2, AllDoneGrows
      <4> QED BY <1>1, <4>1, <4>2, <2>2 DEF RemoveWalk, AllDone
    <3>2. ASSUME NEW k \in DOMAIN walk'  PROVE Under(item.src, walk'[k].src)
      <4>1. CASE k \in DOMAIN walk
        BY <4>1, <1>4, <2>2 DEF RemoveWalk
      <4>2. CASE k = Len(walk) + 1
        BY <4>2, <1>1, <1>3, <1>4, <2>2, FrameOf DEF RemoveWalk
      <4> QED BY <1>4, <4>1, <4>2
    <3> QED BY <1>1, <3>1, <3>2 DEF RemoveWalk
  <2> QED BY <1>1, <1>3, <1>8, <1>9, <1>10, <1>12, <2>1, <2>3, TreeStep
<1> QED BY <1>3, <1>11, <1>12 DEF Types

LEMMA AsBefore ==
    ASSUME Still, Grow, vol' = vol, copied' = copied
    PROVE  \A r : /\ Intact(r)' <=> Intact(r)
                  /\ Unmade(r)' <=> Unmade(r)
                  /\ AllDone(r) => AllDone(r)'
<1>1. \A p : Same(p)' <=> Same(p)
  BY DEF Still, Same
<1>2. \A r : (Intact(r)' <=> Intact(r)) /\ (Unmade(r)' <=> Unmade(r))
  BY <1>1 DEF Intact, Unmade, Still, Goes, Same
<1>3. \A r : AllDone(r) => AllDone(r)'
  BY AllDoneGrows
<1> QED BY <1>2, <1>3

\* A worker that comes back without a result leaves the source as it was.
LEMMA FailedWalk ==
    ASSUME pc' = "back", rc' <= 0, item' = item, Intact(item.src)'
    PROVE  CopyWalk'
<1>1. Failed' /\ ~InHand'
  BY DEF Failed, InHand, InFile
<1>2. rc' # 1
  OBVIOUS
<1> QED BY <1>1, <1>2 DEF CopyWalk

LEMMA RemoveKept ==
    ASSUME RemoveWalk, Still, Grow, item' = item, pc' # "entry",
           \A k \in DOMAIN walk' : k \in DOMAIN walk /\ walk'[k].src = walk[k].src
    PROVE  RemoveWalk'
<1>1. op.kind = "move" => AllDone(item.src)'
  <2>1. PICK r : r = item.src
    OBVIOUS
  <2>2. AllDone(r) => AllDone(r)'
    BY AllDoneGrows
  <2> QED BY <2>1, <2>2 DEF RemoveWalk, AllDone
<1>2. \A k \in DOMAIN walk' : Under(item.src, walk'[k].src)
  BY DEF RemoveWalk
<1> QED BY <1>1, <1>2 DEF RemoveWalk, Still

\* A step that leaves the card alone and comes back failed.
LEMMA BackFailed ==
    ASSUME IInv, pc \in InTree, Still, Grow, vol' = vol, copied' = copied, todo' = todo,
           item' = item, phase' = phase, pc' = "back", rc' <= 0, Types',
           \A k \in DOMAIN walk' : k \in DOMAIN walk /\ walk'[k].src = walk[k].src
    PROVE  IInv'
<1>1. Types /\ Trees /\ Store /\ Control
  BY TreeIs DEF IInv
<1>2. Control'
  BY <1>1, ControlKept DEF InTree, InFile
<1>3. Store'
  BY <1>1, StoreStays
<1>4. File'
  BY DEF File, InFile
<1>5. ASSUME phase = "copy"  PROVE CopyWalk'
  <2>1. Intact(item.src)
    BY <1>5, CopyIs DEF CopyWalk
  <2>2. Intact(item.src)'
    <3>1. PICK r : r = item.src
      OBVIOUS
    <3>2. Intact(r)'
      BY <2>1, <3>1, AsBefore
    <3> QED BY <3>1, <3>2 DEF Intact
  <2> QED BY <2>2, FailedWalk
<1>6. ASSUME phase = "remove"  PROVE RemoveWalk'
  <2>1. RemoveWalk
    BY <1>1, <1>6 DEF IInv, TreeInv
  <2> QED BY <2>1, RemoveKept
<1> QED BY <1>1, <1>2, <1>3, <1>4, <1>5, <1>6, TreeStep DEF Still

LEMMA EnterFailsKeeps ==
    ASSUME Separate, IInv, EnterFails
    PROVE  IInv'
<1>1. /\ pc = "entry" /\ pc' = "back" /\ pc \in InTree /\ InHand /\ rc' = 0
      /\ op' = op /\ todo' = todo /\ item' = item /\ phase' = phase /\ cur' = cur /\ walk' = walk
      /\ copied' = copied /\ skipped' = skipped /\ unnoticed' = unnoticed /\ before' = before
      /\ how' = how /\ fd' = fd /\ pos' = pos /\ askall' = askall /\ abort' = abort
  BY DEF EnterFails, file, ghost, place, InTree, InHand
<1>2. Still /\ Grow
  BY <1>1 DEF Still, Grow
<1>3. Types /\ Trees /\ Store /\ op \in Ops /\ item.src \in Path /\ cur.src \in Path /\ cur.dst \in Path
      /\ Control
  BY <1>1, TreeIs DEF IInv
<1>5. phase = "copy" => MadeDir(cur.dst)
  BY DEF EnterFails, MadeDir
<1>6. phase # "copy" => vol' = vol
  BY DEF EnterFails
<1>7. IsVolume(vol')
  BY <1>3, <1>5, <1>6, MadeDirIs DEF Types
<1>8. Types'
  BY <1>1, <1>3, <1>7 DEF Types, Busy, Count
<1>9. CASE phase = "copy"
  <2>1. PICK s \in Path : s = cur.src
    BY <1>3
  <2>2. CopyWalk
    BY <1>1, <1>9, CopyIs
  <2>3. Unmade(s)
    BY <1>1, <2>1, <2>2 DEF CopyWalk
  <2>4. cur.dst = Goes(op, s)
    BY <1>1, <1>9, <2>1, HandIs
  <2>5. Same(Goes(op, s)) /\ \A c \in copied : c.src # s
    BY <2>3, UnderSelf DEF Unmade
  <2>6. But(Goes(op, s)) /\ (Goes(op, s) \in DOMAIN vol => vol' = vol)
    BY <1>3, <1>5, <1>9, <2>4, MadeDirIs DEF Types
  <2>7. Goes(op, s) \in DOMAIN before => Same(Goes(op, s))'
    BY <2>5, <2>6, <1>1 DEF Same
  <2>8. Store' /\ Intact(item.src)'
    BY <1>1, <1>2, <1>9, <2>1, <2>5, <2>6, <2>7, HandStep
  <2>9. Control'
    BY <1>1, <1>2, <1>3, ControlKept DEF InTree, InFile
  <2>10. File'
    BY <1>1 DEF File, InFile
  <2>11. CopyWalk'
    BY <1>1, <2>8, FailedWalk
  <2> QED BY <1>1, <1>3, <1>8, <1>9, <2>8, <2>9, <2>10, <2>11, TreeStep
<1>10. CASE phase # "copy"
  BY <1>1, <1>2, <1>6, <1>8, <1>10, BackFailed
<1> QED BY <1>9, <1>10

LEMMA DescendKeeps ==
    ASSUME Separate, IInv, Descend
    PROVE  IInv'
<1>1. /\ pc = "list" /\ pc \in InTree /\ ~InHand /\ ~Failed
      /\ op' = op /\ todo' = todo /\ item' = item /\ phase' = phase /\ vol' = vol
      /\ copied' = copied /\ skipped' = skipped /\ unnoticed' = unnoticed /\ before' = before
      /\ how' = how /\ fd' = fd /\ pos' = pos /\ askall' = askall /\ abort' = abort
  BY DEF Descend, file, ghost, InTree, InHand, InFile, Failed
<1>2. Still /\ Grow
  BY <1>1 DEF Still, Grow
<1>3. Types /\ Trees /\ Store /\ op \in Ops /\ item.src \in Path /\ cur.src \in Path /\ cur.dst \in Path
      /\ Control
  BY <1>1, TreeIs DEF IInv
<1>4. walk # <<>>
  BY <1>1, <1>3 DEF Control
<1>5. /\ Len(walk) \in DOMAIN walk /\ top = walk[Len(walk)] /\ top.src \in Path /\ top.dst \in Path
      /\ Len(walk) \in Nat /\ DOMAIN walk = 1 .. Len(walk)
  BY <1>3, <1>4, WalkIs
<1>6. PICK q \in Children(vol, top.src) \ top.seen :
        IF phase = "remove" /\ abort
        THEN rc' = -1 /\ walk' = <<>> /\ pc' = "back" /\ UNCHANGED cur
        ELSE /\ walk' = [walk EXCEPT ![Len(walk)].seen = @ \cup {q}]
             /\ cur' = [src |-> q, dst |-> Append(top.dst, Last(q))]
             /\ pc' = "entry" /\ UNCHANGED rc
  BY DEF Descend
<1>7. CASE phase = "remove" /\ abort
  <2>1. rc' = -1 /\ walk' = <<>> /\ pc' = "back" /\ cur' = cur
    BY <1>6, <1>7
  <2>2. walk' \in Seq(FrameType) /\ DOMAIN walk' = {}
    BY <2>1
  <2>3. Types'
    BY <1>1, <1>3, <2>1, <2>2 DEF Types, Busy, Count
  <2> QED BY <1>1, <1>2, <2>1, <2>2, <2>3, BackFailed
<1>8. CASE ~(phase = "remove" /\ abort)
  <2>1. /\ walk' = [walk EXCEPT ![Len(walk)].seen = @ \cup {q}]
        /\ cur' = [src |-> q, dst |-> Append(top.dst, Last(q))]
        /\ pc' = "entry" /\ rc' = rc
    BY <1>6, <1>8
  <2>2. q \in DOMAIN vol /\ q # <<>> /\ Front(q) = top.src /\ q \in Path /\ q \notin top.seen
    BY <1>3, <1>6, NodeAt DEF Children, Types
  <2>3. Last(q) \in Name /\ Under(top.src, q)
    BY <2>2, Child
  <2>4. /\ walk' \in Seq(FrameType) /\ walk' # <<>> /\ Len(walk') = Len(walk) /\ DOMAIN walk' = DOMAIN walk
        /\ \A k \in DOMAIN walk :
               /\ walk'[k].src = walk[k].src /\ walk'[k].dst = walk[k].dst
               /\ walk'[k].seen = IF k = Len(walk) THEN walk[k].seen \cup {q} ELSE walk[k].seen
    BY <1>3, <1>4, <2>1, <2>2, WalkSeen
  <2>5. cur'.src = q /\ cur'.dst = Append(top.dst, Last(q)) /\ cur' \in [src : Path, dst : Path]
    <3>1. Append(top.dst, Last(q)) \in Path
      BY <1>5, <2>3, Longer
    <3> QED BY <3>1, <2>1, <2>2
  <2>6. Types'
    BY <1>1, <1>3, <2>1, <2>4, <2>5 DEF Types, Busy, Count
  <2>7. Control'
    BY <1>1, <1>2, <1>3, <2>1, ControlKept DEF InTree, InFile
  <2>8. Store'
    BY <1>1, <1>2, <1>3, StoreStays
  <2>9. File'
    BY <2>1 DEF File, InFile
  <2>10. \A r : (Intact(r)' <=> Intact(r)) /\ (Unmade(r)' <=> Unmade(r)) /\ (AllDone(r) => AllDone(r)')
    BY <1>1, <1>2, AsBefore
  <2>11. ASSUME phase = "copy"  PROVE CopyWalk'
    <3>1. CopyWalk /\ item.src = Root(Count) /\ Count \in DOMAIN op.names
      BY <1>1, <2>11, CopyIs
    <3>2. Frames /\ Nested /\ Progress /\ walk[1].src = item.src /\ Intact(item.src)
      BY <1>1, <1>4, <3>1 DEF CopyWalk
    <3>3. Under(item.src, top.src) /\ top.dst = Goes(op, top.src)
          /\ Unmade(q)
      BY <1>5, <2>2, <3>2 DEF Frames
    <3>4. Under(item.src, q)
      BY <1>3, <1>5, <2>2, <2>3, <3>3, UnderTwice
    <3>5. q \in DOMAIN before
      BY <2>2, <3>2, <3>4 DEF Intact, Same
    <3>6. Goes(op, q) = Append(top.dst, Last(q))
      <4>1. Chosen(op, top.src)
        BY <1>3, <1>5, <3>1, <3>3, BelowRoot
      <4> QED BY <1>3, <2>2, <3>3, <4>1, GoesChild
    <3>7. Frames'
      <4> SUFFICES ASSUME NEW k \in DOMAIN walk
                   PROVE  /\ Under(item.src, walk'[k].src) /\ IsDir(before, walk'[k].src)
                          /\ walk'[k].dst = Goes(op, walk'[k].src)
                          /\ \A p \in walk'[k].seen : p # <<>> /\ Front(p) = walk'[k].src
                          /\ \A p \in Path : p # <<>> /\ Front(p) = walk'[k].src /\ p \notin walk'[k].seen
                                => Unmade(p)'
        BY <1>1, <2>4 DEF Frames, Goes, IsDir
      <4>1. /\ walk'[k].src = walk[k].src /\ walk'[k].dst = walk[k].dst
            /\ walk'[k].seen = IF k = Len(walk) THEN walk[k].seen \cup {q} ELSE walk[k].seen
        BY <2>4
      <4>2. \A p \in walk'[k].seen : p # <<>> /\ Front(p) = walk[k].src
        BY <1>5, <2>2, <3>2, <4>1 DEF Frames
      <4>3. \A p : p \notin walk'[k].seen => p \notin walk[k].seen
        BY <4>1
      <4> QED BY <2>10, <3>2, <4>1, <4>2, <4>3 DEF Frames
    <3>8. Nested'
      <4> SUFFICES ASSUME NEW j \in DOMAIN walk, NEW k \in DOMAIN walk, j < k
                   PROVE  \E p \in walk'[j].seen : Under(p, walk'[k].src)
        BY <2>4 DEF Nested
      <4>1. PICK p \in walk[j].seen : Under(p, walk[k].src)
        BY <3>2 DEF Nested
      <4> QED BY <2>4, <4>1
    <3>9. Progress'
      <4> SUFFICES ASSUME NEW k \in DOMAIN walk, NEW p \in walk'[k].seen
                   PROVE  \/ AllDone(p)'
                          \/ k < Len(walk) /\ p = walk'[k + 1].src
                          \/ k = Len(walk) /\ InHand' /\ p = cur'.src
        BY <2>4 DEF Progress
      <4>1. InHand'
        BY <2>1 DEF InHand
      <4>2. CASE p \in walk[k].seen
        <5>1. AllDone(p) \/ (k < Len(walk) /\ p = walk[k + 1].src)
          BY <1>1, <3>2, <4>2 DEF Progress
        <5>2. k < Len(walk) => k + 1 \in DOMAIN walk
          BY <1>5
        <5> QED BY <2>4, <2>10, <5>1, <5>2
      <4>3. CASE p \notin walk[k].seen
        <5>1. k = Len(walk) /\ p = q
          BY <2>4, <4>3
        <5> QED BY <5>1, <4>1, <2>5
      <4> QED BY <4>2, <4>3
    <3>10. walk'[1].src = item.src
      BY <1>3, <1>4, <2>4, <3>2, WalkIs
    <3>11. cur'.src \in top'.seen
      <4>1. top' = walk'[Len(walk)]
        BY <2>4 DEF top, Last
      <4> QED BY <1>5, <2>4, <2>5, <4>1
    <3>12. Intact(item.src)'
      <4>1. PICK r : r = item.src
        OBVIOUS
      <4>2. Intact(r)'
        BY <4>1, <2>10, <3>2
      <4> QED BY <1>1, <4>1, <4>2 DEF Intact
    <3>13. Unmade(cur.src)'
      <4>1. Unmade(q)'
        BY <2>10, <3>3
      <4> QED BY <2>5, <4>1 DEF Unmade
    <3>14. cur'.dst = Goes(op', cur'.src) /\ cur'.src \in DOMAIN before'
      BY <1>1, <2>5, <3>5, <3>6
    <3> QED BY <1>1, <2>1, <2>4, <3>7, <3>8, <3>9, <3>10, <3>11, <3>12, <3>13, <3>14 DEF CopyWalk
  <2>12. ASSUME phase = "remove"  PROVE RemoveWalk'
    <3>1. RemoveWalk
      BY <1>1, <1>3, <2>12 DEF IInv, TreeInv
    <3>2. op.kind = "move" => AllDone(item.src)'
      <4>1. PICK r : r = item.src
        OBVIOUS
      <4>2. AllDone(r) => AllDone(r)'
        BY <2>10
      <4> QED BY <1>1, <4>1, <4>2, <3>1 DEF RemoveWalk, AllDone
    <3>3. \A k \in DOMAIN walk' : Under(item.src, walk'[k].src)
      BY <2>4, <3>1 DEF RemoveWalk
    <3>4. Under(item.src, q)
      BY <1>3, <1>5, <2>2, <2>3, <3>1, UnderTwice DEF RemoveWalk
    <3> QED BY <1>1, <2>5, <3>2, <3>3, <3>4 DEF RemoveWalk
  <2> QED BY <1>1, <1>3, <2>6, <2>7, <2>8, <2>9, <2>11, <2>12, TreeStep
<1> QED BY <1>7, <1>8

\* The frames of a walk that stays, or loses its last one.
LEMMA FramesStay ==
    ASSUME Frames, Nested, Still, Grow, vol' = vol, copied' = copied, item' = item,
           \A k \in DOMAIN walk' : k \in DOMAIN walk /\ walk'[k] = walk[k]
    PROVE  Frames' /\ Nested'
<1>1. \A r : Unmade(r)' <=> Unmade(r)
  BY AsBefore
<1>2. Frames'
  <2> SUFFICES ASSUME NEW k \in DOMAIN walk'
               PROVE  /\ Under(item.src, walk'[k].src) /\ IsDir(before, walk'[k].src)
                      /\ walk'[k].dst = Goes(op, walk'[k].src)
                      /\ \A q \in walk'[k].seen : q # <<>> /\ Front(q) = walk'[k].src
                      /\ \A q \in Path : q # <<>> /\ Front(q) = walk'[k].src /\ q \notin walk'[k].seen
                            => Unmade(q)'
    BY DEF Frames, Goes, IsDir, Still
  <2> QED BY <1>1 DEF Frames
<1>3. Nested'
  BY DEF Nested
<1> QED BY <1>2, <1>3

LEMMA IntactStays ==
    ASSUME Still, Grow, vol' = vol, copied' = copied, item' = item, Intact(item.src)
    PROVE  Intact(item.src)'
<1>1. PICK r : r = item.src
  OBVIOUS
<1>2. Intact(r)'
  BY <1>1, AsBefore
<1> QED BY <1>1, <1>2 DEF Intact

LEMMA ListEndKeeps ==
    ASSUME Separate, IInv, ListEnd
    PROVE  IInv'
<1>1. /\ pc = "list" /\ pc \in InTree /\ ~InHand /\ ~Failed
      /\ op' = op /\ todo' = todo /\ item' = item /\ phase' = phase /\ vol' = vol /\ walk' = walk
      /\ cur' = cur /\ copied' = copied /\ skipped' = skipped /\ before' = before
      /\ how' = how /\ fd' = fd /\ pos' = pos /\ askall' = askall /\ abort' = abort
      /\ rc' = 1 /\ pc' = IF phase = "copy" THEN "leave" ELSE "rmdir"
  BY DEF ListEnd, file, place, InTree, InHand, InFile, Failed
<1>2. Types /\ Trees /\ Store /\ op \in Ops /\ item.src \in Path /\ cur.src \in Path /\ cur.dst \in Path
      /\ Control
  BY <1>1, TreeIs DEF IInv
<1>3. walk # <<>>
  BY <1>1, <1>2 DEF Control
<1>4. /\ Len(walk) \in DOMAIN walk /\ top = walk[Len(walk)] /\ top.src \in Path /\ top.dst \in Path
      /\ Len(walk) \in Nat /\ DOMAIN walk = 1 .. Len(walk)
  BY <1>2, <1>3, WalkIs
<1>5. \/ Children(vol, top.src) \subseteq top.seen /\ unnoticed' = unnoticed
      \/ unnoticed' = unnoticed \cup {top.src}
  BY DEF ListEnd
<1>6. Still /\ Grow
  BY <1>1, <1>5 DEF Still, Grow
<1>7. Types'
  <2>1. unnoticed' \subseteq Path
    BY <1>2, <1>4, <1>5 DEF Types
  <2> QED BY <1>1, <1>2, <2>1 DEF Types, Busy, Count
<1>8. Control'
  BY <1>1, <1>2, <1>3, <1>6, ControlKept DEF InTree, InFile, Types
<1>9. Store'
  BY <1>1, <1>2, <1>6, StoreStays
<1>10. File'
  BY <1>1 DEF File, InFile
<1>11. ASSUME phase = "copy"  PROVE CopyWalk'
  <2>1. CopyWalk
    BY <1>1, <1>11, CopyIs
  <2>2. Frames /\ Nested /\ Progress /\ walk[1].src = item.src /\ Intact(item.src)
    BY <1>1, <1>3, <2>1 DEF CopyWalk
  <2>3. Frames' /\ Nested' /\ Intact(item.src)'
    BY <1>1, <1>6, <2>2, FramesStay, IntactStays
  <2>4. \A r : AllDone(r) => AllDone(r)'
    BY <1>6, AllDoneGrows
  <2>5. Progress'
    BY <1>1, <2>2, <2>4 DEF Progress
  <2>6. Under(item.src, top.src) /\ IsDir(before, top.src)
    BY <1>4, <2>2 DEF Frames
  <2>7. PICK t \in Path : t = top.src
    BY <1>4
  <2>8. AllDone(t)'
    <3>1. CASE Children(vol, top.src) \subseteq top.seen
      <4> SUFFICES ASSUME NEW p \in DOMAIN before, Under(t, p), ~before[p].dir
                   PROVE  Done(p)
        <5>1. AllDone(t)
          BY DEF AllDone
        <5> QED BY <2>4, <5>1
      <4>1. p # t
        BY <2>6, <2>7 DEF IsDir
      <4>2. IsVolume(before)
        BY <1>2 DEF Types
      <4>3. PICK c \in Children(before, t) : Under(c, p) /\ c \in Path
        BY <4>1, <4>2, TowardIn
      <4>4. c \in DOMAIN before /\ c # <<>> /\ Front(c) = t
        BY <4>3 DEF Children
      <4>5. Under(item.src, c)
        BY <1>2, <2>6, <2>7, <4>3, <4>4, Child, UnderTwice
      <4>6. c \in DOMAIN vol
        BY <2>2, <4>3, <4>4, <4>5 DEF Intact, Same
      <4>7. c \in top.seen
        BY <2>7, <3>1, <4>4, <4>6 DEF Children
      <4>8. AllDone(c)
        BY <1>1, <1>4, <2>2, <4>7 DEF Progress
      <4> QED BY <4>3, <4>8 DEF AllDone
    <3>2. CASE unnoticed' = unnoticed \cup {top.src}
      BY <2>7, <3>2, <1>1 DEF AllDone, Done
    <3> QED BY <1>5, <3>1, <3>2
  <2>9. AllDone(top.src)'
    <3>1. top' = top
      BY <1>1 DEF top
    <3> QED BY <2>7, <2>8, <3>1 DEF AllDone
  <2>10. ~InHand' /\ pc' = "leave"
    BY <1>1, <1>11 DEF InHand, InFile
  <2> QED BY <1>1, <2>2, <2>3, <2>5, <2>9, <2>10 DEF CopyWalk
<1>12. ASSUME phase = "remove"  PROVE RemoveWalk'
  <2>1. RemoveWalk
    BY <1>1, <1>2, <1>12 DEF IInv, TreeInv
  <2> QED BY <1>1, <1>6, <1>12, <2>1, RemoveKept
<1> QED BY <1>1, <1>2, <1>7, <1>8, <1>9, <1>10, <1>11, <1>12, TreeStep

LEMMA LeaveFolderKeeps ==
    ASSUME Separate, IInv, LeaveFolder
    PROVE  IInv'
<1>1. /\ pc = "leave" /\ pc \in InTree /\ ~InHand /\ ~Failed /\ pc' = "back"
      /\ op' = op /\ todo' = todo /\ item' = item /\ phase' = phase /\ vol' = vol /\ walk' = Front(walk)
      /\ cur' = cur /\ copied' = copied /\ skipped' = skipped /\ before' = before /\ rc' = rc
      /\ how' = how /\ fd' = fd /\ pos' = pos /\ askall' = askall /\ abort' = abort /\ unnoticed' = unnoticed
  BY DEF LeaveFolder, file, ghost, InTree, InHand, InFile, Failed
<1>2. Types /\ Trees /\ Store /\ op \in Ops /\ item.src \in Path /\ cur.src \in Path /\ cur.dst \in Path
      /\ Control
  BY <1>1, TreeIs DEF IInv
<1>3. walk # <<>> /\ phase = "copy"
  BY <1>1, <1>2 DEF Control
<1>4. /\ walk' \in Seq(FrameType) /\ Len(walk') = Len(walk) - 1 /\ Len(walk) \in Nat /\ Len(walk) >= 1
      /\ DOMAIN walk' = 1 .. Len(walk) - 1 /\ DOMAIN walk = 1 .. Len(walk)
      /\ \A k \in DOMAIN walk' : k \in DOMAIN walk /\ walk'[k] = walk[k]
      /\ walk' # <<>> => Len(walk) > 1
      /\ top = walk[Len(walk)]
  BY <1>1, <1>2, <1>3, WalkCut, WalkIs
<1>5. Still /\ Grow
  BY <1>1 DEF Still, Grow
<1>6. Types'
  BY <1>1, <1>2, <1>4 DEF Types, Busy, Count
<1>7. Control'
  BY <1>1, <1>2, <1>5, ControlKept DEF InTree, InFile
<1>8. Store'
  BY <1>1, <1>2, <1>5, StoreStays
<1>9. File'
  BY <1>1 DEF File, InFile
<1>10. CopyWalk'
  <2>1. CopyWalk
    BY <1>1, <1>3, CopyIs
  <2>2. Frames /\ Nested /\ Progress /\ walk[1].src = item.src /\ Intact(item.src) /\ AllDone(top.src)
    BY <1>1, <1>3, <2>1 DEF CopyWalk
  <2>3. Frames' /\ Nested' /\ Intact(item.src)'
    BY <1>1, <1>4, <1>5, <2>2, FramesStay, IntactStays
  <2>4. \A r : AllDone(r) => AllDone(r)'
    BY <1>5, AllDoneGrows
  <2>5. Progress'
    <3> SUFFICES ASSUME NEW k \in DOMAIN walk', NEW q \in walk'[k].seen
                 PROVE  AllDone(q)' \/ (k < Len(walk') /\ q = walk'[k + 1].src)
      BY DEF Progress
    <3>1. k \in DOMAIN walk /\ walk'[k] = walk[k] /\ k < Len(walk) /\ k \in Nat
      BY <1>4
    <3>2. AllDone(q) \/ q = walk[k + 1].src
      BY <1>1, <2>2, <3>1 DEF Progress
    <3>3. CASE q = walk[k + 1].src /\ k + 1 = Len(walk)
      BY <1>4, <2>2, <2>4, <3>3
    <3>4. CASE q = walk[k + 1].src /\ k + 1 # Len(walk)
      <4>1. k + 1 \in DOMAIN walk' /\ k < Len(walk')
        BY <1>4, <3>1, <3>4
      <4> QED BY <1>4, <3>4, <4>1
    <3> QED BY <2>4, <3>2, <3>3, <3>4
  <2>6. walk' # <<>> => walk'[1].src = item.src
    <3>1. walk' # <<>> => 1 \in DOMAIN walk'
      BY <1>4
    <3> QED BY <1>4, <2>2, <3>1
  <2>7. walk' = <<>> => AllDone(item.src)'
    <3> SUFFICES ASSUME walk' = <<>>  PROVE AllDone(item.src)'
      OBVIOUS
    <3>1. Len(walk) = 1
      <4>1. Len(walk') = 0
        OBVIOUS
      <4> QED BY <1>4, <4>1
    <3>2. PICK r : r = item.src
      OBVIOUS
    <3>3. AllDone(r)'
      BY <1>4, <2>2, <2>4, <3>1, <3>2
    <3> QED BY <1>1, <3>2, <3>3 DEF AllDone
  <2>8. ~InHand'
    BY <1>1 DEF InHand, InFile
  <2> QED BY <1>1, <2>3, <2>5, <2>6, <2>7, <2>8 DEF CopyWalk
<1> QED BY <1>1, <1>2, <1>3, <1>6, <1>7, <1>8, <1>9, <1>10, TreeStep

LEMMA ReturnKeeps ==
    ASSUME Separate, IInv, Return
    PROVE  IInv'
<1>1. /\ pc = "back" /\ pc \in InTree /\ ~InHand /\ walk # <<>>
      /\ op' = op /\ todo' = todo /\ item' = item /\ phase' = phase /\ vol' = vol
      /\ cur' = cur /\ copied' = copied /\ skipped' = skipped /\ before' = before /\ rc' = rc
      /\ how' = how /\ fd' = fd /\ pos' = pos /\ askall' = askall /\ abort' = abort /\ unnoticed' = unnoticed
      /\ IF rc <= 0 THEN walk' = Front(walk) /\ pc' = "back" ELSE walk' = walk /\ pc' = "list"
  BY DEF Return, file, ghost, InTree, InHand, InFile
<1>2. Types /\ Trees /\ Store /\ op \in Ops /\ item.src \in Path /\ cur.src \in Path /\ cur.dst \in Path
      /\ Control
  BY <1>1, TreeIs DEF IInv
<1>3. Still /\ Grow
  BY <1>1 DEF Still, Grow
<1>4. CASE rc <= 0
  <2>1. /\ walk' \in Seq(FrameType)
        /\ \A k \in DOMAIN walk' : k \in DOMAIN walk /\ walk'[k] = walk[k]
    BY <1>1, <1>2, <1>4, WalkCut
  <2>2. Types'
    BY <1>1, <1>2, <1>4, <2>1 DEF Types, Busy, Count
  <2> QED BY <1>1, <1>3, <1>4, <2>1, <2>2, BackFailed
<1>5. CASE ~(rc <= 0)
  <2>1. walk' = walk /\ pc' = "list" /\ ~Failed
    BY <1>1, <1>5 DEF Failed
  <2>2. Types'
    BY <1>1, <1>2, <2>1 DEF Types, Busy, Count
  <2>3. Control'
    BY <1>1, <1>2, <1>3, <2>1, ControlKept DEF InTree, InFile
  <2>4. Store'
    BY <1>1, <1>2, <1>3, StoreStays
  <2>5. File'
    BY <2>1 DEF File, InFile
  <2>6. ASSUME phase = "copy"  PROVE CopyWalk'
    <3>1. CopyWalk
      BY <1>1, <2>6, CopyIs
    <3>2. Frames /\ Nested /\ Progress /\ walk[1].src = item.src /\ Intact(item.src)
      BY <1>1, <2>1, <3>1 DEF CopyWalk
    <3>3. Frames' /\ Nested' /\ Intact(item.src)'
      BY <1>1, <1>3, <2>1, <3>2, FramesStay, IntactStays
    <3>4. \A r : AllDone(r) => AllDone(r)'
      BY <1>3, AllDoneGrows
    <3>5. Progress'
      BY <1>1, <2>1, <3>2, <3>4 DEF Progress
    <3>6. ~InHand'
      BY <2>1 DEF InHand, InFile
    <3> QED BY <1>1, <2>1, <3>2, <3>3, <3>5, <3>6 DEF CopyWalk
  <2>7. ASSUME phase = "remove"  PROVE RemoveWalk'
    <3>1. RemoveWalk
      BY <1>1, <1>2, <2>7 DEF IInv, TreeInv
    <3> QED BY <1>1, <1>3, <2>1, <3>1, RemoveKept
  <2> QED BY <1>1, <1>2, <2>2, <2>3, <2>4, <2>5, <2>6, <2>7, TreeStep
<1> QED BY <1>4, <1>5

\* f_unlink, whether it works or not.
Unlinked(p) ==
    \/ vol' = vol
    \/ Removable(vol, p) /\ vol' = Without(vol, p)

LEMMA UnlinkedIs ==
    ASSUME IsVolume(vol), NEW p, Unlinked(p)
    PROVE  IsVolume(vol') /\ But(p)
<1>1. CASE vol' = vol
  BY <1>1 DEF But
<1>2. CASE Removable(vol, p) /\ vol' = Without(vol, p)
  <2>1. IsVolume(vol')
    BY <1>2, WithoutVolume
  <2>2. But(p)
    BY <1>2, WithoutAt DEF But
  <2> QED BY <2>1, <2>2
<1> QED BY <1>1, <1>2 DEF Unlinked

LEMMA RemovalKeeps ==
    ASSUME Separate, IInv, pc \in InTree, phase = "remove",
           op' = op, todo' = todo, item' = item, phase' = phase, cur' = cur,
           copied' = copied, skipped' = skipped, unnoticed' = unnoticed, before' = before,
           how' = how, fd' = fd, pos' = pos, askall' = askall, abort' = abort,
           rc' \in {0, 1}, pc' = "back", walk' \in Seq(FrameType),
           \A k \in DOMAIN walk' : k \in DOMAIN walk /\ walk'[k] = walk[k],
           NEW s \in Path, Under(item.src, s), Unlinked(s)
    PROVE  IInv'
<1>1. Still /\ Grow
  BY DEF Still, Grow
<1>2. Types /\ Trees /\ Store /\ Count \in DOMAIN op.names /\ item.src = Root(Count) /\ Control /\ op \in Ops
  BY TreeIs DEF IInv
<1>3. RemoveWalk
  BY <1>2 DEF IInv, TreeInv
<1>4. op.kind # "copy" /\ (op.kind = "move" => ~Onto(op) /\ AllDone(Root(Count)))
  BY <1>2, <1>3 DEF Control, RemoveWalk, Copies
<1>5. IsVolume(vol') /\ But(s)
  BY <1>2, UnlinkedIs DEF Types
<1>6. Types'
  <2>1. rc' \in {-1, 0, 1, 2} /\ pc' \in Busy
    BY DEF Busy
  <2> QED BY ONLY <1>2, <1>5, <2>1, op' = op, todo' = todo, item' = item, phase' = phase, cur' = cur,
             copied' = copied, skipped' = skipped, unnoticed' = unnoticed, before' = before,
             how' = how, fd' = fd, pos' = pos, askall' = askall, abort' = abort,
             walk' \in Seq(FrameType), pc \in InTree, op \in Ops DEF Types, Count, Busy
<1>7. Control'
  BY <1>1, <1>2, ControlKept DEF InTree, InFile
<1>8. Store'
  BY <1>1, <1>2, <1>4, <1>5, StoreRemoved
<1>9. File'
  BY DEF File, InFile
<1>10. RemoveWalk'
  BY <1>1, <1>3, RemoveKept
<1> QED BY <1>2, <1>6, <1>7, <1>8, <1>9, <1>10, TreeStep

LEMMA RemoveFolderKeeps ==
    ASSUME Separate, IInv, RemoveFolder
    PROVE  IInv'
<1>1. /\ pc = "rmdir" /\ pc \in InTree /\ pc' = "back"
      /\ op' = op /\ todo' = todo /\ item' = item /\ phase' = phase /\ cur' = cur
      /\ copied' = copied /\ skipped' = skipped /\ before' = before /\ unnoticed' = unnoticed
      /\ how' = how /\ fd' = fd /\ pos' = pos /\ askall' = askall /\ abort' = abort
      /\ walk' = Front(walk)
  BY DEF RemoveFolder, file, ghost, InTree
<1>2. Types /\ Control /\ Trees
  BY <1>1, TreeIs DEF IInv
<1>3. phase = "remove" /\ walk # <<>>
  BY <1>1, <1>2 DEF Control
<1>4. RemoveWalk
  BY <1>1, <1>2, <1>3 DEF IInv, TreeInv
<1>5. top.src \in Path /\ Under(item.src, top.src)
  BY <1>2, <1>3, <1>4, WalkIs DEF RemoveWalk
<1>6. Unlinked(top.src) /\ rc' \in {0, 1}
  BY DEF RemoveFolder, f_unlink, Unlinked
<1>7. walk' \in Seq(FrameType) /\ \A k \in DOMAIN walk' : k \in DOMAIN walk /\ walk'[k] = walk[k]
  BY <1>1, <1>2, <1>3, WalkCut
<1> QED BY <1>1, <1>3, <1>5, <1>6, <1>7, RemovalKeeps

LEMMA RemoveFileKeeps ==
    ASSUME Separate, IInv, RemoveFile
    PROVE  IInv'
<1>1. /\ pc = "entry" /\ pc \in InTree /\ pc' = "back" /\ phase = "remove"
      /\ op' = op /\ todo' = todo /\ item' = item /\ phase' = phase /\ cur' = cur
      /\ copied' = copied /\ skipped' = skipped /\ before' = before /\ unnoticed' = unnoticed
      /\ how' = how /\ fd' = fd /\ pos' = pos /\ askall' = askall /\ abort' = abort
      /\ walk' = walk
  BY DEF RemoveFile, place, file, ghost, InTree
<1>2. Types /\ Trees /\ cur.src \in Path
  BY <1>1, TreeIs
<1>3. Under(item.src, cur.src)
  BY <1>1, <1>2 DEF IInv, TreeInv, RemoveWalk
<1>4. Unlinked(cur.src) /\ rc' \in {0, 1}
  BY DEF RemoveFile, f_unlink, Unlinked
<1>5. walk' \in Seq(FrameType)
  BY <1>1, <1>2 DEF Types
<1> QED BY <1>1, <1>2, <1>3, <1>4, <1>5, RemovalKeeps

-----------------------------------------------------------------------------
(* copy_file_pg. *)

\* The walk above a file at which something is done.
LEMMA HandWalk ==
    ASSUME IInv, InHand, phase = "copy", Still, Grow, item' = item, walk' = walk, cur' = cur,
           NEW s, s = cur.src, Intact(item.src)',
           \A k \in DOMAIN walk, q \in Path :
               q # <<>> /\ Front(q) = walk[k].src /\ q \notin walk[k].seen => Unmade(q)',
           pc' \in InFile \/ pc' = "back",
           pc' = "back" => rc' <= 0 \/ AllDone(s)',
           pc' = "open" => Unmade(s)'
    PROVE  CopyWalk'
<1>1. pc \in InTree /\ ~Failed
  BY DEF InHand, InTree, InFile, Failed
<1>2. Types /\ CopyWalk
  BY <1>1, CopyIs
<1>3. CASE Failed'
  BY <1>3, FailedWalk DEF Failed
<1>4. CASE ~Failed'
  <2>1. Frames /\ Nested /\ Progress /\ (walk # <<>> => walk[1].src = item.src)
    BY <1>1, <1>2 DEF CopyWalk
  <2>2. pc' = "back" => AllDone(s)'
    BY <1>4 DEF Failed
  <2>3. Frames'
    <3> SUFFICES ASSUME NEW k \in DOMAIN walk
                 PROVE  /\ Under(item.src, walk[k].src) /\ IsDir(before, walk[k].src)
                        /\ walk[k].dst = Goes(op, walk[k].src)
                        /\ \A q \in walk[k].seen : q # <<>> /\ Front(q) = walk[k].src
                        /\ \A q \in Path : q # <<>> /\ Front(q) = walk[k].src /\ q \notin walk[k].seen
                              => Unmade(q)'
      BY DEF Frames, Goes, IsDir, Still
    <3> QED BY <2>1 DEF Frames
  <2>4. Nested'
    BY <2>1 DEF Nested
  <2>5. InHand' \/ pc' = "back"
    BY DEF InHand
  <2>6. Progress'
    <3> SUFFICES ASSUME NEW k \in DOMAIN walk, NEW q \in walk[k].seen
                 PROVE  \/ AllDone(q)'
                        \/ k < Len(walk) /\ q = walk[k + 1].src
                        \/ k = Len(walk) /\ InHand' /\ q = s
      BY DEF Progress
    <3>1. \/ AllDone(q)
          \/ k < Len(walk) /\ q = walk[k + 1].src
          \/ k = Len(walk) /\ q = s
      BY <2>1 DEF Progress
    <3>2. AllDone(q) => AllDone(q)'
      BY AllDoneGrows
    <3> QED BY <2>2, <2>5, <3>1, <3>2
  <2>7. /\ cur.dst = Goes(op, cur.src) /\ cur.src \in DOMAIN before
        /\ IF walk = <<>> THEN cur.src = item.src ELSE cur.src \in top.seen
    BY <1>1, <1>2 DEF CopyWalk
  <2>8. /\ cur'.dst = Goes(op', cur'.src) /\ cur'.src \in DOMAIN before'
        /\ IF walk' = <<>> THEN cur'.src = item'.src ELSE cur'.src \in top'.seen
    BY <2>7 DEF Still, top
  <2>9. pc' = "open" => Unmade(cur.src)'
    BY DEF Unmade
  <2>10. pc' = "back" /\ rc' = 1 /\ walk' = <<>> => AllDone(item.src)'
    <3>1. walk = <<>> => s = item.src
      BY <2>7
    <3> QED BY <2>2, <3>1 DEF AllDone
  <2>11. pc' # "entry" /\ pc' # "leave"
    BY DEF InFile
  <2>12. walk' # <<>> => walk'[1].src = item'.src
    BY <2>1
  <2> QED BY <2>3, <2>4, <2>6, <2>8, <2>9, <2>10, <2>11, <2>12 DEF CopyWalk
<1> QED BY <1>3, <1>4

\* ... or nothing is done.
LEMMA HandStays ==
    ASSUME IInv, InHand, phase = "copy", Still, Grow, todo' = todo, item' = item, walk' = walk, cur' = cur,
           vol' = vol, copied' = copied, NEW s, s = cur.src,
           pc' \in InFile \/ pc' = "back",
           pc' = "back" => rc' <= 0 \/ AllDone(s)',
           pc' = "open" => Unmade(s)
    PROVE  CopyWalk' /\ Store'
<1>1. pc \in InTree /\ ~Failed
  BY DEF InHand, InTree, InFile, Failed
<1>2. Types /\ CopyWalk /\ Store
  BY <1>1, CopyIs
<1>3. Store'
  BY <1>2, StoreStays
<1>4. Intact(item.src)'
  BY <1>2, IntactStays DEF CopyWalk
<1>5. \A r : Unmade(r)' <=> Unmade(r)
  BY AsBefore
<1>6. Frames
  BY <1>1, <1>2 DEF CopyWalk
<1>7. ASSUME NEW k \in DOMAIN walk, NEW q \in Path,
             q # <<>> /\ Front(q) = walk[k].src /\ q \notin walk[k].seen
      PROVE  Unmade(q)'
  BY <1>5, <1>6, <1>7 DEF Frames
<1>8. pc' = "open" => Unmade(s)'
  BY <1>5
<1> QED BY <1>3, <1>4, <1>7, <1>8, HandWalk

LEMMA DecidedKeeps ==
    ASSUME IInv, Copying, pc' = "open", vol' = vol, op' = op, todo' = todo, item' = item, walk' = walk,
           cur' = cur, phase' = phase, fd' = fd, pos' = pos, rc' = rc, abort' = abort,
           before' = before, copied' = copied, skipped' = skipped,
           unnoticed \subseteq unnoticed', unnoticed' \subseteq Path,
           askall' \in {"ask", "overwrite", "skip"}, how' \in Modes,
           IF Clash THEN HowRight(how, cur.dst)' ELSE how' = "overwrite"
    PROVE  IInv'
<1>1. pc = "entry" /\ pc \in InTree /\ InHand /\ phase = "copy" /\ ~IsDir(vol, cur.src)
  BY DEF Copying, InTree, InHand
<1>2. Still /\ Grow
  BY DEF Still, Grow
<1>3. Types /\ Trees /\ Control
  BY <1>1, TreeIs DEF IInv
<1>4. PICK s \in Path : s = cur.src
  BY <1>1, TreeIs
<1>5. Unmade(s)
  BY <1>1, <1>4, CopyIs DEF CopyWalk
<1>6. cur.dst = Goes(op, s) /\ s \in DOMAIN before /\ s \in DOMAIN vol /\ vol[s] = before[s]
  BY <1>1, <1>4, HandIs
<1>7. Same(cur.dst) /\ \A c \in copied : c.src # s
  BY <1>4, <1>5, <1>6, UnderSelf DEF Unmade
<1>8. Types'
  <2>1. pc' \in Busy
    BY DEF Busy
  <2>2. op \in Ops
    BY <1>1, TreeIs
  <2> QED BY ONLY <1>3, <2>1, <2>2, vol' = vol, op' = op, todo' = todo, item' = item, walk' = walk,
           cur' = cur, phase' = phase, fd' = fd, pos' = pos, rc' = rc, abort' = abort,
           before' = before, copied' = copied, skipped' = skipped, unnoticed' \subseteq Path,
           askall' \in {"ask", "overwrite", "skip"}, how' \in Modes DEF Types, Count
<1>9. Control'
  BY <1>1, <1>2, <1>3, ControlKept DEF InTree, InFile
<1>10. CopyWalk' /\ Store'
  BY <1>1, <1>2, <1>4, <1>5, HandStays DEF InFile
<1>11. File'
  <2>1. ~before[cur.src].dir
    BY <1>1, <1>4, <1>6 DEF IsDir
  <2>2. cur.dst \notin DOMAIN before => how' = "overwrite"
    BY <1>7 DEF Same, Clash
  <2>3. HowRight(how, cur.dst)'
    BY <1>7 DEF Same, Clash, HowRight
  <2> QED BY <1>4, <1>7, <2>1, <2>2, <2>3 DEF File, InFile
<1> QED BY <1>1, <1>2, <1>3, <1>8, <1>9, <1>10, <1>11, TreeStep

LEMMA ModeIs == ASSUME NEW o \in Ops  PROVE o.mode \in Modes /\ o.verify \in BOOLEAN /\ o.kind \in Kinds
<1>1. o \in OpType
  BY OpParts
<1> QED BY <1>1 DEF OpType

LEMMA AnswerKeeps ==
    ASSUME Separate, IInv, NEW a \in {"overwrite", "skip", "cancel"}, NEW forall \in BOOLEAN, Answer(a, forall)
    PROVE  IInv'
<1>1. /\ Copying /\ Asks /\ pc \in InTree /\ op.mode = "ask" /\ Clash
      /\ vol' = vol /\ op' = op /\ todo' = todo /\ item' = item /\ walk' = walk
      /\ cur' = cur /\ phase' = phase /\ fd' = fd /\ pos' = pos /\ abort' = abort
      /\ before' = before /\ copied' = copied /\ skipped' = skipped /\ unnoticed' = unnoticed
  BY DEF Answer, Asks, Copying, InTree, place, ghost
<1>2. Types /\ op \in Ops
  BY <1>1, TreeIs
<1>3. CASE a = "cancel"
  <2>1. rc' = -1 /\ pc' = "back" /\ how' = how /\ askall' = askall
    BY <1>3 DEF Answer
  <2>2. Types'
    BY <1>1, <1>2, <2>1 DEF Types, Busy, Count
  <2>3. Still /\ Grow
    BY <1>1 DEF Still, Grow
  <2> QED BY <1>1, <2>1, <2>2, <2>3, BackFailed
<1>4. CASE a # "cancel"
  <2>1. how' = a /\ pc' = "open" /\ rc' = rc /\ askall' = (IF forall THEN a ELSE askall)
    BY <1>4 DEF Answer
  <2>2. a \in {"overwrite", "skip"}
    BY <1>4
  <2>3. askall' \in {"ask", "overwrite", "skip"}
    BY <1>2, <2>1, <2>2 DEF Types
  <2>4. how' \in Modes
    BY <2>1, <2>2 DEF Modes
  <2>5. HowRight(how, cur.dst)'
    BY <1>1, <2>1, <2>2 DEF HowRight
  <2> QED BY <1>1, <1>2, <2>1, <2>3, <2>4, <2>5, DecidedKeeps DEF Types
<1> QED BY <1>3, <1>4

LEMMA DecideKeeps ==
    ASSUME Separate, IInv, Decide
    PROVE  IInv'
<1>1. /\ Copying /\ ~Asks /\ pc \in InTree /\ pc' = "open"
      /\ vol' = vol /\ op' = op /\ todo' = todo /\ item' = item /\ walk' = walk
      /\ cur' = cur /\ phase' = phase /\ fd' = fd /\ pos' = pos /\ abort' = abort
      /\ before' = before /\ copied' = copied /\ skipped' = skipped /\ unnoticed' = unnoticed
      /\ rc' = rc /\ askall' = askall
      /\ how' = IF ~Clash THEN "overwrite" ELSE IF op.mode = "ask" THEN askall ELSE op.mode
  BY DEF Decide, Copying, InTree, place, ghost
<1>2. Types /\ op \in Ops /\ op.mode \in Modes
  BY <1>1, TreeIs, ModeIs
<1>3. askall \in {"ask", "overwrite", "skip"}
  BY <1>2 DEF Types
<1>4. Clash /\ op.mode = "ask" => askall \in {"overwrite", "skip"}
  BY <1>1, <1>3 DEF Asks
<1>5. how' \in Modes
  BY <1>1, <1>2, <1>3 DEF Modes
<1>6. IF Clash THEN HowRight(how, cur.dst)' ELSE how' = "overwrite"
  BY <1>1, <1>4 DEF HowRight
<1> QED BY <1>1, <1>2, <1>3, <1>5, <1>6, DecidedKeeps DEF Types

LEMMA MisjudgeKeeps ==
    ASSUME Separate, IInv, Misjudge
    PROVE  IInv'
<1>1. /\ Copying /\ Clash /\ pc \in InTree /\ pc = "entry" /\ phase = "copy" /\ pc' = "open" /\ how' = "overwrite"
      /\ vol' = vol /\ op' = op /\ todo' = todo /\ item' = item /\ walk' = walk
      /\ cur' = cur /\ phase' = phase /\ fd' = fd /\ pos' = pos /\ abort' = abort
      /\ before' = before /\ copied' = copied /\ skipped' = skipped
      /\ rc' = rc /\ askall' = askall
      /\ unnoticed' = IF vol[cur.dst].dir THEN unnoticed ELSE unnoticed \cup {cur.dst}
  BY DEF Misjudge, Copying, InTree, place, ghost
<1>2. Types /\ InHand
  BY <1>1, TreeIs DEF InHand
<1>3. PICK s \in Path, d \in Path : s = cur.src /\ d = cur.dst
  BY <1>1, TreeIs
<1>4. d = Goes(op, s) /\ Unmade(s)
  <2>1. CopyWalk
    BY <1>1, CopyIs
  <2> QED BY <1>1, <1>2, <1>3, <2>1, HandIs DEF CopyWalk
<1>5. Same(d)
  BY <1>3, <1>4, UnderSelf DEF Unmade
<1>6. unnoticed' \subseteq Path /\ unnoticed \subseteq unnoticed' /\ askall \in {"ask", "overwrite", "skip"}
  BY <1>1, <1>2, <1>3 DEF Types
<1>7. HowRight(how, cur.dst)'
  <2>1. d \in DOMAIN before => before[d].dir \/ d \in unnoticed'
    BY <1>1, <1>3, <1>5 DEF Same
  <2> QED BY <1>1, <1>3, <2>1 DEF HowRight
<1> QED BY <1>1, <1>6, <1>7, DecidedKeeps DEF Modes

LEMMA DataIs ==
    ASSUME Types, NEW p \in DOMAIN before
    PROVE  before[p].data \in Seq(Chunk) /\ Len(before[p].data) \in Nat
<1>1. before[p].data \in Seq(Chunk)
  BY NodeAt DEF Types
<1> QED BY <1>1

\* A file done is all that lies below it.
LEMMA FileDone ==
    ASSUME Types, before' = before, NEW s \in DOMAIN before, ~before[s].dir, Done(s)'
    PROVE  AllDone(s)'
<1>1. ASSUME NEW p \in DOMAIN before, Under(s, p)  PROVE p = s
  BY <1>1, Leaf DEF Types
<1> QED BY <1>1 DEF AllDone

LEMMA FileIs ==
    ASSUME IInv, pc \in InFile
    PROVE  /\ pc \in InTree /\ InHand /\ phase = "copy" /\ ~Failed
           /\ Types /\ Trees /\ Control /\ CopyWalk /\ Store /\ File /\ op \in Ops /\ Copies /\ ~Onto(op)
           /\ ~before[cur.src].dir /\ HowRight(how, cur.dst)
           /\ cur.dst \notin DOMAIN before => how = "overwrite"
           /\ \A c \in copied : c.src # cur.src
<1>1. pc \in InTree /\ InHand /\ ~Failed
  BY DEF InTree, InHand, InFile, Failed
<1>2. Types /\ Trees /\ Control
  BY <1>1, TreeIs DEF IInv
<1>3. phase = "copy"
  BY <1>2 DEF Control
<1>4. CopyWalk /\ Store /\ op \in Ops /\ Copies /\ ~Onto(op)
  BY <1>1, <1>3, CopyIs
<1>5. File
  BY <1>2 DEF IInv, TreeInv
<1>6. /\ ~before[cur.src].dir /\ HowRight(how, cur.dst)
      /\ cur.dst \notin DOMAIN before => how = "overwrite"
      /\ \A c \in copied : c.src # cur.src
  BY <1>5 DEF File
<1> QED BY <1>1, <1>2, <1>3, <1>4, <1>5, <1>6

LEMMA SkipKeeps ==
    ASSUME Separate, IInv, Skip
    PROVE  IInv'
<1>1. /\ pc \in InFile /\ pc' = "back" /\ rc' = 2
      /\ vol' = vol /\ op' = op /\ todo' = todo /\ item' = item /\ walk' = walk
      /\ cur' = cur /\ phase' = phase /\ how' = how /\ fd' = fd /\ pos' = pos /\ abort' = abort
      /\ before' = before /\ copied' = copied /\ unnoticed' = unnoticed /\ askall' = askall
      /\ skipped' = skipped \cup {cur.src}
  BY DEF Skip, place, file, InFile
<1>2. Still /\ Grow
  BY <1>1 DEF Still, Grow
<1>3. /\ pc \in InTree /\ InHand /\ phase = "copy" /\ Types /\ Trees /\ Control /\ op \in Ops
      /\ ~before[cur.src].dir
  BY <1>1, FileIs
<1>4. PICK s \in Path : s = cur.src
  BY <1>3, TreeIs
<1>5. s \in DOMAIN before
  BY <1>3, <1>4, HandIs
<1>6. Types'
  <2>1. skipped' \subseteq Path
    BY <1>1, <1>3, <1>4 DEF Types
  <2> QED BY <1>1, <1>3, <2>1 DEF Types, Busy, Count
<1>7. Control'
  BY <1>1, <1>2, <1>3, ControlKept DEF InTree, InFile
<1>8. AllDone(s)'
  <2>1. Done(s)'
    BY <1>1, <1>4 DEF Done
  <2> QED BY <1>1, <1>3, <1>4, <1>5, <2>1, FileDone
<1>9. CopyWalk' /\ Store'
  BY <1>1, <1>2, <1>3, <1>4, <1>8, HandStays
<1>10. File'
  BY <1>1 DEF File, InFile
<1> QED BY <1>1, <1>3, <1>6, <1>7, <1>9, <1>10, TreeStep

-----------------------------------------------------------------------------
(* The data read so far. *)

LEMMA Nothing ==
    ASSUME NEW d \in Seq(Chunk), NEW o \in Seq(Chunk), NEW n \in Nat
    PROVE  o \o SubSeq(d, n + 1, n) = o
<1>1. SubSeq(d, n + 1, n) = <<>>
  OBVIOUS
<1>2. o \o <<>> = o
  OBVIOUS
<1> QED BY <1>1, <1>2

LEMMA Between ==
    ASSUME NEW d \in Seq(Chunk), NEW a \in Nat, NEW p \in Nat, a <= p, p <= Len(d)
    PROVE  /\ SubSeq(d, a + 1, p) \in Seq(Chunk) /\ Len(SubSeq(d, a + 1, p)) = p - a
           /\ \A k \in 1 .. p - a : SubSeq(d, a + 1, p)[k] = d[a + k]
<1>1. \A k \in 1 .. p - a : a + k \in 1 .. Len(d) /\ a + 1 + k - 1 = a + k
  OBVIOUS
<1>2. SubSeq(d, a + 1, p) \in Seq(Chunk) /\ Len(SubSeq(d, a + 1, p)) = p - a
  OBVIOUS
<1>3. \A k \in 1 .. p - a : SubSeq(d, a + 1, p)[k] = d[a + k]
  BY <1>1
<1> QED BY <1>2, <1>3

LEMMA SameData ==
    ASSUME NEW s \in Seq(Chunk), NEW t \in Seq(Chunk), Len(s) = Len(t), \A k \in 1 .. Len(s) : s[k] = t[k]
    PROVE  s = t
OBVIOUS

LEMMA ReadOn ==
    ASSUME NEW d \in Seq(Chunk), NEW o \in Seq(Chunk), NEW a \in Nat, NEW p \in Nat, a <= p, p < Len(d)
    PROVE  /\ Append(o \o SubSeq(d, a + 1, p), d[p + 1]) = o \o SubSeq(d, a + 1, p + 1)
           /\ o \o SubSeq(d, a + 1, p) \in Seq(Chunk) /\ d[p + 1] \in Chunk
<1> DEFINE t == SubSeq(d, a + 1, p)
<1> DEFINE u == SubSeq(d, a + 1, p + 1)
<1>1. t \in Seq(Chunk) /\ Len(t) = p - a /\ \A k \in 1 .. p - a : t[k] = d[a + k]
  BY Between
<1>2. u \in Seq(Chunk) /\ Len(u) = p + 1 - a /\ \A k \in 1 .. p + 1 - a : u[k] = d[a + k]
  <2>1. p + 1 \in Nat /\ a <= p + 1 /\ p + 1 <= Len(d)
    OBVIOUS
  <2> QED BY <2>1, Between
<1>3. d[p + 1] \in Chunk
  OBVIOUS
<1> HIDE DEF t, u
<1>4. u = Append(t, d[p + 1])
  <2>1. Append(t, d[p + 1]) \in Seq(Chunk) /\ Len(Append(t, d[p + 1])) = p - a + 1
    BY <1>1, <1>3
  <2>2. \A k \in 1 .. p - a + 1 : Append(t, d[p + 1])[k] = u[k]
    <3> SUFFICES ASSUME NEW k \in 1 .. p - a + 1  PROVE Append(t, d[p + 1])[k] = u[k]
      OBVIOUS
    <3>1. CASE k \in 1 .. p - a
      BY <1>1, <1>2, <3>1
    <3>2. CASE k = p - a + 1
      BY <1>1, <1>2, <3>2
    <3>3. a \in Nat /\ p \in Nat /\ a <= p /\ k \in 1 .. p - a + 1
      OBVIOUS
    <3>4. k \in 1 .. p - a \/ k = p - a + 1
      BY ONLY <3>3
    <3> QED BY <3>1, <3>2, <3>4
  <2> QED BY <1>1, <1>2, <2>1, <2>2, SameData
<1>5. ASSUME NEW x \in Chunk  PROVE Append(o \o t, x) = o \o Append(t, x)
  <2>1. Append(t, x) \in Seq(Chunk) /\ Len(Append(t, x)) = Len(t) + 1
        /\ \A k \in 1 .. Len(t) : Append(t, x)[k] = t[k]
        /\ Append(t, x)[Len(t) + 1] = x
    BY <1>1
  <2>2. PICK m \in Nat, n \in Nat : m = Len(o) /\ n = Len(t)
    BY <1>1
  <2>3. /\ o \o t \in Seq(Chunk) /\ Len(o \o t) = m + n
        /\ \A k \in 1 .. m : (o \o t)[k] = o[k]
        /\ \A k \in 1 .. n : (o \o t)[m + k] = t[k]
    <3>1. o \in Seq(Chunk) /\ t \in Seq(Chunk)
      BY <1>1
    <3> QED BY ONLY <2>2, <3>1, Joined
  <2>4. /\ o \o Append(t, x) \in Seq(Chunk) /\ Len(o \o Append(t, x)) = m + (n + 1)
        /\ \A k \in 1 .. m : (o \o Append(t, x))[k] = o[k]
        /\ \A k \in 1 .. n + 1 : (o \o Append(t, x))[m + k] = Append(t, x)[k]
    BY <2>1, <2>2, Joined
  <2>5. /\ Append(o \o t, x) \in Seq(Chunk) /\ Len(Append(o \o t, x)) = m + n + 1
        /\ \A k \in 1 .. m + n : Append(o \o t, x)[k] = (o \o t)[k]
        /\ Append(o \o t, x)[m + n + 1] = x
    BY <1>5, <2>3
  <2>6. \A k \in 1 .. m + n + 1 : Append(o \o t, x)[k] = (o \o Append(t, x))[k]
    <3> SUFFICES ASSUME NEW k \in 1 .. m + n + 1  PROVE Append(o \o t, x)[k] = (o \o Append(t, x))[k]
      OBVIOUS
    <3>1. CASE k \in 1 .. m
      BY <2>3, <2>4, <2>5, <3>1
    <3>2. CASE k = m + n + 1
      <4>1. n + 1 \in 1 .. n + 1 /\ m + (n + 1) = m + n + 1
        OBVIOUS
      <4> QED BY <2>1, <2>2, <2>4, <2>5, <3>2, <4>1
    <3>3. CASE k > m /\ k <= m + n
      <4>1. PICK j \in 1 .. n : k = m + j
        <5>1. k - m \in 1 .. n /\ k = m + (k - m)
          BY <3>3
        <5> QED BY <5>1
      <4> QED BY <2>1, <2>2, <2>3, <2>4, <2>5, <3>3, <4>1
    <3>4. m \in Nat /\ n \in Nat /\ k \in 1 .. m + n + 1
      OBVIOUS
    <3>5. k \in 1 .. m \/ k = m + n + 1 \/ (k > m /\ k <= m + n)
      BY ONLY <3>4
    <3> QED BY <3>1, <3>2, <3>3, <3>5
  <2>7. Len(o \o Append(t, x)) = m + n + 1
    BY <2>4
  <2> QED BY <2>4, <2>5, <2>6, <2>7, SameData
<1>6. o \o t \in Seq(Chunk)
  BY <1>1
<1> QED BY <1>3, <1>4, <1>5, <1>6 DEF t, u

\* The open target, and what waits in it.
LEMMA OpenIs ==
    ASSUME IInv, pc \in {"loop", "close"}
    PROVE  /\ cur.dst \in DOMAIN vol /\ ~vol[cur.dst].dir
           /\ cur.dst \in DOMAIN before => ~before[cur.dst].dir
           /\ how # "skip"
           /\ IF Full THEN vol[cur.dst].data = <<>> ELSE Same(cur.dst)
           /\ pos \in StartedAt .. Len(before[cur.src].data)
           /\ fd.data = Old \o SubSeq(before[cur.src].data, StartedAt + 1, pos)
BY FileIs DEF File, InFile

LEMMA OldIs ==
    ASSUME Types, how \in {"append", "resume"} => cur.dst \in DOMAIN before
    PROVE  Old \in Seq(Chunk) /\ StartedAt \in Nat
<1>1. CASE how \in {"append", "resume"}
  BY <1>1, DataIs DEF Old, StartedAt
<1>2. CASE how \notin {"append", "resume"}
  BY <1>2 DEF Old, StartedAt
<1> QED BY <1>1, <1>2

\* What a target that gave way may have become.
LEMMA MayReplace ==
    ASSUME IInv, pc \in InFile, how # "skip", op' = op, before' = before, NEW d, d = cur.dst, d \in DOMAIN before,
           ~before[d].dir, unnoticed \subseteq unnoticed',
           how \in {"append", "resume"} => d \in DOMAIN vol' /\ IsPrefix(before[d].data, vol'[d].data)
    PROVE  Replaceable(d)' \/ d \in unnoticed'
<1>1. Copies /\ HowRight(how, cur.dst)
  BY FileIs
<1> SUFFICES ASSUME d \notin unnoticed'  PROVE Replaceable(d)'
  OBVIOUS
<1>2. op.mode # "skip" /\ (op.mode \in {"append", "resume"} => how = op.mode)
  BY <1>1 DEF HowRight
<1> QED BY <1>1, <1>2 DEF Replaceable, Copies

LEMMA OpenKeeps ==
    ASSUME Separate, IInv, Open
    PROVE  IInv'
<1>1. /\ pc = "open" /\ pc \in InFile /\ ~Spared
      /\ op' = op /\ todo' = todo /\ item' = item /\ walk' = walk
      /\ cur' = cur /\ phase' = phase /\ how' = how /\ abort' = abort /\ skipped' = skipped
      /\ before' = before /\ copied' = copied /\ unnoticed' = unnoticed /\ askall' = askall
  BY DEF Open, place, ghost, InFile
<1>2. Still /\ Grow
  BY <1>1 DEF Still, Grow
<1>3. /\ pc \in InTree /\ InHand /\ phase = "copy" /\ Types /\ Trees /\ Control /\ op \in Ops
      /\ ~before[cur.src].dir /\ HowRight(how, cur.dst) /\ CopyWalk /\ Copies
      /\ cur.dst \notin DOMAIN before => how = "overwrite"
      /\ \A c \in copied : c.src # cur.src
  BY <1>1, FileIs
<1>4. PICK s \in Path : s = cur.src
  BY <1>3, TreeIs
<1>5. PICK d \in Path : d = cur.dst
  BY <1>3, TreeIs
<1>6. /\ d = Goes(op, s) /\ d # <<>> /\ s \in DOMAIN before /\ s \in DOMAIN vol /\ vol[s] = before[s]
      /\ Unmade(s)
  BY <1>1, <1>3, <1>4, <1>5, HandIs DEF CopyWalk
<1>7. Same(d)
  BY <1>4, <1>6, UnderSelf DEF Unmade
<1>8. how \in {"append", "resume"} => d \in DOMAIN before
  BY <1>3, <1>5
<1>9. Old \in Seq(Chunk) /\ StartedAt \in Nat
  BY <1>3, <1>5, <1>8, OldIs
<1>10. PICK n \in Nat : n = Len(before[s].data)
  BY <1>3, <1>6, DataIs
<1>11. ASSUME NEW m, m = StartedAt, Creatable(vol, d), pos' = StartAt, pc' = "loop"
       PROVE  /\ pos' = m /\ m \in Nat /\ m <= n
              /\ how \in {"append", "resume"} => d \in DOMAIN vol /\ vol[d] = before[d] /\ ~vol[d].dir
  <2>1. how \in {"append", "resume"} => d \in DOMAIN vol /\ vol[d] = before[d]
    BY <1>7, <1>8 DEF Same
  <2>2. how \in {"append", "resume"} => ~vol[d].dir
    BY <1>11, <2>1 DEF Creatable, IsDir
  <2>3. how = "resume" => pos' = m /\ m <= n
    <3> SUFFICES ASSUME how = "resume"  PROVE pos' = m /\ m <= n
      OBVIOUS
    <3>1. m = Len(vol[d].data) /\ pos' = m
      BY <1>5, <1>11, <2>1 DEF StartedAt, StartAt
    <3>2. ~(m >= n)
      BY <1>1, <1>4, <1>5, <1>6, <1>10, <3>1 DEF Spared
    <3> QED BY <1>9, <1>11, <3>1, <3>2
  <2>4. how # "resume" => pos' = 0 /\ m = 0
    BY <1>11 DEF StartedAt, StartAt
  <2> QED BY <1>9, <1>11, <2>1, <2>2, <2>3, <2>4
<1>12. ASSUME fd' \in [open : BOOLEAN, data : Seq(Chunk)], pos' \in Nat, pc' = "loop", rc' = rc, IsVolume(vol')
       PROVE  Types'
  BY <1>1, <1>3, <1>12 DEF Types, Busy, Count
<1>13. pc' = "loop" => Control'
  BY <1>1, <1>2, <1>3, ControlKept DEF InTree, InFile
<1>14. ASSUME NEW m, m = StartedAt, m \in Nat, m <= n, pos' = m, fd'.data = Old, pc' = "loop",
              d \in DOMAIN vol', ~vol'[d].dir, IF Full THEN vol'[d].data = <<>> ELSE Same(d)',
              d \in DOMAIN before => ~before[d].dir
       PROVE  File'
  <2>1. Old' = Old /\ StartedAt' = m
    BY <1>1, <1>14 DEF Old, StartedAt
  <2>2. Old = Old \o SubSeq(before[s].data, m + 1, m)
    <3>1. before[s].data \in Seq(Chunk)
      BY <1>3, <1>6, DataIs
    <3> QED BY <1>9, <1>14, <3>1, Nothing
  <2>3. fd'.data = Old' \o SubSeq(before'[cur'.src].data, StartedAt' + 1, pos')
    BY <1>1, <1>4, <1>14, <2>1, <2>2
  <2>4. pos' \in StartedAt' .. Len(before'[cur'.src].data)
    BY <1>1, <1>4, <1>10, <1>14, <2>1
  <2>5. IF Full' THEN vol'[cur'.dst].data = <<>> ELSE Same(cur.dst)'
    BY <1>1, <1>5, <1>14 DEF Full, Same
  <2>6. how # "skip"
    BY <1>1 DEF Spared
  <2>7. HowRight(how, cur.dst)'
    BY <1>1, <1>3 DEF HowRight
  <2> QED BY <1>1, <1>3, <1>5, <1>14, <2>3, <2>4, <2>5, <2>6, <2>7 DEF File, InFile
<1>15. CASE /\ Creatable(vol, d) /\ how \in {"append", "resume"}
            /\ fd' = [open |-> TRUE, data |-> vol[d].data] /\ vol' = vol
            /\ pos' = StartAt /\ pc' = "loop" /\ rc' = rc
  <2>1. Old = vol[d].data
    BY <1>5, <1>7, <1>8, <1>15 DEF Old, Same
  <2>2. fd' = [open |-> TRUE, data |-> Old]
    BY <1>15, <2>1
  <2>3. PICK m : m = StartedAt
    OBVIOUS
  <2>4. pos' = m /\ m \in Nat /\ m <= n /\ d \in DOMAIN vol /\ vol[d] = before[d] /\ ~vol[d].dir
    BY <1>11, <1>15, <2>2, <2>3
  <2>5. Types'
    BY <1>3, <1>9, <1>12, <1>15, <2>2, <2>4 DEF Types
  <2>6. CopyWalk' /\ Store'
    BY <1>1, <1>2, <1>3, <1>4, <1>15, HandStays DEF InFile
  <2>7. Same(d)'
    BY <1>1, <1>7, <1>15 DEF Same
  <2>8. ~Full
    BY <1>15 DEF Full
  <2>9. File'
    BY <1>14, <1>15, <2>2, <2>3, <2>4, <2>7, <2>8
  <2>10. Control'
    BY <1>13, <1>15
  <2> QED BY <1>1, <1>3, <2>5, <2>6, <2>9, <2>10, TreeStep
<1>16. CASE /\ Creatable(vol, d) /\ how \notin {"append", "resume"}
            /\ fd' = [open |-> TRUE, data |-> <<>>] /\ vol' = With(vol, d, Written(<<>>))
            /\ pos' = StartAt /\ pc' = "loop" /\ rc' = rc
  <2>1. Old = <<>> /\ fd' = [open |-> TRUE, data |-> Old]
    BY <1>16 DEF Old
  <2>2. PICK m : m = StartedAt
    OBVIOUS
  <2>3. pos' = m /\ m \in Nat /\ m <= n
    BY <1>11, <1>16, <2>1, <2>2
  <2>4. Written(<<>>) \in Node /\ Written(<<>>).data = <<>> /\ ~Written(<<>>).dir
    <3>1. <<>> \in Seq(Chunk)
      OBVIOUS
    <3>2. Written(<<>>) \in Node
      BY <3>1, NodesTyped
    <3> QED BY <3>2 DEF Written
  <2>5. IsVolume(vol') /\ But(d) /\ d \in DOMAIN vol' /\ vol'[d] = Written(<<>>)
    <3>1. IsVolume(vol')
      BY <1>3, <1>5, <1>6, <1>16, <2>4, WithVolume DEF Creatable, Types
    <3> QED BY <1>16, <3>1 DEF But, With
  <2>6. Types'
    BY <1>9, <1>12, <1>16, <2>1, <2>3, <2>5
  <2>7. d \in DOMAIN before => ~before[d].dir /\ (Replaceable(d)' \/ d \in unnoticed')
    <3> SUFFICES ASSUME d \in DOMAIN before
                 PROVE  ~before[d].dir /\ (Replaceable(d)' \/ d \in unnoticed')
      OBVIOUS
    <3>1. ~before[d].dir
      BY <1>7, <1>16 DEF Same, Creatable, IsDir
    <3>2. how # "skip"
      BY <1>1 DEF Spared
    <3> QED BY <1>1, <1>3, <1>5, <1>16, <3>1, <3>2, MayReplace
  <2>8. /\ Store' /\ Intact(item.src)'
        /\ \A k \in DOMAIN walk, q \in Path :
               q # <<>> /\ Front(q) = walk[k].src /\ q \notin walk[k].seen => Unmade(q)'
    <3>1. Goes(op, s) \in DOMAIN before =>
             ~before[Goes(op, s)].dir /\ (Replaceable(Goes(op, s))' \/ Goes(op, s) \in unnoticed')
      <4>1. Goes(op, s)' = d
        BY <1>1, <1>6 DEF Goes
      <4> QED BY <1>6, <2>7, <4>1 DEF Replaceable
    <3> QED BY <1>1, <1>2, <1>3, <1>4, <1>6, <2>5, <3>1, HandStep
  <2>9. CopyWalk'
    BY <1>1, <1>2, <1>3, <1>4, <1>16, <2>8, HandWalk DEF InFile
  <2>10. Full
    BY <1>16 DEF Full
  <2>11. File'
    BY <1>14, <1>16, <2>1, <2>2, <2>3, <2>4, <2>5, <2>7, <2>10
  <2>12. Control'
    BY <1>13, <1>16
  <2> QED BY <1>1, <1>3, <2>6, <2>8, <2>9, <2>11, <2>12, TreeStep
<1>17. CASE rc' = 0 /\ pc' = "back" /\ fd' = fd /\ vol' = vol /\ pos' = pos
  <2>1. Types'
    BY <1>1, <1>3, <1>17 DEF Types, Busy, Count
  <2> QED BY <1>1, <1>2, <1>3, <1>17, <2>1, BackFailed
<1> QED BY <1>5, <1>15, <1>16, <1>17 DEF Open, Openable

LEMMA PrefixOf ==
    ASSUME NEW o \in Seq(Chunk), NEW t \in Seq(Chunk)
    PROVE  IsPrefix(o, o \o t)
<1> DEFINE u == o \o t
<1>1. PICK m \in Nat, n \in Nat : m = Len(o) /\ n = Len(t)
  OBVIOUS
<1>2. u \in Seq(Chunk) /\ Len(u) = m + n /\ \A k \in 1 .. m : u[k] = o[k]
  BY <1>1, Joined
<1> HIDE DEF u
<1>3. \A k \in 1 .. Len(o) : o[k] = u[k]
  BY <1>1, <1>2
<1>4. IsPrefix(o, u)
  BY <1>1, <1>2, <1>3 DEF IsPrefix
<1> QED BY <1>4 DEF u

LEMMA AllOf == ASSUME NEW d \in Seq(Chunk)  PROVE SubSeq(d, 1, Len(d)) = d /\ <<>> \o d = d
OBVIOUS

\* At the end of the source the target holds what the mode promises.
LEMMA WholeIs ==
    ASSUME IInv, pc \in {"loop", "close"}, pos = Len(before[cur.src].data)
    PROVE  fd.data = Result(IF cur.dst \in DOMAIN before THEN how ELSE "overwrite",
                            DataBefore(cur.dst), DataBefore(cur.src))
<1>1. /\ Types /\ InHand /\ phase = "copy"
      /\ cur.dst \notin DOMAIN before => how = "overwrite"
      /\ fd.data = Old \o SubSeq(before[cur.src].data, StartedAt + 1, pos)
  BY FileIs, OpenIs DEF InFile
<1>2. cur.src \in DOMAIN before
  BY <1>1, HandIs
<1>3. PICK x \in Seq(Chunk) : x = before[cur.src].data
  BY <1>1, <1>2, DataIs
<1>4. DataBefore(cur.src) = x /\ pos = Len(x)
  BY <1>2, <1>3 DEF DataBefore
<1>5. CASE how = "append"
  <2>1. cur.dst \in DOMAIN before
    BY <1>1, <1>5
  <2>2. fd.data = before[cur.dst].data \o SubSeq(x, 1, Len(x))
    <3>1. Old = before[cur.dst].data /\ StartedAt = 0
      BY <1>5 DEF Old, StartedAt
    <3>2. StartedAt + 1 = 1
      BY <3>1
    <3> QED BY <1>1, <1>3, <1>4, <3>1, <3>2
  <2> QED BY <1>4, <1>5, <2>1, <2>2, AllOf DEF Result, DataBefore
<1>6. CASE how = "resume"
  <2>1. cur.dst \in DOMAIN before
    BY <1>1, <1>6
  <2>2. fd.data = before[cur.dst].data \o SubSeq(x, Len(before[cur.dst].data) + 1, Len(x))
    BY <1>1, <1>3, <1>4, <1>6 DEF Old, StartedAt
  <2> QED BY <1>4, <1>6, <2>1, <2>2 DEF Result, DataBefore
<1>7. CASE how \notin {"append", "resume"}
  <2>1. fd.data = <<>> \o SubSeq(x, 1, Len(x))
    <3>1. Old = <<>> /\ StartedAt = 0
      BY <1>7 DEF Old, StartedAt
    <3>2. StartedAt + 1 = 1
      BY <3>1
    <3> QED BY <1>1, <1>3, <1>4, <3>1, <3>2
  <2>2. fd.data = x
    BY <2>1, AllOf
  <2> QED BY <1>4, <1>7, <2>2 DEF Result
<1> QED BY <1>5, <1>6, <1>7

LEMMA LoopKeeps ==
    ASSUME Separate, IInv, Loop
    PROVE  IInv'
<1>1. /\ pc \in {"loop"} /\ pc \in InFile /\ vol' = vol
      /\ op' = op /\ todo' = todo /\ item' = item /\ walk' = walk
      /\ cur' = cur /\ phase' = phase /\ how' = how /\ abort' = abort /\ skipped' = skipped
      /\ before' = before /\ copied' = copied /\ unnoticed' = unnoticed /\ askall' = askall
  BY DEF Loop, place, ghost, InFile
<1>2. Still /\ Grow
  BY <1>1 DEF Still, Grow
<1>3. /\ pc \in InTree /\ InHand /\ phase = "copy" /\ Types /\ Trees /\ Control /\ op \in Ops
      /\ ~before[cur.src].dir /\ HowRight(how, cur.dst)
      /\ cur.dst \notin DOMAIN before => how = "overwrite"
      /\ \A c \in copied : c.src # cur.src
  BY <1>1, FileIs
<1>4. /\ cur.dst \in DOMAIN vol /\ ~vol[cur.dst].dir
      /\ cur.dst \in DOMAIN before => ~before[cur.dst].dir
      /\ how # "skip"
      /\ IF Full THEN vol[cur.dst].data = <<>> ELSE Same(cur.dst)
      /\ pos \in StartedAt .. Len(before[cur.src].data)
      /\ fd.data = Old \o SubSeq(before[cur.src].data, StartedAt + 1, pos)
  BY <1>1, OpenIs
<1>5. PICK s \in Path : s = cur.src
  BY <1>3, TreeIs
<1>6. s \in DOMAIN before /\ vol[s] = before[s]
  BY <1>3, <1>5, HandIs
<1>7. PICK x \in Seq(Chunk), n \in Nat : x = before[s].data /\ n = Len(x)
  BY <1>3, <1>6, DataIs
<1>8. PICK o \in Seq(Chunk), m \in Nat : o = Old /\ m = StartedAt
  BY <1>3, OldIs
<1>9. /\ pc' \in {"loop", "close"} /\ rc' \in {-1, 0, 1, 2}
      /\ pos' \in m .. n /\ fd' \in [open : BOOLEAN, data : Seq(Chunk)]
      /\ fd'.data = o \o SubSeq(x, m + 1, pos')
      /\ pc' = "close" => rc' <= 1 /\ (rc' = 1 => pos' = n)
  <2>1. fd \in [open : BOOLEAN, data : Seq(Chunk)] /\ rc \in {-1, 0, 1, 2}
    BY <1>3 DEF Types
  <2>2. pos \in m .. n /\ fd.data = o \o SubSeq(x, m + 1, pos) /\ pos \in Nat
    BY <1>4, <1>5, <1>7, <1>8
  <2>3. CASE pc' = "close" /\ fd' = fd /\ pos' = pos /\ (rc' = -1 \/ rc' = 0)
    <3>1. rc' \in {-1, 0, 1, 2} /\ rc' <= 1 /\ rc' # 1
      BY ONLY <2>3
    <3>2. fd' \in [open : BOOLEAN, data : Seq(Chunk)] /\ fd'.data = fd.data /\ pos' = pos
      BY <2>1, <2>3
    <3>3. fd'.data = o \o SubSeq(x, m + 1, pos')
      BY <3>2, <2>2
    <3> QED BY <3>1, <3>2, <3>3, <2>2, <2>3
  <2>4. CASE pos = Len(vol[cur.src].data) /\ pc' = "close" /\ fd' = fd /\ pos' = pos /\ rc' = 1
    <3>1. pos = n
      BY <1>5, <1>6, <1>7, <2>4
    <3>2. rc' \in {-1, 0, 1, 2} /\ rc' <= 1
      BY <2>4
    <3>3. pos' \in m .. n /\ fd'.data = o \o SubSeq(x, m + 1, pos')
      BY ONLY <2>2, <2>4
    <3>4. fd' \in [open : BOOLEAN, data : Seq(Chunk)] /\ pos' = n
      BY ONLY <2>1, <2>4, <3>1
    <3> QED BY ONLY <2>4, <3>2, <3>3, <3>4
  <2>5. CASE /\ pos < Len(vol[cur.src].data) /\ pos' = pos + 1 /\ pc' = "loop" /\ rc' = rc
             /\ fd' = [fd EXCEPT !.data = Append(@, vol[cur.src].data[pos + 1])]
    <3>1. pos < n /\ fd' = [fd EXCEPT !.data = Append(@, x[pos + 1])]
      BY <1>5, <1>6, <1>7, <2>5
    <3>2. fd'.data = Append(fd.data, x[pos + 1])
      BY <2>1, <3>1
    <3>3. /\ Append(o \o SubSeq(x, m + 1, pos), x[pos + 1]) = o \o SubSeq(x, m + 1, pos + 1)
          /\ o \o SubSeq(x, m + 1, pos) \in Seq(Chunk) /\ x[pos + 1] \in Chunk
      <4>1. m <= pos /\ pos < Len(x)
        BY <1>7, <2>2, <3>1
      <4> QED BY ONLY <2>2, <4>1, o \in Seq(Chunk), x \in Seq(Chunk), m \in Nat, ReadOn
    <3>4. fd'.data = o \o SubSeq(x, m + 1, pos') /\ fd'.data \in Seq(Chunk)
      <4>1. fd'.data = o \o SubSeq(x, m + 1, pos + 1)
        BY ONLY <2>2, <3>2, <3>3
      <4>2. Append(o \o SubSeq(x, m + 1, pos), x[pos + 1]) \in Seq(Chunk)
        BY <3>3
      <4> QED BY ONLY <2>2, <2>5, <3>2, <4>1, <4>2
    <3>5. fd' \in [open : BOOLEAN, data : Seq(Chunk)]
      BY <2>1, <3>1, <3>2, <3>4
    <3>6. pos' \in m .. n
      BY <2>2, <2>5, <3>1
    <3> QED BY <2>1, <2>5, <3>4, <3>5, <3>6
  <2> QED BY <2>3, <2>4, <2>5 DEF Loop
<1>10. Types'
  <2>1. pos' \in Nat /\ pc' \in Busy
    BY <1>9 DEF Busy
  <2> QED BY <1>1, <1>3, <1>9, <2>1 DEF Types, Count
<1>11. Control'
  BY <1>1, <1>2, <1>3, <1>9, ControlKept DEF InTree, InFile
<1>12. CopyWalk' /\ Store'
  BY <1>1, <1>2, <1>3, <1>5, <1>9, HandStays DEF InFile
<1>13. File'
  <2>1. Old' = o /\ StartedAt' = m /\ (Full' <=> Full)
    BY <1>1, <1>8 DEF Old, StartedAt, Full
  <2>2. fd'.data = Old' \o SubSeq(before'[cur'.src].data, StartedAt' + 1, pos')
    BY <1>1, <1>5, <1>7, <1>9, <2>1
  <2>3. pos' \in StartedAt' .. Len(before'[cur'.src].data)
    BY <1>1, <1>5, <1>7, <1>9, <2>1
  <2>4. IF Full' THEN vol'[cur'.dst].data = <<>> ELSE Same(cur.dst)'
    BY <1>1, <1>4, <2>1 DEF Same
  <2>5. HowRight(how, cur.dst)'
    BY <1>1, <1>3 DEF HowRight
  <2>6. pc' = "close" => rc' <= 1 /\ (rc' = 1 => pos' = Len(before'[cur'.src].data))
    BY <1>1, <1>5, <1>7, <1>9
  <2> QED BY <1>1, <1>3, <1>4, <1>9, <2>2, <2>3, <2>4, <2>5, <2>6 DEF File, InFile
<1> QED BY <1>1, <1>3, <1>10, <1>11, <1>12, <1>13, TreeStep

\* A report made now.
LEMMA ReportRight ==
    ASSUME IInv, pc \in InFile, how # "skip", Still, Grow, NEW c, c = Report,
           c.src \in unnoticed' \/ Delivered(c)'
    PROVE  Right(c)'
<1>1. c.src = cur.src /\ c.dst = cur.dst /\ c.how = how
  BY DEF Report
<1>2. /\ Copies /\ ~Onto(op) /\ ~before[cur.src].dir /\ HowRight(how, cur.dst) /\ InHand /\ phase = "copy"
  BY FileIs
<1>3. Chosen(op, cur.src) /\ cur.src \in DOMAIN before /\ cur.dst = Goes(op, cur.src)
  BY <1>2, HandIs
<1>4. HowRight(c.how, c.dst)' /\ Copies' /\ ~Onto(op)' /\ Chosen(op, c.src)' /\ c.dst = Goes(op, c.src)'
  BY <1>1, <1>2, <1>3 DEF Still, Grow, HowRight, Copies, Onto, Chosen, Goes
<1> QED BY <1>1, <1>2, <1>3, <1>4 DEF Right, Still

LEMMA CloseKeeps ==
    ASSUME Separate, IInv, Close
    PROVE  IInv'
<1>1. /\ pc \in {"close"} /\ pc \in InFile /\ fd' = NoFile
      /\ op' = op /\ todo' = todo /\ item' = item /\ walk' = walk
      /\ cur' = cur /\ phase' = phase /\ how' = how /\ pos' = pos /\ rc' = rc /\ abort' = abort
      /\ skipped' = skipped /\ before' = before /\ askall' = askall
  BY DEF Close, place, InFile
<1>2. \/ vol' = With(vol, cur.dst, Written(fd.data)) /\ unnoticed' = unnoticed
      \/ vol' = vol /\ unnoticed' = (IF Checked THEN unnoticed ELSE unnoticed \cup {cur.src})
  BY DEF Close
<1>3. IF Checked THEN pc' = "verify" /\ copied' = copied
      ELSE pc' = "back" /\ copied' = (IF rc = 1 THEN copied \cup {Report} ELSE copied)
  BY DEF Close
<1>4. Still /\ Grow
  BY <1>1, <1>2, <1>3 DEF Still, Grow
<1>5. /\ pc \in InTree /\ InHand /\ phase = "copy" /\ Types /\ Trees /\ Control /\ op \in Ops /\ File
      /\ ~before[cur.src].dir /\ HowRight(how, cur.dst)
      /\ cur.dst \notin DOMAIN before => how = "overwrite"
      /\ \A c \in copied : c.src # cur.src
  BY <1>1, FileIs
<1>6. /\ cur.dst \in DOMAIN vol /\ ~vol[cur.dst].dir
      /\ cur.dst \in DOMAIN before => ~before[cur.dst].dir
      /\ how # "skip"
      /\ IF Full THEN vol[cur.dst].data = <<>> ELSE Same(cur.dst)
      /\ pos \in StartedAt .. Len(before[cur.src].data)
      /\ fd.data = Old \o SubSeq(before[cur.src].data, StartedAt + 1, pos)
  BY <1>1, OpenIs
<1>7. PICK s \in Path, d \in Path : s = cur.src /\ d = cur.dst
  BY <1>5, TreeIs
<1>8. s \in DOMAIN before /\ vol[s] = before[s] /\ d = Goes(op, s) /\ d # <<>>
  BY <1>5, <1>7, HandIs
<1>9. rc <= 1 /\ rc \in {-1, 0, 1, 2} /\ (rc = 1 => pos = Len(before[cur.src].data))
  BY <1>1, <1>5 DEF File, Types
<1>10. fd.data \in Seq(Chunk)
  BY <1>5 DEF Types
<1>11. Written(fd.data) \in Node /\ Written(fd.data).data = fd.data /\ ~Written(fd.data).dir
  <2>1. Written(fd.data) \in Node
    BY <1>10, NodesTyped
  <2> QED BY <2>1 DEF Written
<1>12. IsVolume(vol') /\ But(d) /\ d \in DOMAIN vol' /\ ~vol'[d].dir
  <2>1. IsVolume(vol)
    BY <1>5 DEF Types
  <2>2. CASE vol' = vol
    BY <1>6, <1>7, <2>1, <2>2 DEF But
  <2>3. CASE vol' = With(vol, d, Written(fd.data))
    <3>1. Front(d) \in Path /\ Under(Front(d), d) /\ Front(d) # d
      BY <1>8, Child
    <3>2. IsDir(vol, Front(d))
      BY <1>6, <1>7, <2>1, <3>1, Above DEF IsDir
    <3>3. IsVolume(vol')
      BY <1>6, <1>7, <1>8, <1>11, <2>1, <2>3, <3>2, WithVolume DEF IsDir
    <3> QED BY <1>11, <2>3, <3>3 DEF But, With
  <2> QED BY <1>2, <1>7, <2>2, <2>3
<1>13. Report \in ReportType
  BY <1>5 DEF Report, ReportType, Types
<1>14. Types'
  <2>1. copied' \subseteq ReportType
    BY <1>3, <1>5, <1>13 DEF Types
  <2>2. unnoticed' \subseteq Path
    BY <1>2, <1>5, <1>7 DEF Types
  <2>3. NoFile \in [open : BOOLEAN, data : Seq(Chunk)]
    <3>1. <<>> \in Seq(Chunk)
      OBVIOUS
    <3> QED BY <3>1 DEF NoFile
  <2>4. pc' \in Busy
    BY <1>3 DEF Busy
  <2> QED BY <1>1, <1>5, <1>12, <2>1, <2>2, <2>3, <2>4 DEF Types, Count
<1>15. Control'
  BY <1>1, <1>3, <1>4, <1>5, ControlKept DEF InTree, InFile
<1>16. ASSUME NEW c, c = Report, rc = 1, ~Checked  PROVE c.src = s /\ Right(c)'
  <2>1. c.src = s /\ c.dst = d /\ c.how = how
    BY <1>7, <1>16 DEF Report
  <2>2. CASE vol' = With(vol, cur.dst, Written(fd.data))
    <3>1. vol'[d].data = fd.data
      BY <1>7, <1>11, <2>2 DEF With
    <3>2. fd.data = Result(IF d \in DOMAIN before THEN how ELSE "overwrite", DataBefore(d), DataBefore(s))
      BY <1>1, <1>7, <1>9, <1>16, WholeIs
    <3>3. Delivered(c)'
      BY <1>1, <1>12, <2>1, <3>1, <3>2 DEF Delivered, Holds, DataBefore
    <3> QED BY <1>1, <1>4, <1>6, <1>16, <2>1, <3>3, ReportRight
  <2>3. CASE unnoticed' = (IF Checked THEN unnoticed ELSE unnoticed \cup {cur.src})
    <3>1. c.src \in unnoticed'
      BY <1>7, <1>16, <2>1, <2>3
    <3> QED BY <1>1, <1>4, <1>6, <1>16, <2>1, <3>1, ReportRight
  <2> QED BY <1>2, <2>2, <2>3
<1>17. \A c \in copied' : c \in copied \/ (c.src = s /\ Right(c)')
  BY <1>3, <1>16
<1>18. d \in DOMAIN before => Same(d)' \/ (~before[d].dir /\ (Replaceable(d)' \/ d \in unnoticed'))
  <2> SUFFICES ASSUME d \in DOMAIN before
               PROVE  Same(d)' \/ (~before[d].dir /\ (Replaceable(d)' \/ d \in unnoticed'))
    OBVIOUS
  <2>1. ~before[d].dir
    BY <1>6, <1>7
  <2>2. CASE how \notin {"append", "resume"}
    BY <1>1, <1>4, <1>6, <1>7, <2>1, <2>2, MayReplace DEF Grow
  <2>3. CASE vol' = vol /\ how \in {"append", "resume"}
    BY <1>1, <1>6, <1>7, <2>3 DEF Full, Same
  <2>4. CASE vol' = With(vol, d, Written(fd.data)) /\ how \in {"append", "resume"}
    <3>1. vol'[d].data = fd.data
      BY <1>11, <2>4 DEF With
    <3>2. PICK o \in Seq(Chunk), x \in Seq(Chunk), m \in Nat, n \in Nat :
             o = Old /\ x = before[s].data /\ m = StartedAt /\ n = Len(x)
      BY <1>5, <1>7, <1>8, OldIs, DataIs
    <3>3. SubSeq(x, m + 1, pos) \in Seq(Chunk)
      <4>1. pos \in m .. n
        BY <1>6, <1>7, <3>2
      <4> QED BY <3>2, <4>1, Between
    <3>4. IsPrefix(before[d].data, vol'[d].data)
      <4>1. o = before[d].data
        BY <1>7, <2>4, <3>2 DEF Old
      <4>2. vol'[d].data = o \o SubSeq(x, m + 1, pos)
        BY <1>6, <1>7, <3>1, <3>2
      <4> QED BY <3>3, <4>1, <4>2, PrefixOf
    <3> QED BY <1>1, <1>4, <1>6, <1>7, <1>12, <2>1, <3>4, MayReplace DEF Grow
  <2> QED BY <1>2, <1>7, <2>2, <2>3, <2>4
<1>19. /\ Store' /\ Intact(item.src)'
       /\ \A k \in DOMAIN walk, q \in Path :
              q # <<>> /\ Front(q) = walk[k].src /\ q \notin walk[k].seen => Unmade(q)'
  <2>1. Goes(op, s) \in DOMAIN before =>
            \/ Same(Goes(op, s))'
            \/ ~before[Goes(op, s)].dir /\ (Replaceable(Goes(op, s))' \/ Goes(op, s) \in unnoticed')
    <3>1. Goes(op, s)' = d
      BY <1>1, <1>8 DEF Goes
    <3> QED BY <1>8, <1>18, <3>1 DEF Replaceable, Same
  <2> QED BY <1>1, <1>4, <1>5, <1>7, <1>8, <1>12, <1>17, <2>1, HandStep
<1>20. pc' = "back" => rc' <= 0 \/ AllDone(s)'
  <2> SUFFICES ASSUME pc' = "back", ~(rc' <= 0)  PROVE AllDone(s)'
    OBVIOUS
  <2>1. rc = 1 /\ ~Checked
    BY <1>1, <1>3, <1>9
  <2>2. Report \in copied' /\ Report.src = s
    BY <1>3, <1>7, <2>1 DEF Report
  <2>3. Done(s)'
    <3>1. PICK c : c = Report
      OBVIOUS
    <3>2. c \in copied' /\ c.src = s
      BY <2>2, <3>1
    <3> QED BY <3>2 DEF Done
  <2> QED BY <1>1, <1>5, <1>7, <1>8, <2>3, FileDone
<1>21. CopyWalk'
  <2>1. pc' \in InFile \/ pc' = "back"
    BY <1>3 DEF InFile
  <2>2. pc' # "open"
    BY <1>3
  <2> QED BY <1>1, <1>4, <1>5, <1>7, <1>19, <1>20, <2>1, <2>2, HandWalk
<1>22. File'
  <2>1. CASE pc' = "back"
    BY <2>1 DEF File, InFile
  <2>2. CASE pc' = "verify" /\ copied' = copied /\ Checked
    <3>1. Full'
      BY <1>1, <2>2 DEF Checked, Full
    <3>2. HowRight(how, cur.dst)'
      BY <1>1, <1>4, <1>5 DEF HowRight, Grow
    <3> QED BY <1>1, <1>5, <1>6, <1>7, <1>12, <2>2, <3>1, <3>2 DEF File, InFile
  <2> QED BY <1>3, <2>1, <2>2
<1> QED BY <1>1, <1>5, <1>14, <1>15, <1>19, <1>21, <1>22, TreeStep

LEMMA VerifyKeeps ==
    ASSUME Separate, IInv, Verify
    PROVE  IInv'
<1>1. /\ pc = "verify" /\ pc \in InFile /\ pc' = "back" /\ vol' = vol
      /\ op' = op /\ todo' = todo /\ item' = item /\ walk' = walk
      /\ cur' = cur /\ phase' = phase /\ how' = how /\ fd' = fd /\ pos' = pos /\ abort' = abort
      /\ skipped' = skipped /\ before' = before /\ unnoticed' = unnoticed /\ askall' = askall
  BY DEF Verify, place, file, InFile
<1>2. \/ copied' = copied /\ rc' \in {-1, 0}
      \/ copied' = copied \cup {Report} /\ rc' = 1 /\ vol[cur.dst].data = vol[cur.src].data
  BY DEF Verify
<1>3. Still /\ Grow
  BY <1>1, <1>2 DEF Still, Grow
<1>4. /\ pc \in InTree /\ InHand /\ phase = "copy" /\ Types /\ Trees /\ Control /\ op \in Ops /\ File
      /\ ~before[cur.src].dir
      /\ cur.dst \notin DOMAIN before => how = "overwrite"
      /\ \A c \in copied : c.src # cur.src
  BY <1>1, FileIs
<1>5. /\ cur.dst \in DOMAIN vol /\ ~vol[cur.dst].dir
      /\ cur.dst \in DOMAIN before => ~before[cur.dst].dir
      /\ how # "skip" /\ Full
  BY <1>1, <1>4 DEF File
<1>6. PICK s \in Path, d \in Path : s = cur.src /\ d = cur.dst
  BY <1>4, TreeIs
<1>7. s \in DOMAIN before /\ vol[s] = before[s] /\ d = Goes(op, s)
  BY <1>4, <1>6, HandIs
<1>8. Report \in ReportType
  BY <1>4 DEF Report, ReportType, Types
<1>9. Types'
  <2>1. copied' \subseteq ReportType
    BY <1>2, <1>4, <1>8 DEF Types
  <2>2. pc' \in Busy /\ rc' \in {-1, 0, 1, 2}
    BY <1>1, <1>2 DEF Busy
  <2> QED BY <1>1, <1>4, <2>1, <2>2 DEF Types, Count
<1>10. CASE copied' = copied /\ rc' \in {-1, 0}
  BY <1>1, <1>3, <1>4, <1>9, <1>10, BackFailed
<1>11. CASE copied' = copied \cup {Report} /\ rc' = 1 /\ vol[cur.dst].data = vol[cur.src].data
  <2>1. PICK c : c = Report
    OBVIOUS
  <2>2. c.src = s /\ c.dst = d /\ c.how = how
    BY <1>6, <2>1 DEF Report
  <2>3. Delivered(c)'
    <3>1. DataBefore(s)' = vol'[d].data
      BY <1>1, <1>6, <1>7, <1>11 DEF DataBefore
    <3>2. how \notin {"append", "resume"}
      BY <1>5 DEF Full
    <3>3. \A m, o, x : m \notin {"append", "resume"} => Result(m, o, x) = x
      BY DEF Result
    <3>4. Result(IF d \in DOMAIN before' THEN how ELSE "overwrite", DataBefore(d)', DataBefore(s)')
             = vol'[d].data
      BY <3>1, <3>2, <3>3
    <3>5. d \in DOMAIN vol' /\ ~vol'[d].dir
      BY <1>1, <1>5, <1>6
    <3> QED BY <2>2, <3>4, <3>5 DEF Delivered, Holds, DataBefore
  <2>4. \A e \in copied' : e \in copied \/ (e.src = s /\ Right(e)')
    BY <1>1, <1>3, <1>5, <1>11, <2>1, <2>2, <2>3, ReportRight
  <2>5. d \in DOMAIN before => ~before[d].dir /\ (Replaceable(d)' \/ d \in unnoticed')
    BY <1>1, <1>3, <1>5, <1>6, MayReplace DEF Full, Grow
  <2>6. But(Goes(op, s))
    BY <1>1 DEF But
  <2>7. Goes(op, s) \in DOMAIN before =>
           ~before[Goes(op, s)].dir /\ (Replaceable(Goes(op, s))' \/ Goes(op, s) \in unnoticed')
    <3>1. Goes(op, s)' = d
      BY <1>1, <1>7 DEF Goes
    <3> QED BY <1>7, <2>5, <3>1 DEF Replaceable
  <2>8. /\ Store' /\ Intact(item.src)'
        /\ \A k \in DOMAIN walk, q \in Path :
               q # <<>> /\ Front(q) = walk[k].src /\ q \notin walk[k].seen => Unmade(q)'
    BY <1>1, <1>3, <1>4, <1>6, <2>4, <2>6, <2>7, HandStep
  <2>9. AllDone(s)'
    <3>1. Done(s)'
      BY <1>11, <2>1, <2>2 DEF Done
    <3> QED BY <1>1, <1>4, <1>6, <1>7, <3>1, FileDone
  <2>10. CopyWalk'
    BY <1>1, <1>3, <1>4, <1>6, <2>8, <2>9, HandWalk
  <2>11. Control'
    BY <1>1, <1>3, <1>4, ControlKept DEF InTree, InFile
  <2>12. File'
    BY <1>1 DEF File, InFile
  <2> QED BY <1>1, <1>4, <1>9, <2>8, <2>10, <2>11, <2>12, TreeStep
<1> QED BY <1>2, <1>10, <1>11

-----------------------------------------------------------------------------
(* The operation, entry by entry. *)

\* A step that changes nothing the invariant is about.
LEMMA Unchanged ==
    ASSUME IInv, abort' \in BOOLEAN,
           vol' = vol, op' = op, todo' = todo, pc' = pc, place' = place, file' = file,
           rc' = rc, askall' = askall, ghost' = ghost
    PROVE  IInv'
<1>1. /\ item' = item /\ walk' = walk /\ cur' = cur /\ phase' = phase
      /\ how' = how /\ fd' = fd /\ pos' = pos
      /\ before' = before /\ copied' = copied /\ skipped' = skipped /\ unnoticed' = unnoticed
  BY DEF place, file, ghost
<1>2. Types'
  BY <1>1 DEF IInv, Types, Count
<1>3. Control'
  BY <1>1 DEF IInv, Control, Count, Root, Trees, Copies
<1>4. \A p : Same(p)' <=> Same(p)
  BY <1>1 DEF Same
<1>5. \A r : (Intact(r)' <=> Intact(r)) /\ (Unmade(r)' <=> Unmade(r)) /\ (AllDone(r)' <=> AllDone(r))
  BY <1>1, <1>4 DEF Intact, Unmade, AllDone, Done, Goes, Same
<1>6. Reported'
  <2>1. \A c : Right(c)' <=> Right(c)
    BY <1>1 DEF Right, Copies, Delivered, Holds, DataBefore, HowRight
  <2> QED BY <1>1, <2>1 DEF IInv, Reported
<1>7. ASSUME Trees  PROVE TreeInv'
  <2>1. Others /\ Targets /\ Roots /\ File
    BY <1>7 DEF IInv, TreeInv
  <2>2. Store'
    <3>1. Still /\ Grow
      BY <1>1 DEF Still, Grow
    <3> QED BY <1>1, <2>1, <3>1, StoreStays DEF IInv, Store
  <2>3. File'
    BY <1>1, <1>4, <2>1 DEF File, HowRight, Full, Old, StartedAt, Same
  <2>4. ASSUME pc \in InTree, phase = "copy"  PROVE CopyWalk'
    <3>1. CopyWalk
      BY <1>7, <2>4 DEF IInv, TreeInv
    <3>2. Frames' <=> Frames
      BY <1>1, <1>5 DEF Frames, IsDir, Goes
    <3>3. (Nested' <=> Nested) /\ (Progress' <=> Progress)
      BY <1>1, <1>5 DEF Nested, Progress, InHand
    <3>4. (Failed' <=> Failed) /\ (InHand' <=> InHand) /\ top' = top
      BY <1>1 DEF Failed, InHand, top
    <3>5. PICK i, s, t : i = item.src /\ s = cur.src /\ t = top.src
      OBVIOUS
    <3>6. Intact(i)' /\ (pc \in {"entry", "open"} => Unmade(s)') /\ (pc = "leave" => AllDone(t)')
          /\ (pc = "back" /\ rc = 1 /\ walk = <<>> => AllDone(i)')
      BY <1>5, <3>1, <3>5 DEF CopyWalk
    <3>7. Intact(item.src)' /\ (pc \in {"entry", "open"} => Unmade(cur.src)') /\ (pc = "leave" => AllDone(top.src)')
          /\ (pc = "back" /\ rc = 1 /\ walk = <<>> => AllDone(item.src)')
      BY <1>1, <3>4, <3>5, <3>6 DEF Intact, Unmade, AllDone
    <3> QED BY <1>1, <3>1, <3>2, <3>3, <3>4, <3>7 DEF CopyWalk
  <2>5. ASSUME pc \in InTree, phase = "remove"  PROVE RemoveWalk'
    <3>1. RemoveWalk
      BY <1>7, <2>5 DEF IInv, TreeInv
    <3>2. PICK i : i = item.src
      OBVIOUS
    <3>3. op.kind = "move" => AllDone(i)'
      BY <1>5, <3>1, <3>2 DEF RemoveWalk
    <3>4. op.kind = "move" => AllDone(item.src)'
      BY <1>1, <3>2, <3>3 DEF AllDone
    <3> QED BY <1>1, <3>1, <3>4 DEF RemoveWalk
  <2> QED BY <1>1, <2>2, <2>3, <2>4, <2>5 DEF TreeInv, Store
<1>8. TreeInv'
  BY <1>7 DEF TreeInv, Trees
<1>9. RenameInv'
  BY <1>1 DEF IInv, RenameInv, Cleared, Removable, Children, Source1, Target1, Root
<1>10. RecaseInv'
  BY <1>1 DEF IInv, RecaseInv, Aside, Source1, Target1, Root
<1> QED BY <1>2, <1>3, <1>6, <1>8, <1>9, <1>10 DEF IInv

\* The reports stay right while the card stays.
LEMMA ReportedStays ==
    ASSUME Reported, Still, Grow, vol' = vol, copied' = copied
    PROVE  Reported'
<1>1. \A c \in copied : Right(c) => Right(c)'
  BY DEF Right, Still, Grow, Delivered, Holds, DataBefore, HowRight, Copies
<1> QED BY <1>1 DEF Reported

LEMMA TodoCut ==
    ASSUME Types, op' = op, todo' = todo \/ todo' = <<>>
    PROVE  /\ todo' \in Seq(Name) /\ Len(todo') <= Entries(op)
           /\ todo' = SubSeq(op.names, Count' + 1, Entries(op))
           /\ Count' \in Nat /\ Count' >= Count
           /\ todo' # <<>> => todo # <<>>
<1>1. CASE todo' = todo
  BY <1>1, Places DEF Types, Count
<1>2. CASE todo' = <<>>
  <2>1. Entries(op) \in Nat /\ Count \in 0 .. Entries(op) /\ op.names \in Seq(Name)
    BY Places
  <2>2. Len(todo') = 0 /\ todo' \in Seq(Name)
    BY <1>2
  <2>3. Count' = Entries(op)
    BY <2>1, <2>2 DEF Count
  <2>4. SubSeq(op.names, Entries(op) + 1, Entries(op)) = <<>>
    BY <2>1
  <2> QED BY <1>2, <2>1, <2>2, <2>3, <2>4
<1> QED BY <1>1, <1>2

\* The operation goes on behind an entry, or is over.
LEMMA LeaveKeeps ==
    ASSUME IInv, op' = op, vol' = vol, item' = item, cur' = cur, phase' = phase, how' = how, pos' = pos,
           rc' = rc, askall' = askall, abort' = abort,
           before' = before, copied' = copied, skipped' = skipped, unnoticed' = unnoticed,
           walk' = <<>>, fd' = fd \/ fd' = NoFile, pc' = "idle" \/ (pc' = "next" /\ op \in Ops),
           todo' = todo \/ todo' = <<>>
    PROVE  IInv'
<1>1. Still /\ Grow /\ Types
  BY DEF Still, Grow, IInv
<1>2. /\ todo' \in Seq(Name) /\ Len(todo') <= Entries(op)
      /\ todo' = SubSeq(op.names, Count' + 1, Entries(op))
      /\ Count' \in Nat /\ Count' >= Count
      /\ todo' # <<>> => todo # <<>>
  BY <1>1, TodoCut
<1>3. Types'
  <2>1. fd' \in [open : BOOLEAN, data : Seq(Chunk)]
    <3>1. <<>> \in Seq(Chunk)
      OBVIOUS
    <3>2. NoFile \in [open : BOOLEAN, data : Seq(Chunk)]
      BY <3>1 DEF NoFile
    <3> QED BY <1>1, <3>2 DEF Types
  <2>2. walk' \in Seq(FrameType)
    OBVIOUS
  <2>3. pc' \in Busy \cup {"idle"} /\ (pc' # "idle" => op \in Ops)
    BY DEF Busy
  <2> QED BY <1>1, <1>2, <2>1, <2>2, <2>3 DEF Types
<1>4. Control'
  BY DEF Control, InTree, InFile
<1>5. Reported'
  BY <1>1, ReportedStays DEF IInv
<1>6. TreeInv'
  <2> SUFFICES ASSUME Trees  PROVE TreeInv'
    BY DEF TreeInv, Trees
  <2>1. Store'
    BY <1>1, <1>2, StoreNext DEF IInv, TreeInv, Store
  <2>2. File'
    BY DEF File, InFile
  <2>3. pc' \notin InTree
    BY DEF InTree, InFile
  <2> QED BY <2>1, <2>2, <2>3 DEF TreeInv, Store
<1>7. RenameInv'
  BY <1>2 DEF IInv, RenameInv, Cleared, Removable, Children, Source1, Target1, Root
<1>8. RecaseInv'
  BY <1>2 DEF IInv, RecaseInv, Aside, Source1, Target1, Root
<1> QED BY <1>3, <1>4, <1>5, <1>6, <1>7, <1>8 DEF IInv

LEMMA FinishKeeps == ASSUME IInv, Finish  PROVE IInv'
<1>1. walk = <<>>
  BY DEF Finish, IInv, Control, InTree, InFile
<1> QED BY <1>1, LeaveKeeps DEF Finish, place, file, ghost

LEMMA CancelKeeps == ASSUME IInv, Cancel  PROVE IInv'
BY Unchanged DEF Cancel

LEMMA PowerCutKeeps == ASSUME IInv, PowerCut  PROVE IInv'
BY LeaveKeeps DEF PowerCut, ghost

LEMMA AfterRemoveKeeps == ASSUME IInv, AfterRemove  PROVE IInv'
<1>1. pc \in InTree /\ walk = <<>>
  BY DEF AfterRemove, Top, InTree
<1>2. op \in Ops
  BY <1>1, TreeIs
<1> QED BY <1>1, <1>2, LeaveKeeps DEF AfterRemove, place, file, ghost

LEMMA AfterCopyKeeps == ASSUME IInv, AfterCopy  PROVE IInv'
<1>1. /\ pc = "back" /\ pc \in InTree /\ walk = <<>> /\ phase = "copy" /\ vol' = vol /\ op' = op /\ item' = item
      /\ walk' = walk /\ how' = how /\ fd' = fd /\ pos' = pos /\ rc' = rc /\ askall' = askall /\ abort' = abort
      /\ before' = before /\ copied' = copied /\ skipped' = skipped /\ unnoticed' = unnoticed
  BY DEF AfterCopy, Top, InTree, file, ghost
<1>2. /\ Types /\ Trees /\ Store /\ op \in Ops /\ Count \in DOMAIN op.names /\ item.src = Root(Count)
      /\ item.src \in Path
  BY <1>1, TreeIs
<1>3. CASE op.kind = "move" /\ rc = 1
  <2>1. phase' = "remove" /\ cur' = item /\ pc' = "entry" /\ todo' = todo
    BY <1>3 DEF AfterCopy
  <2>2. Still /\ Grow
    BY <1>1 DEF Still, Grow
  <2>3. Types'
    BY <1>1, <1>2, <2>1 DEF Types, Busy, Count
  <2>4. Control'
    BY <1>1, <1>2, <1>3, <2>1 DEF IInv, Control, InTree, InFile, Count, Root, Trees, Copies
  <2>5. Store'
    BY <1>1, <1>2, <2>1, <2>2, StoreStays
  <2>6. File'
    BY <2>1 DEF File, InFile
  <2>7. RemoveWalk'
    <3>1. AllDone(item.src)
      BY <1>1, <1>3, CopyIs DEF CopyWalk
    <3>2. AllDone(item.src)'
      <4>1. PICK r : r = item.src
        OBVIOUS
      <4>2. AllDone(r)'
        BY <2>2, <3>1, <4>1, AllDoneGrows
      <4> QED BY <1>1, <4>1, <4>2 DEF AllDone
    <3>3. Under(item'.src, cur'.src)
      BY <1>1, <1>2, <2>1, UnderSelf
    <3> QED BY <1>1, <3>2, <3>3 DEF RemoveWalk
  <2> QED BY <1>1, <1>2, <2>1, <2>3, <2>4, <2>5, <2>6, <2>7, TreeStep
<1>4. CASE ~(op.kind = "move" /\ rc = 1)
  <2>1. /\ pc' = (IF rc < 0 \/ op.single THEN "idle" ELSE "next")
        /\ todo' = (IF rc < 0 \/ op.single THEN <<>> ELSE todo) /\ phase' = phase /\ cur' = cur
    BY <1>4 DEF AfterCopy
  <2> QED BY <1>1, <1>2, <2>1, LeaveKeeps
<1> QED BY <1>3, <1>4

LEMMA NextIs ==
    ASSUME Types, todo # <<>>, op' = op, todo' = Tail(todo)
    PROVE  /\ Count \in Nat /\ Count' = Count + 1 /\ Count' \in DOMAIN op.names
           /\ Head(todo) = op.names[Count + 1]
           /\ todo' \in Seq(Name) /\ Len(todo') <= Entries(op)
           /\ todo' = SubSeq(op.names, Count' + 1, Entries(op))
<1>1. PICK n \in Nat, c \in Nat : n = Entries(op) /\ c = Count
  BY Places
<1>2. PICK s \in Seq(Name) : s = op.names /\ n = Len(s) /\ DOMAIN s = 1 .. n
  BY <1>1, Places DEF Entries
<1>3. todo \in Seq(Name) /\ todo = SubSeq(s, c + 1, n) /\ Len(todo) = n - c /\ c <= n
  <2>1. todo \in Seq(Name) /\ todo = SubSeq(op.names, Count + 1, Entries(op)) /\ Len(todo) \in Nat
    BY Places DEF Types
  <2>2. c = n - Len(todo)
    BY <1>1 DEF Count
  <2>3. Len(todo) = n - c
    BY ONLY <1>1, <2>1, <2>2
  <2>4. c <= n
    BY <1>1, Places
  <2> QED BY <1>1, <1>2, <2>1, <2>3, <2>4
<1>4. Len(todo) >= 1 /\ Head(todo) = todo[1] /\ todo' \in Seq(Name) /\ Len(todo') = n - c - 1
      /\ \A k \in 1 .. n - c - 1 : todo'[k] = todo[k + 1]
  BY <1>3
<1>5. c < n /\ c + 1 \in 1 .. n
  BY <1>3, <1>4
<1>6. \A k \in 1 .. n - c : todo[k] = s[c + k]
  <2> SUFFICES ASSUME NEW k \in 1 .. n - c  PROVE todo[k] = s[c + k]
    OBVIOUS
  <2>1. c + 1 + k - 1 = c + k /\ k \in 1 .. n - (c + 1) + 1
    OBVIOUS
  <2>2. SubSeq(s, c + 1, n)[k] = s[c + 1 + k - 1]
    BY <1>2, <1>3, <1>5, <2>1
  <2> QED BY <1>3, <2>1, <2>2
<1>7. Head(todo) = s[c + 1]
  BY <1>4, <1>5, <1>6
<1>8. Count' = c + 1
  <2>1. Entries(op)' = n
    BY <1>1 DEF Entries
  <2> QED BY <1>4, <2>1 DEF Count
<1>9. todo' = SubSeq(s, c + 2, n)
  <2>1. SubSeq(s, c + 2, n) \in Seq(Name) /\ Len(SubSeq(s, c + 2, n)) = n - c - 1
    BY <1>2, <1>5
  <2>2. \A k \in 1 .. n - c - 1 : todo'[k] = SubSeq(s, c + 2, n)[k]
    <3> SUFFICES ASSUME NEW k \in 1 .. n - c - 1  PROVE todo'[k] = SubSeq(s, c + 2, n)[k]
      OBVIOUS
    <3>1. k + 1 \in 1 .. n - c /\ c + (k + 1) = c + k + 1 /\ c + 2 + k - 1 = c + k + 1
      BY <1>5
    <3>2. todo'[k] = s[c + k + 1]
      BY <1>4, <1>6, <3>1
    <3>3. SubSeq(s, c + 2, n)[k] = s[c + 2 + k - 1]
      BY <1>2, <1>5
    <3> QED BY <3>1, <3>2, <3>3
  <2>3. todo' \in Path /\ SubSeq(s, c + 2, n) \in Path /\ Len(todo') = Len(SubSeq(s, c + 2, n))
        /\ \A k \in 1 .. Len(todo') : todo'[k] = SubSeq(s, c + 2, n)[k]
    BY <1>4, <2>1, <2>2 DEF Path
  <2> QED BY ONLY <2>3, PathEq
<1>10. Count' + 1 = c + 2 /\ Count' = Count + 1 /\ Count' \in DOMAIN op.names
  BY <1>1, <1>2, <1>5, <1>8
<1>11. Len(todo') <= Entries(op)
  BY <1>1, <1>4, <1>5
<1>12. Head(todo) = op.names[Count + 1] /\ Count \in Nat
  BY <1>1, <1>2, <1>7
<1>13. todo' = SubSeq(op.names, Count' + 1, Entries(op))
  BY <1>1, <1>2, <1>9, <1>10
<1> QED BY <1>4, <1>10, <1>11, <1>12, <1>13

LEMMA ItemIs ==
    ASSUME op' = op, NEW i
    PROVE  ItemOf(op.names[i]) = [src |-> Root(i), dst |-> DstOf(op, i)]
BY DEF ItemOf, Root, RootOf, DstOf

\* What is copied onto itself has its own place as its target.
LEMMA OntoIs ==
    ASSUME NEW o \in Ops, Onto(o), NEW i \in DOMAIN o.names
    PROVE  RootOf(o, i) = DstOf(o, i)
<1>1. o.folder = Here /\ (o.as = "" \/ o.as = o.names[1])
  BY DEF Onto
<1>2. CASE o.as = ""
  BY <1>1, <1>2 DEF RootOf, DstOf
<1>3. CASE o.as # ""
  <2>1. PICK n \in Nat : n = Len(o.names) /\ DOMAIN o.names = 1 .. n /\ n = 1
    BY <1>3, OpParts
  <2>2. i = 1
    BY <2>1
  <2> QED BY <1>1, <1>3, <2>2 DEF RootOf, DstOf
<1> QED BY <1>2, <1>3

LEMMA NextItemKeeps ==
    ASSUME Separate, IInv, NextItem
    PROVE  IInv'
<1>1. /\ pc = "next" /\ todo # <<>> /\ todo' = Tail(todo)
      /\ item' = ItemOf(Head(todo)) /\ cur' = item'
      /\ phase' = (IF op.kind = "delete" THEN "remove" ELSE "copy")
      /\ pc' = (IF op.kind \in {"rename", "recase"} THEN op.kind
                ELSE IF op.kind # "delete" /\ item'.src = item'.dst THEN "next" ELSE "entry")
      /\ vol' = vol /\ op' = op /\ walk' = walk /\ how' = how /\ fd' = fd /\ pos' = pos /\ rc' = rc
      /\ askall' = askall /\ abort' = abort
      /\ before' = before /\ copied' = copied /\ skipped' = skipped /\ unnoticed' = unnoticed
  BY DEF NextItem, file, ghost
<1>2. Types /\ Control /\ op \in Ops /\ Still /\ Grow
  BY <1>1 DEF IInv, Types, Still, Grow
<1>3. walk = <<>>
  BY <1>1, <1>2 DEF Control, InTree, InFile
<1>4. /\ Count \in Nat /\ Count' = Count + 1 /\ Count' \in DOMAIN op.names
      /\ Head(todo) = op.names[Count + 1]
      /\ todo' \in Seq(Name) /\ Len(todo') <= Entries(op)
      /\ todo' = SubSeq(op.names, Count' + 1, Entries(op))
  BY <1>1, <1>2, NextIs
<1>5. PICK n \in DOMAIN op.names : n = Count'
  BY <1>4
<1>6. item' = [src |-> Root(n), dst |-> DstOf(op, n)] /\ item'.src = Root(n) /\ item'.dst = DstOf(op, n)
  <2>1. item' = ItemOf(op.names[n])
    BY <1>1, <1>4, <1>5
  <2>2. item' = [src |-> Root(n), dst |-> DstOf(op, n)]
    BY <1>1, <2>1, ItemIs
  <2> QED BY <2>2
<1>7. Root(n) \in Path /\ Chosen(op, Root(n)) /\ Goes(op, Root(n)) = DstOf(op, n) /\ DstOf(op, n) \in Path
  BY <1>2, RootPath
<1>8. op.kind \in Kinds
  BY <1>2, ModeIs
<1>9. Types'
  <2>1. item' \in [src : Path, dst : Path]
    BY <1>6, <1>7
  <2>2. pc' \in Busy
    BY <1>1 DEF Busy
  <2>3. phase' \in {"copy", "remove"}
    BY <1>1
  <2> QED BY <1>1, <1>2, <1>4, <2>1, <2>2, <2>3 DEF Types
<1>10. Control'
  <2>1. Count' \in DOMAIN op.names /\ item'.src = Root(Count)' /\ item'.dst = DstOf(op, Count)'
    BY <1>1, <1>5, <1>6 DEF Root, RootOf, DstOf
  <2>2. pc' = "entry" => /\ Trees /\ (Copies => ~Onto(op))
                         /\ IF phase' = "copy" THEN Copies ELSE op.kind # "copy"
    <3>1. Onto(op) => Root(n) = DstOf(op, n)
      BY <1>2, OntoIs DEF Root
    <3> QED BY <1>1, <1>6, <1>8, <3>1 DEF Kinds, Trees, Copies
  <2>3. pc' \in {"rename", "recase"} => op.kind = pc'
    BY <1>1
  <2>4. pc' \in {"rename", "recase", "next", "entry"}
    BY <1>1
  <2> QED BY <1>1, <1>3, <2>1, <2>2, <2>3, <2>4 DEF Control, InTree, InFile, Trees, Copies, Onto
<1>11. Reported'
  BY <1>1, <1>2, ReportedStays DEF IInv
<1>12. TreeInv'
  <2> SUFFICES ASSUME Trees  PROVE TreeInv'
    BY <1>1 DEF TreeInv, Trees
  <2>1. Store
    BY DEF IInv, TreeInv, Store
  <2>2. Store'
    BY <1>1, <1>2, <1>4, <2>1, StoreNext
  <2>3. Intact(Root(n)) /\ (Copies => Unmade(Root(n))) /\ Root(n) \in DOMAIN before
    <3>1. n > Count
      BY <1>4, <1>5
    <3> QED BY <2>1, <3>1 DEF Store, Roots
  <2>4. PICK r : r = Root(n)
    OBVIOUS
  <2>5. \A q : (Intact(q)' <=> Intact(q)) /\ (Unmade(q)' <=> Unmade(q))
    BY <1>1, <1>2, AsBefore
  <2>6. pc' \in InTree => pc' = "entry"
    BY <1>1 DEF Trees, InTree, InFile
  <2>7. ASSUME pc' = "entry", phase' = "copy"  PROVE CopyWalk'
    <3>1. Copies
      BY <1>1, <2>7 DEF Trees, Copies
    <3>2. Intact(r)' /\ Unmade(r)'
      BY <2>3, <2>4, <2>5, <3>1
    <3>3. item'.src = r /\ cur'.src = r /\ cur'.dst = Goes(op, r) /\ r \in DOMAIN before
      BY <1>1, <1>6, <1>7, <2>3, <2>4
    <3>4. Intact(item.src)' /\ Unmade(cur.src)'
      BY <3>2, <3>3 DEF Intact, Unmade
    <3>5. DOMAIN walk' = {}
      BY <1>1, <1>3
    <3>6. Frames' /\ Nested' /\ Progress'
      BY <3>5 DEF Frames, Nested, Progress
    <3>7. cur'.dst = Goes(op', cur'.src)
      BY <1>1, <3>3
    <3> QED BY <1>1, <1>3, <2>7, <3>3, <3>4, <3>6, <3>7 DEF CopyWalk
  <2>8. ASSUME pc' = "entry", phase' = "remove"  PROVE RemoveWalk'
    <3>1. op.kind = "delete"
      BY <1>1, <2>8
    <3>2. Under(item'.src, cur'.src)
      BY <1>1, <1>6, <1>7, UnderSelf
    <3>3. DOMAIN walk' = {}
      BY <1>1, <1>3
    <3> QED BY <1>1, <3>1, <3>2, <3>3 DEF RemoveWalk
  <2>9. File'
    BY <1>1 DEF File, InFile
  <2> QED BY <2>2, <2>6, <2>7, <2>8, <2>9 DEF TreeInv, Store
<1>13. RenameInv'
  <2> SUFFICES ASSUME op.kind = "rename"  PROVE RenameInv'
    BY <1>1 DEF RenameInv
  <2>1. Source1 \in DOMAIN before /\ vol = before
    BY <1>1 DEF IInv, RenameInv
  <2> QED BY <1>1, <2>1 DEF RenameInv, Source1, Target1, Root
<1>14. RecaseInv'
  <2> SUFFICES ASSUME op.kind = "recase"  PROVE RecaseInv'
    BY <1>1 DEF RecaseInv
  <2>1. Source1 \in DOMAIN before /\ vol = before
    BY <1>1 DEF IInv, RecaseInv
  <2> QED BY <1>1, <2>1 DEF RecaseInv, Source1, Target1, Root
<1> QED BY <1>9, <1>10, <1>11, <1>12, <1>13, <1>14 DEF IInv

\* Below a selected entry nothing is copied to the place of the target folder.
\* mkdir_path makes some folders on the way to p and touches nothing else.
LEMMA MadePathIs ==
    ASSUME IsVolume(vol), IsDir(vol, <<>>), NEW p \in Path, mkdir_path(p)
    PROVE  /\ IsVolume(vol')
           /\ \A q \in DOMAIN vol : q \in DOMAIN vol' /\ vol'[q] = vol[q]
           /\ \A q \in DOMAIN vol' : q \in DOMAIN vol \/ \E k \in 1 .. Len(p) : q = Upto(p, k)
<1>1. PICK n \in 0 .. Len(p) : /\ \A k \in 1 .. n : Upto(p, k) \in DOMAIN vol => vol[Upto(p, k)].dir
                              /\ vol' = MadePath(vol, p, n)
  BY DEF mkdir_path
<1>2. /\ DOMAIN vol' = DOMAIN vol \cup {Upto(p, k) : k \in 1 .. n}
      /\ \A q \in DOMAIN vol : vol'[q] = vol[q]
      /\ \A q \in DOMAIN vol' : q \notin DOMAIN vol => vol'[q] = Dir
  BY <1>1 DEF MadePath
<1>3. Len(p) \in Nat
  BY PathLen
<1>4. ASSUME NEW k \in 0 .. n
      PROVE  /\ Upto(p, k) \in Path /\ Len(Upto(p, k)) = k
             /\ \A i \in 1 .. k : Upto(p, k)[i] = p[i]
  <2>1. k \in 0 .. Len(p)
    BY <1>3
  <2> QED BY <2>1, Cut DEF Upto
<1>5. \A k \in 1 .. n : Upto(p, k) \in DOMAIN vol' /\ vol'[Upto(p, k)].dir
  BY <1>1, <1>2 DEF Dir
<1>6. \A q \in DOMAIN vol' : q \in Path /\ vol'[q] \in Node
  BY <1>2, <1>4, NodeAt, NodesTyped
<1>7. ASSUME NEW r \in DOMAIN vol', NEW q \in Path, Under(q, r), q # r
      PROVE  q \in DOMAIN vol' /\ vol'[q].dir
  <2>1. CASE r \in DOMAIN vol
    BY <1>2, <1>7, <2>1, Above
  <2>2. CASE r \notin DOMAIN vol
    <3>1. PICK k \in 1 .. n : r = Upto(p, k)
      BY <1>2, <2>2
    <3>2. PICK j : j = Len(q)
      OBVIOUS
    <3>3. j \in Nat /\ j < k /\ \A i \in 1 .. j : q[i] = r[i]
      <4>1. r \in Path /\ Len(r) = k
        BY <1>4, <3>1
      <4>2. j \in Nat /\ j <= k /\ \A i \in 1 .. j : q[i] = r[i]
        BY <1>7, <3>2, <4>1, UnderAt, PathLen
      <4>3. j # k
        BY <1>7, <3>2, <4>1, UnderEq
      <4> QED BY <4>2, <4>3
    <3>4. \A i \in 1 .. j : q[i] = p[i]
      BY <1>4, <3>1, <3>3
    <3>5. CASE j = 0
      <4>1. q = <<>>
        <5>1. q \in Seq(Name) /\ Len(q) = 0
          BY <3>2, <3>5 DEF Path
        <5> QED BY <5>1
      <4> QED BY <1>2, <4>1 DEF IsDir
    <3>6. CASE j # 0
      <4>1. j \in 1 .. n
        BY <3>3, <3>6
      <4>2. Upto(p, j) \in Path /\ Len(Upto(p, j)) = j /\ \A i \in 1 .. j : Upto(p, j)[i] = p[i]
        BY <1>4, <4>1
      <4>3. q = Upto(p, j)
        BY <3>2, <3>4, <4>2, PathEq
      <4> QED BY <1>5, <4>1, <4>3
    <3> QED BY <3>5, <3>6
  <2> QED BY <2>1, <2>2
<1>8. IsVolume(vol')
  BY <1>6, <1>7, VolumeIs
<1>9. ASSUME NEW q \in DOMAIN vol'
      PROVE  q \in DOMAIN vol \/ \E k \in 1 .. Len(p) : q = Upto(p, k)
  BY <1>2, <1>3
<1> QED BY <1>2, <1>8, <1>9

LEMMA GoesBelow ==
    ASSUME NEW o \in Ops, NEW i \in DOMAIN o.names, NEW p \in Path, Under(RootOf(o, i), p)
    PROVE  Goes(o, p) \in Path /\ \A k \in 1 .. Len(o.folder) : Goes(o, p) # Upto(o.folder, k)
<1>1. Chosen(o, p)
  BY DEF Chosen
<1>2. /\ Len(p) >= Len(Here) + 1 /\ Len(p) \in Nat /\ Len(Here) \in Nat /\ Deep(o) \in Nat
      /\ Deep(o) = Len(o.folder)
  BY <1>1, InLonger, OpParts
<1>3. Goes(o, p) \in Path /\ Len(Goes(o, p)) = Deep(o) + Len(p) - Len(Here)
  BY <1>2, GoesAt
<1>4. Len(Goes(o, p)) >= Deep(o) + 1
  BY <1>2, <1>3
<1>5. ASSUME NEW k \in 1 .. Len(o.folder)  PROVE Len(Upto(o.folder, k)) = k
  <2>1. o.folder \in Path /\ k \in 0 .. Len(o.folder)
    <3>1. o.folder \in Path /\ Len(o.folder) \in Nat
      BY OpParts
    <3> QED BY <3>1, <1>5
  <2> QED BY <2>1, Cut DEF Upto
<1> QED BY <1>2, <1>3, <1>4, <1>5

LEMMA BeginKeeps ==
    ASSUME Types, pc = "idle", walk = <<>>, NEW o \in Ops, Begin(o)
    PROVE  IInv'
<1>1. /\ pc = "idle" /\ pc' = "next" /\ op' = o /\ todo' = o.names
      /\ before' = vol /\ copied' = {} /\ skipped' = {} /\ unnoticed' = {}
      /\ askall' = "ask" /\ abort' = FALSE
      /\ item' = item /\ walk' = walk /\ cur' = cur /\ phase' = phase
      /\ how' = how /\ fd' = fd /\ pos' = pos /\ rc' = rc
      /\ \A i \in DOMAIN o.names : RootOf(o, i) \in DOMAIN vol
  BY DEF Begin, place, file, RootOf
<1>2. IsVolume(vol)
  BY DEF Types
<1>3. IF o.kind \in {"copy", "move"} THEN mkdir_path(o.folder) ELSE vol' = vol
  BY DEF Begin
<1>4. /\ Here \in Path /\ o.folder \in Path /\ o.names \in Seq(Name) /\ Len(o.names) \in Nat
      /\ DOMAIN o.names = 1 .. Len(o.names)
      /\ \A i \in DOMAIN o.names : ~Under(RootOf(o, i), o.folder)
      /\ 1 \in DOMAIN o.names
  BY OpParts
<1>5. /\ IsVolume(vol')
      /\ \A q \in DOMAIN vol : q \in DOMAIN vol' /\ vol'[q] = vol[q]
      /\ \A q \in DOMAIN vol' : q \in DOMAIN vol \/ \E k \in 1 .. Len(o.folder) : q = Upto(o.folder, k)
  <2>1. IsDir(vol, <<>>)
    <3>1. RootOf(o, 1) \in DOMAIN vol /\ RootOf(o, 1) \in Path /\ RootOf(o, 1) # <<>>
      BY <1>1, <1>4, RootAt
    <3>2. <<>> \in Path /\ Len(<<>>) = 0
      BY DEF Path
    <3>3. Under(<<>>, RootOf(o, 1))
      BY <3>1, <3>2, UnderAt, PathLen
    <3> QED BY <1>2, <3>1, <3>2, <3>3, Above DEF IsDir
  <2>2. CASE mkdir_path(o.folder)
    <3>1. PICK f \in Path : f = o.folder
      BY <1>4
    <3>2. mkdir_path(f)
      BY <2>2, <3>1
    <3> QED BY ONLY <1>2, <2>1, <3>1, <3>2, MadePathIs
  <2> QED BY <1>2, <1>3, <2>2
<1>6. PICK n \in Nat : n = Entries(o) /\ n = Len(o.names)
  BY <1>4 DEF Entries
<1>7. Count' = 0 /\ Entries(op)' = n
  <2>1. Entries(op)' = n
    BY <1>1, <1>6 DEF Entries
  <2>2. Len(todo') = n
    BY <1>1, <1>6
  <2> QED BY <2>1, <2>2 DEF Count
<1>8. Types'
  <2>1. SubSeq(o.names, 0 + 1, n) = o.names
    <3>1. PICK s \in Seq(Name) : s = o.names /\ n = Len(s)
      BY <1>4, <1>6
    <3>2. SubSeq(s, 1, n) = s
      BY <3>1
    <3> QED BY <3>1, <3>2
  <2>2. todo' = SubSeq(op'.names, Count' + 1, Entries(op)') /\ Len(todo') <= Entries(op)'
        /\ todo' \in Seq(Name)
    BY <1>1, <1>4, <1>6, <1>7, <2>1
  <2>3. pc' \in Busy
    BY <1>1 DEF Busy
  <2> QED BY <1>1, <1>2, <1>5, <2>2, <2>3 DEF Types
<1>9. Control'
  BY <1>1 DEF Control, InTree, InFile
<1>10. Reported'
  BY <1>1 DEF Reported
<1>12. \A p \in DOMAIN vol : Same(p)'
  BY <1>1, <1>5 DEF Same
<1>13. ASSUME NEW p \in Path, \A k \in 1 .. Len(o.folder) : p # Upto(o.folder, k)  PROVE Same(p)'
  BY <1>1, <1>5, <1>13 DEF Same
<1>14. TreeInv'
  <2>1. Others'
    BY <1>1, <1>12 DEF Others
  <2>2. Targets'
    BY <1>1, <1>12 DEF Targets
  <2>3. Roots'
    <3> SUFFICES ASSUME NEW i \in DOMAIN o.names
                 PROVE  /\ i > 0 /\ ~(i <= 0)
                        /\ Intact(RootOf(o, i))' /\ Unmade(RootOf(o, i))' /\ RootOf(o, i) \in DOMAIN vol
      BY <1>1, <1>7 DEF Roots, Root, Intact, Unmade, RootOf
    <3>1. i > 0 /\ ~(i <= 0)
      BY <1>4
    <3>2. PICK r : r = RootOf(o, i)
      OBVIOUS
    <3>3. Intact(r)'
      <4> SUFFICES ASSUME NEW p \in Path, Under(r, p)  PROVE Same(p)'
        BY DEF Intact
      <4>1. ASSUME NEW k \in 1 .. Len(o.folder), p = Upto(o.folder, k)  PROVE FALSE
        <5>1. k \in 0 .. Len(o.folder) /\ r \in Path /\ Len(o.folder) \in Nat
          BY <1>4, <3>2, RootAt, PathLen
        <5>2. Len(p) = k /\ \A n_ \in 1 .. k : p[n_] = o.folder[n_]
          BY <1>4, <4>1, <5>1, Cut DEF Upto
        <5>3. Under(p, o.folder)
          BY <1>4, <5>1, <5>2, UnderAt
        <5> QED BY <1>4, <3>2, <5>1, <5>3, UnderTwice
      <4> QED BY <4>1, <1>13
    <3>4. Unmade(r)'
      <4> SUFFICES ASSUME NEW p \in Path, Under(r, p)  PROVE Same(Goes(op, p))'
        BY <1>1 DEF Unmade
      <4>1. PICK g \in Path : g = Goes(o, p) /\ \A k \in 1 .. Len(o.folder) : g # Upto(o.folder, k)
        BY <3>2, GoesBelow
      <4>2. Same(g)'
        BY <1>13, <4>1
      <4>3. Goes(op, p)' = g
        BY <1>1, <4>1 DEF Goes
      <4> QED BY <4>2, <4>3 DEF Same
    <3> QED BY <1>1, <3>1, <3>2, <3>3, <3>4 DEF Intact, Unmade, RootOf
  <2>4. File' /\ pc' \notin InTree
    BY <1>1 DEF File, InTree, InFile
  <2> QED BY <2>1, <2>2, <2>3, <2>4 DEF TreeInv
<1>15. ASSUME o.kind \in {"rename", "recase"}
       PROVE  vol' = vol /\ RootOf(o, 1) \in DOMAIN vol
  BY <1>1, <1>3, <1>4, <1>15
<1>16. RenameInv'
  BY <1>1, <1>15 DEF RenameInv, Source1, Root, RootOf
<1>17. RecaseInv'
  BY <1>1, <1>15 DEF RecaseInv, Source1, Root, RootOf
<1> QED BY <1>8, <1>9, <1>10, <1>14, <1>16, <1>17 DEF IInv

-----------------------------------------------------------------------------
(* rename_selected. *)

LEMMA OnlyOne ==
    ASSUME IInv, pc \in {"rename", "again", "recase", "recase2"}
    PROVE  /\ Types /\ op \in Ops /\ op.kind \in {"rename", "recase"} /\ op.folder = Here
           /\ item.src = Source1 /\ item.dst = Target1 /\ todo = <<>> /\ walk = <<>> /\ copied = {}
           /\ Source1 \in Path /\ Target1 \in Path /\ Source1 # <<>> /\ Target1 # <<>>
           /\ Front(Source1) = Here /\ Front(Target1) = Here
           /\ 1 \in DOMAIN op.names /\ Count \in DOMAIN op.names
<1>1. Types /\ Control /\ Reported
  BY DEF IInv
<1>2. Count \in DOMAIN op.names /\ item.src = Root(Count) /\ item.dst = DstOf(op, Count)
      /\ op.kind \in {"rename", "recase"} /\ walk = <<>>
  BY <1>1 DEF Control, InTree, InFile
<1>3. op \in Ops
  BY <1>1, <1>2, Real
<1>4. op.folder = Here /\ Len(op.names) = 1 /\ DOMAIN op.names = 1 .. Len(op.names)
  BY <1>2, <1>3, OpParts
<1>5. Count = 1 /\ 1 \in DOMAIN op.names
  BY <1>2, <1>4
<1>6. todo = <<>>
  <2>1. Entries(op) = 1 /\ Len(todo) \in Nat
    BY <1>1, <1>4, Places DEF Entries
  <2>2. Len(todo) = 0
    BY <1>5, <2>1 DEF Count
  <2>3. todo \in Seq(Name)
    BY <1>1 DEF Types
  <2> QED BY ONLY <2>2, <2>3
<1>7. copied = {}
  BY <1>1, <1>2 DEF Reported, Right, Copies
<1>8. /\ Source1 \in Path /\ Target1 \in Path /\ Source1 # <<>> /\ Target1 # <<>>
      /\ Front(Source1) = Here /\ Front(Target1) = Here
  BY <1>3, <1>4, <1>5, RootAt, DstAt DEF Source1, Target1, Root
<1>9. item.src = Source1 /\ item.dst = Target1
  BY <1>2, <1>5 DEF Source1, Target1
<1> QED BY <1>1, <1>2, <1>3, <1>4, <1>5, <1>6, <1>7, <1>8, <1>9

LEMMA RenameKeeps ==
    ASSUME IInv, Rename
    PROVE  IInv'
<1>1. /\ pc \in {"rename", "again"}
      /\ op' = op /\ todo' = todo /\ item' = item /\ walk' = walk /\ cur' = cur /\ phase' = phase
      /\ how' = how /\ fd' = fd /\ pos' = pos /\ askall' = askall /\ abort' = abort
      /\ before' = before /\ copied' = copied /\ skipped' = skipped /\ unnoticed' = unnoticed
  BY DEF Rename, place, file, ghost
<1>2. /\ Types /\ op \in Ops /\ op.folder = Here
      /\ item.src = Source1 /\ item.dst = Target1 /\ todo = <<>> /\ walk = <<>> /\ copied = {}
      /\ Source1 \in Path /\ Target1 \in Path /\ Source1 # <<>> /\ Target1 # <<>>
      /\ Front(Source1) = Here /\ Front(Target1) = Here
      /\ Count \in DOMAIN op.names
  BY <1>1, OnlyOne
<1>3. op.kind = "rename" /\ Control
  BY <1>1 DEF IInv, Control
<1>4. PICK a, b : a = Source1 /\ b = Target1
  OBVIOUS
<1>5. a \in DOMAIN before /\ (vol = before \/ Cleared) /\ (pc = "rename" => vol = before)
  BY <1>1, <1>3, <1>4 DEF IInv, RenameInv
<1>6. IsVolume(vol) /\ a \in DOMAIN vol
  <2>1. Cleared => a \in DOMAIN vol
    <3>1. Cleared => a # b /\ vol = Without(before, b)
      BY <1>4 DEF Cleared
    <3>2. DOMAIN Without(before, b) = DOMAIN before \ {b}
      BY WithoutAt
    <3> QED BY <1>5, <3>1, <3>2
  <2> QED BY <1>2, <1>5, <2>1 DEF Types
<1>7. Source1' = a /\ Target1' = b
  BY <1>1, <1>4 DEF Source1, Target1, Root
<1>8. ASSUME IsVolume(vol'), rc' \in {0, 1}, pc' \in {"again", "next"}
      PROVE  Types' /\ Control' /\ Reported' /\ TreeInv' /\ RecaseInv'
  <2>1. pc' \in Busy
    BY <1>8 DEF Busy
  <2>2. Types'
    BY <1>1, <1>2, <1>8, <2>1 DEF Types, Count
  <2>3. Control'
    <3>1. Count' = Count /\ Root(Count)' = Root(Count)
      BY <1>1 DEF Count, Root
    <3> QED BY <1>1, <1>2, <1>3, <1>8, <3>1 DEF Control, InTree, InFile
  <2>4. Reported'
    BY <1>1, <1>2 DEF Reported
  <2>5. TreeInv' /\ RecaseInv'
    BY <1>1, <1>3 DEF TreeInv, Trees, RecaseInv
  <2> QED BY <2>2, <2>3, <2>4, <2>5
<1>9. CASE b \in DOMAIN vol /\ a # b /\ pc = "rename" /\ op.mode = "overwrite"
  <2>1. f_unlink(b) /\ pc' = "again"
    BY <1>2, <1>4, <1>9 DEF Rename
  <2>2. vol' = vol \/ (Removable(vol, b) /\ vol' = Without(vol, b))
    BY <2>1 DEF f_unlink
  <2>3. rc' \in {0, 1}
    BY <2>1 DEF f_unlink
  <2>4. vol = before
    BY <1>5, <1>9
  <2>5. IsVolume(vol')
    BY <1>6, <2>2, WithoutVolume
  <2>6. vol' = before' \/ Cleared'
    BY <1>1, <1>7, <1>9, <2>2, <2>4 DEF Cleared, Removable, Children
  <2>7. RenameInv'
    BY <1>1, <1>2, <1>5, <1>7, <2>1, <2>6 DEF RenameInv
  <2> QED BY <1>8, <2>1, <2>3, <2>5, <2>7 DEF IInv
<1>10. ASSUME vol' = vol, pc' = "next", rc' = 0  PROVE IInv'
  <2>1. vol' = before' \/ Cleared'
    BY <1>1, <1>5, <1>7, <1>4, <1>10 DEF Cleared, Removable, Children
  <2>2. RenameInv'
    BY <1>1, <1>2, <1>5, <1>7, <1>10, <2>1 DEF RenameInv
  <2> QED BY <1>6, <1>8, <1>10, <2>2 DEF IInv
<1>11. CASE ~(b \in DOMAIN vol /\ a # b) /\ vol' = Renamed(vol, a, b) /\ pc' = "next" /\ rc' = 1
  <2>1. Swap(vol, a, b)
    BY <1>2, <1>4, <1>6, <1>11 DEF Swap
  <2>2. IsVolume(vol')
    BY <1>11, <2>1, RenamedVolume
  <2>3. \/ (a = b \/ b \notin DOMAIN before) /\ vol' = Renamed(before, a, b)
        \/ /\ op.mode = "overwrite" /\ a # b /\ Removable(before, b)
           /\ vol' = Renamed(Without(before, b), a, b)
    BY <1>4, <1>5, <1>11 DEF Cleared
  <2>4. RenameInv'
    <3>1. op.mode = op'.mode /\ (Removable(before, b))' = Removable(before, b)
      BY <1>1 DEF Removable, Children
    <3> QED BY <1>1, <1>2, <1>5, <1>7, <1>11, <2>3, <3>1 DEF RenameInv
  <2> QED BY <1>8, <1>11, <2>2, <2>4 DEF IInv
<1>12. CASE b \in DOMAIN vol /\ a # b /\ ~(pc = "rename" /\ op.mode = "overwrite")
  BY <1>2, <1>4, <1>10, <1>12 DEF Rename
<1>13. CASE ~(b \in DOMAIN vol /\ a # b)
  BY <1>2, <1>4, <1>10, <1>11, <1>13 DEF Rename
<1> QED BY <1>9, <1>12, <1>13

LEMMA RecaseKeeps ==
    ASSUME IInv, Recase
    PROVE  IInv'
<1>1. /\ pc \in {"recase", "recase2"}
      /\ op' = op /\ todo' = todo /\ item' = item /\ walk' = walk /\ cur' = cur /\ phase' = phase
      /\ how' = how /\ fd' = fd /\ pos' = pos /\ askall' = askall /\ abort' = abort
      /\ before' = before /\ copied' = copied /\ skipped' = skipped /\ unnoticed' = unnoticed
  BY DEF Recase, place, file, ghost
<1>2. /\ Types /\ op \in Ops /\ op.folder = Here
      /\ item.src = Source1 /\ item.dst = Target1 /\ todo = <<>> /\ walk = <<>> /\ copied = {}
      /\ Source1 \in Path /\ Target1 \in Path /\ Source1 # <<>> /\ Target1 # <<>>
      /\ Front(Source1) = Here /\ Front(Target1) = Here
      /\ Count \in DOMAIN op.names
  BY <1>1, OnlyOne
<1>3. op.kind = "recase" /\ Control
  BY <1>1 DEF IInv, Control
<1>4. PICK a, b, t : a = Source1 /\ b = Target1 /\ t = Tmp
  OBVIOUS
<1>5. t \in Path /\ t # <<>> /\ Front(t) = Here
  BY <1>4, FileOpsAssumption, Longer, ChildOf DEF Tmp
<1>6. a \in DOMAIN before /\ (pc = "recase" => vol = before)
      /\ (pc = "recase2" => t \notin DOMAIN before /\ vol = Renamed(before, a, t))
      /\ (vol = before \/ (t \notin DOMAIN before /\ vol = Renamed(before, a, t)))
  BY <1>1, <1>3, <1>4 DEF IInv, RecaseInv, Aside
<1>7. IsVolume(vol) /\ IsVolume(before)
  BY <1>2 DEF Types
<1>8. Source1' = a /\ Target1' = b /\ Tmp = t
  BY <1>1, <1>4 DEF Source1, Target1, Root
<1>9. ASSUME IsVolume(vol'), rc' \in {0, 1}, pc' \in {"recase2", "next"}
      PROVE  Types' /\ Control' /\ Reported' /\ TreeInv' /\ RenameInv'
  <2>1. pc' \in Busy
    BY <1>9 DEF Busy
  <2>2. Types'
    BY <1>1, <1>2, <1>9, <2>1 DEF Types, Count
  <2>3. Control'
    <3>1. Count' = Count /\ Root(Count)' = Root(Count)
      BY <1>1 DEF Count, Root
    <3> QED BY <1>1, <1>2, <1>3, <1>9, <3>1 DEF Control, InTree, InFile
  <2>4. Reported'
    BY <1>1, <1>2 DEF Reported
  <2>5. TreeInv' /\ RenameInv'
    BY <1>1, <1>3 DEF TreeInv, Trees, RenameInv
  <2> QED BY <2>2, <2>3, <2>4, <2>5
<1>10. CASE vol' = vol /\ rc' = 0 /\ pc' = "next"
  <2>1. RecaseInv'
    BY <1>1, <1>2, <1>6, <1>8, <1>10 DEF RecaseInv, Aside
  <2> QED BY <1>7, <1>9, <1>10, <2>1 DEF IInv
<1>11. CASE pc = "recase" /\ t \notin DOMAIN vol /\ vol' = Renamed(vol, a, t) /\ rc' = 1 /\ pc' = "recase2"
  <2>1. vol = before /\ Swap(vol, a, t)
    BY <1>2, <1>4, <1>5, <1>6, <1>7, <1>11 DEF Swap
  <2>2. IsVolume(vol')
    BY <1>11, <2>1, RenamedVolume
  <2>3. RecaseInv'
    BY <1>1, <1>2, <1>6, <1>8, <1>11, <2>1 DEF RecaseInv, Aside
  <2> QED BY <1>9, <1>11, <2>2, <2>3 DEF IInv
<1>12. CASE pc = "recase2" /\ b \notin DOMAIN vol /\ vol' = Renamed(vol, t, b) /\ rc' = 1 /\ pc' = "next"
  <2>1. vol = Renamed(before, a, t) /\ t \notin DOMAIN before
    BY <1>6, <1>12
  <2>2. Swap(before, a, t)
    BY <1>2, <1>4, <1>5, <1>6, <1>7, <2>1 DEF Swap
  <2>3. t \in DOMAIN vol
    <3>1. Under(a, a) /\ a \in Path
      BY <1>2, <1>4, UnderSelf
    <3>2. Moved(a, a, t) = t
      <4>1. /\ Moved(a, a, t) \in Path /\ Len(Moved(a, a, t)) = Len(a) /\ Under(t, Moved(a, a, t))
            /\ Len(t) = Len(a) /\ Len(a) \in Nat
        BY <2>2, <3>1, MovedAt
      <4> QED BY <1>5, <4>1, UnderEq
    <3> QED BY <1>6, <2>1, <2>2, <3>2, RenamedAt
  <2>4. Swap(vol, t, b)
    BY <1>2, <1>4, <1>5, <1>7, <1>12, <2>3 DEF Swap
  <2>5. IsVolume(vol')
    BY <1>12, <2>4, RenamedVolume
  <2>6. RecaseInv'
    BY <1>1, <1>2, <1>6, <1>8, <1>12, <2>1 DEF RecaseInv, Aside
  <2> QED BY <1>9, <1>12, <2>5, <2>6 DEF IInv
<1>13. CASE pc = "recase"
  BY <1>2, <1>4, <1>10, <1>11, <1>13 DEF Recase
<1>14. CASE pc = "recase2"
  BY <1>2, <1>4, <1>10, <1>12, <1>14 DEF Recase
<1> QED BY <1>1, <1>13, <1>14

LEMMA InitHolds == Init => IInv
<1> SUFFICES ASSUME Init  PROVE IInv
  OBVIOUS
<1>1. /\ vol \in Volumes /\ op = NoOp /\ todo = <<>> /\ pc = "idle"
      /\ item = [src |-> Here, dst |-> Here] /\ walk = <<>> /\ cur = item /\ phase = "copy"
      /\ how = "ask" /\ fd = NoFile /\ pos = 0 /\ rc = 1 /\ askall = "ask" /\ abort = FALSE
      /\ before = vol /\ copied = {} /\ skipped = {} /\ unnoticed = {}
  BY DEF Init
<1>2. op.names = <<>> /\ op.kind = "delete" /\ DOMAIN op.names = {}
  BY <1>1, NoOpIs
<1>3. Entries(op) = 0 /\ Count = 0 /\ Len(todo) = 0
  <2>1. Entries(op) = 0 /\ Len(todo) = 0
    BY <1>1, <1>2 DEF Entries
  <2> QED BY <2>1 DEF Count
<1>4. Types
  <2>1. IsVolume(vol) /\ IsVolume(before) /\ Here \in Path
    BY <1>1, FileOpsAssumption
  <2>2. fd \in [open : BOOLEAN, data : Seq(Chunk)]
    <3>1. <<>> \in Seq(Chunk)
      OBVIOUS
    <3> QED BY <1>1, <3>1 DEF NoFile
  <2>3. todo \in Seq(Name) /\ Len(todo) <= Entries(op) /\ walk \in Seq(FrameType)
    BY <1>1, <1>3
  <2>4. todo = SubSeq(op.names, Count + 1, Entries(op))
    <3>1. SubSeq(<<>>, 0 + 1, 0) = <<>>
      OBVIOUS
    <3> QED BY <1>1, <1>2, <1>3, <3>1
  <2>5. how \in Modes
    BY <1>1 DEF Modes
  <2>6. item \in [src : Path, dst : Path] /\ cur \in [src : Path, dst : Path]
    BY <1>1, <2>1
  <2> QED BY <1>1, <2>1, <2>2, <2>3, <2>4, <2>5, <2>6 DEF Types
<1>5. Control
  BY <1>1 DEF Control, InTree, InFile
<1>6. Reported
  BY <1>1 DEF Reported
<1>7. TreeInv
  <2>1. Others
    BY <1>1 DEF Others, Same
  <2>2. Targets /\ Roots
    BY <1>2 DEF Targets, Roots, Copies
  <2>3. File /\ pc \notin InTree
    BY <1>1 DEF File, InTree, InFile
  <2> QED BY <2>1, <2>2, <2>3 DEF TreeInv
<1>8. RenameInv /\ RecaseInv
  BY <1>2 DEF RenameInv, RecaseInv
<1> QED BY <1>4, <1>5, <1>6, <1>7, <1>8 DEF IInv

LEMMA NextKeeps ==
    ASSUME Separate, IInv, [Next]_vars, \A o \in Ops : ~Begin(o)
    PROVE  IInv'
<1>1. CASE UNCHANGED vars
  <2>1. abort \in BOOLEAN
    BY DEF IInv, Types
  <2> QED BY <1>1, <2>1, Unchanged DEF vars
<1>3. ASSUME NEW a \in {"overwrite", "skip", "cancel"}, NEW forall \in BOOLEAN, Answer(a, forall)
      PROVE  IInv'
  BY <1>3, AnswerKeeps
<1>4. CASE NextItem \/ Finish \/ Cancel \/ AfterCopy \/ AfterRemove \/ PowerCut
  BY <1>4, NextItemKeeps, FinishKeeps, CancelKeeps, AfterCopyKeeps, AfterRemoveKeeps, PowerCutKeeps
<1>5. CASE EnterFolder \/ EnterFails \/ Descend \/ ListEnd \/ LeaveFolder \/ RemoveFolder \/ RemoveFile \/ Return
  BY <1>5, EnterFolderKeeps, EnterFailsKeeps, DescendKeeps, ListEndKeeps, LeaveFolderKeeps,
     RemoveFolderKeeps, RemoveFileKeeps, ReturnKeeps
<1>6. CASE Decide \/ Misjudge \/ Skip \/ Open \/ Loop \/ Close \/ Verify
  BY <1>6, DecideKeeps, MisjudgeKeeps, SkipKeeps, OpenKeeps, LoopKeeps, CloseKeeps, VerifyKeeps
<1>7. CASE Rename \/ Recase
  BY <1>7, RenameKeeps, RecaseKeeps
<1> QED BY <1>1, <1>3, <1>4, <1>5, <1>6, <1>7 DEF Next

-----------------------------------------------------------------------------
(* An operation that copies an entry to the place of a folder it lies in may *)
(* undo what it copies; what is left of the invariant is enough for the next *)
(* operation to start from.                                                  *)

Loose ==
    /\ Types
    /\ pc \notin InTree => walk = <<>>
    /\ pc \in {"list", "leave", "rmdir"} => walk # <<>>
    /\ pc = "open" /\ how \in {"append", "resume"} => Clash
    /\ pc \in {"loop", "close"} => Openable
    /\ pc \in {"rename", "again", "recase", "recase2"} => ~Copies

LEMMA Loosened == IInv => Loose
<1> SUFFICES ASSUME IInv  PROVE Loose
  OBVIOUS
<1>1. Types /\ Control
  BY DEF IInv
<1>2. ASSUME pc \in {"loop", "close"}  PROVE Openable
  <2>1. pc \in InFile
    BY <1>2 DEF InFile
  <2>2. pc \in InTree /\ InHand /\ phase = "copy" /\ ~before[cur.src].dir
    BY <2>1, FileIs
  <2>3. PICK s \in Path, d \in Path : s = cur.src /\ d = cur.dst
    BY <2>2, TreeIs
  <2>4. s \in DOMAIN vol /\ vol[s] = before[s] /\ d # <<>>
    BY <2>2, <2>3, HandIs
  <2>5. d \in DOMAIN vol /\ ~vol[d].dir
    BY <1>2, <2>3, OpenIs
  <2>6. IsDir(vol, Front(d))
    <3>1. Front(d) \in Path /\ Under(Front(d), d) /\ Front(d) # d
      BY <2>4, Child
    <3> QED BY <1>1, <2>5, <3>1, Above DEF IsDir, Types
  <2> QED BY <2>2, <2>3, <2>4, <2>5, <2>6 DEF Openable, Creatable, IsDir
<1>3. pc \in {"rename", "again", "recase", "recase2"} => ~Copies
  BY <1>1 DEF Control, Copies
<1>4. pc = "open" /\ how \in {"append", "resume"} => Clash
  <2> SUFFICES ASSUME pc = "open", how \in {"append", "resume"}  PROVE Clash
    OBVIOUS
  <2>1. pc \in InFile
    BY DEF InFile
  <2>2. pc \in InTree /\ InHand /\ phase = "copy" /\ CopyWalk /\ cur.dst \in DOMAIN before
    BY <2>1, FileIs
  <2>3. PICK s \in Path : s = cur.src
    BY <2>2, TreeIs
  <2>4. cur.dst = Goes(op, s) /\ Unmade(s)
    BY <2>2, <2>3, HandIs DEF CopyWalk
  <2> QED BY <2>2, <2>4, UnderSelf DEF Unmade, Same, Clash
<1> QED BY <1>1, <1>2, <1>3, <1>4 DEF Control, Loose

\* A file made or written again.
LEMMA FileMade ==
    ASSUME Types, NEW d \in Path, Creatable(vol, d), NEW x \in Seq(Chunk), vol' = With(vol, d, Written(x))
    PROVE  /\ IsVolume(vol') /\ Creatable(vol', d) /\ d \in DOMAIN vol' /\ ~vol'[d].dir
           /\ \A s \in DOMAIN vol : ~vol[s].dir => s \in DOMAIN vol' /\ ~vol'[s].dir
<1>1. Written(x) \in Node /\ ~Written(x).dir
  BY NodesTyped DEF Written
<1>2. d # <<>>
  <2> SUFFICES ASSUME d = <<>>  PROVE FALSE
    OBVIOUS
  <2>1. Front(d) = d
    BY DEF Front
  <2> QED BY <2>1 DEF Creatable
<1>3. IsVolume(vol')
  BY <1>1, <1>2, WithVolume DEF Creatable, Types
<1>4. Front(d) # d
  BY <1>2, Child
<1>5. /\ DOMAIN vol' = DOMAIN vol \cup {d} /\ vol'[d] = Written(x)
      /\ \A q \in DOMAIN vol : q # d => vol'[q] = vol[q]
  BY DEF With
<1>6. Creatable(vol', d)
  BY <1>1, <1>4, <1>5 DEF Creatable, IsDir
<1> QED BY <1>1, <1>3, <1>5, <1>6

LEMMA LooseWalk ==
    ASSUME Loose, Copies, EnterFolder \/ EnterFails \/ Descend \/ ListEnd
    PROVE  Loose'
<1>1. /\ op' = op /\ todo' = todo /\ item' = item /\ phase' = phase
      /\ copied' = copied /\ skipped' = skipped /\ before' = before
      /\ how' = how /\ fd' = fd /\ pos' = pos /\ askall' = askall /\ abort' = abort
      /\ pc \in {"entry", "list"}
  BY DEF EnterFolder, EnterFails, Descend, ListEnd, file, place, ghost
<1>2. Types /\ op \in Ops /\ IsVolume(vol) /\ cur.src \in Path /\ cur.dst \in Path
  BY RealCopy DEF Loose, Types
<1>3. ASSUME IsVolume(vol'), walk' \in Seq(FrameType), cur' \in [src : Path, dst : Path],
             unnoticed' \subseteq Path, rc' \in {-1, 0, 1, 2},
             pc' \in {"back", "entry", "list", "leave", "rmdir"},
             pc' \in {"list", "leave", "rmdir"} => walk' # <<>>
      PROVE  Loose'
  <2>1. Types'
    BY <1>1, <1>2, <1>3 DEF Types, Busy, Count
  <2> QED BY <1>3, <2>1 DEF Loose, InTree
<1>4. CASE EnterFolder
  <2>1. phase = "copy" => MadeDir(cur.dst)
    BY <1>4 DEF EnterFolder, f_mkdir, MadeDir
  <2>2. phase # "copy" => vol' = vol
    BY <1>4 DEF EnterFolder
  <2>3. IsVolume(vol')
    BY <1>2, <2>1, <2>2, MadeDirIs
  <2>4. walk' \in Seq(FrameType) /\ walk' # <<>>
    BY <1>2, <1>4, FrameOf, WalkGrown DEF EnterFolder
  <2>5. cur' = cur /\ rc' = rc /\ unnoticed' = unnoticed /\ pc' = "list"
    BY <1>4 DEF EnterFolder, ghost
  <2> QED BY <1>2, <1>3, <2>3, <2>4, <2>5 DEF Types
<1>5. CASE EnterFails
  <2>1. phase = "copy" => MadeDir(cur.dst)
    BY <1>5 DEF EnterFails, MadeDir
  <2>2. phase # "copy" => vol' = vol
    BY <1>5 DEF EnterFails
  <2>3. IsVolume(vol')
    BY <1>2, <2>1, <2>2, MadeDirIs
  <2>4. walk' = walk /\ cur' = cur /\ rc' = 0 /\ unnoticed' = unnoticed /\ pc' = "back"
    BY <1>5 DEF EnterFails, place, ghost
  <2> QED BY <1>2, <1>3, <2>3, <2>4 DEF Types
<1>6. CASE Descend
  <2>1. pc = "list" /\ vol' = vol /\ unnoticed' = unnoticed /\ walk # <<>>
    BY <1>6 DEF Descend, ghost, Loose
  <2>2. top.src \in Path /\ top.dst \in Path
    BY <1>2, <2>1, WalkIs
  <2>3. PICK q \in Children(vol, top.src) \ top.seen :
          IF phase = "remove" /\ abort
          THEN rc' = -1 /\ walk' = <<>> /\ pc' = "back" /\ UNCHANGED cur
          ELSE /\ walk' = [walk EXCEPT ![Len(walk)].seen = @ \cup {q}]
               /\ cur' = [src |-> q, dst |-> Append(top.dst, Last(q))]
               /\ pc' = "entry" /\ UNCHANGED rc
    BY <1>6 DEF Descend
  <2>4. CASE phase = "remove" /\ abort
    <3>1. walk' \in Seq(FrameType)
      BY <2>3, <2>4
    <3> QED BY <1>2, <1>3, <2>1, <2>3, <2>4, <3>1 DEF Types
  <2>5. CASE ~(phase = "remove" /\ abort)
    <3>1. /\ walk' = [walk EXCEPT ![Len(walk)].seen = @ \cup {q}]
          /\ cur' = [src |-> q, dst |-> Append(top.dst, Last(q))]
          /\ pc' = "entry" /\ rc' = rc
      BY <2>3, <2>5
    <3>2. q \in Path /\ q # <<>>
      BY <1>2, <2>3, NodeAt DEF Children
    <3>3. Append(top.dst, Last(q)) \in Path
      BY <2>2, <3>2, Child, Longer
    <3>4. walk' \in Seq(FrameType)
      BY <1>2, <2>1, <3>1, <3>2, WalkSeen
    <3> QED BY <1>2, <1>3, <2>1, <3>1, <3>2, <3>3, <3>4 DEF Types
  <2> QED BY <2>4, <2>5
<1>7. CASE ListEnd
  <2>1. /\ pc = "list" /\ vol' = vol /\ walk' = walk /\ walk # <<>> /\ cur' = cur /\ rc' = 1
        /\ pc' \in {"leave", "rmdir"}
        /\ unnoticed' = unnoticed \/ unnoticed' = unnoticed \cup {top.src}
    BY <1>7 DEF ListEnd, place, Loose
  <2>2. top.src \in Path
    BY <1>2, <2>1, WalkIs
  <2>3. unnoticed' \subseteq Path
    BY <1>2, <2>1, <2>2 DEF Types
  <2> QED BY <1>2, <1>3, <2>1, <2>3 DEF Types
<1> QED BY <1>4, <1>5, <1>6, <1>7

LEMMA LooseBack ==
    ASSUME Loose, Copies, LeaveFolder \/ RemoveFolder \/ RemoveFile \/ Return
    PROVE  Loose'
<1>1. /\ op' = op /\ todo' = todo /\ item' = item /\ phase' = phase /\ cur' = cur
      /\ copied' = copied /\ skipped' = skipped /\ before' = before /\ unnoticed' = unnoticed
      /\ how' = how /\ fd' = fd /\ pos' = pos /\ askall' = askall /\ abort' = abort
      /\ pc' \in {"back", "list"}
  BY DEF LeaveFolder, RemoveFolder, RemoveFile, Return, file, place, ghost
<1>2. Types /\ op \in Ops /\ IsVolume(vol) /\ rc \in {-1, 0, 1, 2} /\ walk \in Seq(FrameType)
  BY RealCopy DEF Loose, Types
<1>3. walk # <<>> => Front(walk) \in Seq(FrameType)
  BY <1>2 DEF Front
<1>4. /\ walk' \in Seq(FrameType) /\ (pc' = "list" => walk' # <<>>)
      /\ rc' \in {-1, 0, 1, 2}
      /\ Unlinked(top.src) \/ Unlinked(cur.src)
  <2>1. CASE LeaveFolder
    BY <1>2, <1>3, <2>1 DEF LeaveFolder, Unlinked, Loose
  <2>2. CASE RemoveFolder
    BY <1>2, <1>3, <2>2 DEF RemoveFolder, f_unlink, Unlinked, Loose
  <2>3. CASE RemoveFile
    BY <1>2, <2>3 DEF RemoveFile, f_unlink, Unlinked, place
  <2>4. CASE Return
    BY <1>2, <1>3, <2>4 DEF Return, Unlinked
  <2> QED BY <2>1, <2>2, <2>3, <2>4
<1>5. IsVolume(vol')
  BY <1>2, <1>4, UnlinkedIs
<1>6. Types'
  BY <1>1, <1>2, <1>4, <1>5 DEF Types, Busy, Count
<1> QED BY <1>1, <1>4, <1>6 DEF Loose, InTree

LEMMA LooseFile ==
    ASSUME Loose, Copies,
           \/ \E a \in {"overwrite", "skip", "cancel"}, forall \in BOOLEAN : Answer(a, forall)
           \/ Decide \/ Misjudge \/ Skip \/ Open \/ Loop \/ Close \/ Verify
    PROVE  Loose'
<1>1. /\ op' = op /\ todo' = todo /\ item' = item /\ walk' = walk /\ cur' = cur /\ phase' = phase
      /\ abort' = abort /\ before' = before
      /\ pc' \in {"back", "open", "loop", "close", "verify"}
  BY DEF Answer, Decide, Misjudge, Skip, Open, Loop, Close, Verify, place, ghost
<1>2. Types /\ op \in Ops /\ op.mode \in Modes /\ IsVolume(vol) /\ how \in Modes
      /\ copied \subseteq ReportType /\ fd.data \in Seq(Chunk)
  BY RealCopy, ModeIs DEF Loose, Types
<1>3. PICK s \in Path, d \in Path : s = cur.src /\ d = cur.dst
  BY <1>2 DEF Types
<1>4. Report \in ReportType
  BY <1>2 DEF Report, ReportType, Types
<1>5. NoFile \in [open : BOOLEAN, data : Seq(Chunk)]
  <2>1. <<>> \in Seq(Chunk)
    OBVIOUS
  <2> QED BY <2>1 DEF NoFile
<1>6. ASSUME IsVolume(vol'), how' \in Modes, fd' \in [open : BOOLEAN, data : Seq(Chunk)], pos' \in Nat,
             rc' \in {-1, 0, 1, 2}, askall' \in {"ask", "overwrite", "skip"},
             copied' \subseteq ReportType, skipped' \subseteq Path, unnoticed' \subseteq Path,
             pc' = "open" /\ how' \in {"append", "resume"} => Clash,
             pc' \in {"loop", "close"} => Openable'
      PROVE  Loose'
  <2>1. Types'
    BY <1>1, <1>2, <1>6 DEF Types, Busy, Count
  <2>2. pc' = "open" => vol' = vol
    BY DEF Answer, Decide, Misjudge, Skip, Open, Loop, Close, Verify
  <2> QED BY <1>1, <1>6, <2>1, <2>2 DEF Loose, InTree, InFile, Clash
<1>7. CASE \E a \in {"overwrite", "skip", "cancel"}, forall \in BOOLEAN : Answer(a, forall)
  <2>1. PICK a \in {"overwrite", "skip", "cancel"}, forall \in BOOLEAN : Answer(a, forall)
    BY <1>7
  <2>2. /\ vol' = vol /\ fd' = fd /\ pos' = pos /\ copied' = copied /\ skipped' = skipped
        /\ unnoticed' = unnoticed /\ pc' \in {"back", "open"}
        /\ rc' \in {-1, rc} /\ how' \in {how, a} /\ askall' \in {askall, a}
        /\ a = "cancel" => how' = how /\ askall' = askall /\ pc' = "back"
        /\ a # "cancel" => how' = a
    BY <2>1 DEF Answer, ghost
  <2>3. how' \in Modes /\ askall' \in {"ask", "overwrite", "skip"} /\ rc' \in {-1, 0, 1, 2}
    BY <1>2, <2>2 DEF Modes, Types, Loose
  <2> QED BY <1>2, <1>6, <2>2, <2>3 DEF Types
<1>8. CASE Decide \/ Misjudge
  <2>1. /\ vol' = vol /\ fd' = fd /\ pos' = pos /\ rc' = rc /\ askall' = askall /\ copied' = copied
        /\ skipped' = skipped /\ pc' = "open" /\ how' \in {"overwrite", askall, op.mode}
        /\ unnoticed' \in {unnoticed, unnoticed \cup {cur.dst}}
        /\ how' \in {"append", "resume"} => Clash
    BY <1>8 DEF Decide, Misjudge, ghost
  <2>2. how' \in Modes /\ unnoticed' \subseteq Path
    BY <1>2, <1>3, <2>1 DEF Modes, Types
  <2> QED BY <1>2, <1>6, <2>1, <2>2 DEF Types
<1>9. CASE Skip
  <2>1. /\ vol' = vol /\ how' = how /\ fd' = fd /\ pos' = pos /\ rc' = 2 /\ askall' = askall
        /\ copied' = copied /\ unnoticed' = unnoticed /\ skipped' = skipped \cup {cur.src} /\ pc' = "back"
    BY <1>9 DEF Skip, file
  <2> QED BY <1>2, <1>3, <1>6, <2>1 DEF Types
<1>10. CASE Open
  <2>1. /\ how' = how /\ askall' = askall /\ copied' = copied /\ skipped' = skipped /\ unnoticed' = unnoticed
    BY <1>10 DEF Open, ghost
  <2>2. CASE rc' = 0 /\ pc' = "back" /\ fd' = fd /\ vol' = vol /\ pos' = pos
    BY <1>2, <1>6, <2>1, <2>2 DEF Types
  <2>3. CASE /\ Openable /\ pos' = StartAt /\ pc' = "loop" /\ rc' = rc
             /\ IF how \in {"append", "resume"}
                THEN fd' = [open |-> TRUE, data |-> vol[cur.dst].data] /\ vol' = vol
                ELSE fd' = [open |-> TRUE, data |-> <<>>] /\ vol' = With(vol, cur.dst, Written(<<>>))
    <3>1. Openable /\ s \in DOMAIN vol /\ ~vol[s].dir /\ Creatable(vol, d)
      BY <1>3, <2>3 DEF Openable
    <3>2. <<>> \in Seq(Chunk)
      OBVIOUS
    <3>3. \A x \in Seq(Chunk) : [open |-> TRUE, data |-> x] \in [open : BOOLEAN, data : Seq(Chunk)]
      OBVIOUS
    <3>4. how \in {"append", "resume"} => d \in DOMAIN vol
      BY <1>3, <1>10 DEF Open, Loose, Clash
    <3>5. pos' \in Nat
      <4>1. d \in DOMAIN vol => Len(vol[d].data) \in Nat
        <5>1. d \in DOMAIN vol => vol[d].data \in Seq(Chunk)
          BY <1>2, NodeAt
        <5> QED BY <5>1
      <4> QED BY <1>3, <2>3, <3>4, <4>1 DEF StartAt
    <3>6. CASE how \in {"append", "resume"}
      <4>1. vol' = vol /\ fd' \in [open : BOOLEAN, data : Seq(Chunk)]
        BY <1>2, <1>3, <2>3, <3>3, <3>4, <3>6, NodeAt
      <4>2. Openable'
        BY <1>1, <3>1, <4>1 DEF Openable
      <4> QED BY <1>2, <1>6, <2>1, <2>3, <3>5, <4>1, <4>2 DEF Types
    <3>7. CASE how \notin {"append", "resume"}
      <4>1. vol' = With(vol, d, Written(<<>>)) /\ fd' \in [open : BOOLEAN, data : Seq(Chunk)]
        BY <1>3, <2>3, <3>2, <3>3, <3>7
      <4>2. /\ IsVolume(vol') /\ Creatable(vol', d)
            /\ \A q \in DOMAIN vol : ~vol[q].dir => q \in DOMAIN vol' /\ ~vol'[q].dir
        BY <1>2, <3>1, <3>2, <4>1, FileMade
      <4>3. Openable'
        BY <1>1, <1>3, <3>1, <4>2 DEF Openable
      <4> QED BY <1>2, <1>6, <2>1, <2>3, <3>5, <4>1, <4>2, <4>3 DEF Types
    <3> QED BY <3>6, <3>7
  <2> QED BY <1>10, <2>2, <2>3 DEF Open
<1>11. CASE Loop
  <2>1. /\ vol' = vol /\ how' = how /\ askall' = askall /\ copied' = copied /\ skipped' = skipped
        /\ unnoticed' = unnoticed /\ pc' # "open" /\ Openable
        /\ \/ rc' \in {-1, 0, 1} /\ fd' = fd /\ pos' = pos
           \/ /\ rc' = rc /\ pos < Len(vol[cur.src].data) /\ pos' = pos + 1
              /\ fd' = [fd EXCEPT !.data = Append(@, vol[cur.src].data[pos + 1])]
    BY <1>11 DEF Loop, ghost, Loose
  <2>2. Openable'
    BY <1>1, <2>1 DEF Openable
  <2>3. fd' \in [open : BOOLEAN, data : Seq(Chunk)] /\ pos' \in Nat /\ rc' \in {-1, 0, 1, 2}
    <3>1. fd \in [open : BOOLEAN, data : Seq(Chunk)] /\ pos \in Nat /\ rc \in {-1, 0, 1, 2}
      BY <1>2 DEF Types
    <3>2. PICK x \in Seq(Chunk) : x = vol[cur.src].data
      BY <1>2, <2>1, NodeAt DEF Openable
    <3>3. CASE pos < Len(x) /\ pos' = pos + 1 /\ fd' = [fd EXCEPT !.data = Append(@, x[pos + 1])]
      <4>1. x[pos + 1] \in Chunk
        BY <3>1, <3>2, <3>3
      <4>2. Append(fd.data, x[pos + 1]) \in Seq(Chunk)
        BY <1>2, <4>1
      <4>3. fd' \in [open : BOOLEAN, data : Seq(Chunk)]
        BY <3>1, <3>3, <4>2
      <4> QED BY <2>1, <3>1, <3>3, <4>3
    <3> QED BY <2>1, <3>1, <3>2, <3>3
  <2> QED BY <1>2, <1>6, <2>1, <2>2, <2>3 DEF Types
<1>12. CASE Close
  <2>1. /\ how' = how /\ askall' = askall /\ skipped' = skipped /\ pos' = pos /\ rc' = rc
        /\ fd' = NoFile /\ pc' \in {"verify", "back"}
        /\ copied' \in {copied, copied \cup {Report}} /\ Openable
        /\ unnoticed' \in {unnoticed, unnoticed \cup {cur.src}}
        /\ vol' = vol \/ vol' = With(vol, cur.dst, Written(fd.data))
    BY <1>12 DEF Close, Loose
  <2>2. IsVolume(vol')
    BY <1>2, <1>3, <2>1, FileMade DEF Openable
  <2>3. copied' \subseteq ReportType /\ unnoticed' \subseteq Path
    BY <1>2, <1>3, <1>4, <2>1 DEF Types
  <2> QED BY <1>2, <1>5, <1>6, <2>1, <2>2, <2>3 DEF Types
<1>13. CASE Verify
  <2>1. /\ vol' = vol /\ how' = how /\ fd' = fd /\ pos' = pos /\ askall' = askall
        /\ skipped' = skipped /\ unnoticed' = unnoticed /\ pc' = "back"
        /\ rc' \in {-1, 0, 1} /\ copied' \in {copied, copied \cup {Report}}
    BY <1>13 DEF Verify, file
  <2>2. copied' \subseteq ReportType
    BY <1>2, <1>4, <2>1
  <2> QED BY <1>2, <1>6, <2>1, <2>2 DEF Types
<1> QED BY <1>7, <1>8, <1>9, <1>10, <1>11, <1>12, <1>13

LEMMA LooseNext ==
    ASSUME Loose, Copies, NextItem \/ Finish \/ AfterCopy \/ AfterRemove \/ Cancel \/ PowerCut \/ UNCHANGED vars
    PROVE  Loose'
<1>1. /\ vol' = vol /\ op' = op /\ how' = how /\ pos' = pos /\ rc' = rc /\ askall' = askall
      /\ before' = before /\ copied' = copied /\ skipped' = skipped /\ unnoticed' = unnoticed
  BY DEF NextItem, Finish, AfterCopy, AfterRemove, Cancel, PowerCut, vars, place, file, ghost
<1>2. Types /\ op \in Ops
  BY RealCopy DEF Loose
<1>3. NoFile \in [open : BOOLEAN, data : Seq(Chunk)]
  <2>1. <<>> \in Seq(Chunk)
    OBVIOUS
  <2> QED BY <2>1 DEF NoFile
<1>4. ASSUME pc' \in {"idle", "next", "entry"}, walk' = <<>>, abort' \in BOOLEAN, fd' \in {fd, NoFile},
             item' \in [src : Path, dst : Path], cur' \in [src : Path, dst : Path], phase' \in {"copy", "remove"},
             todo' \in Seq(Name), Len(todo') <= Entries(op), todo' = SubSeq(op.names, Count' + 1, Entries(op))
      PROVE  Loose'
  <2>1. walk' \in Seq(FrameType) /\ fd' \in [open : BOOLEAN, data : Seq(Chunk)]
    BY <1>2, <1>3, <1>4 DEF Types
  <2>2. Types'
    BY <1>1, <1>2, <1>4, <2>1 DEF Types, Busy
  <2> QED BY <1>4, <2>2 DEF Loose, InTree
<1>5. CASE NextItem
  <2>1. /\ pc = "next" /\ todo # <<>> /\ todo' = Tail(todo) /\ item' = ItemOf(Head(todo)) /\ cur' = item'
        /\ phase' \in {"copy", "remove"} /\ pc' \in {"next", "entry"} /\ walk' = walk /\ fd' = fd /\ abort' = abort
    BY <1>5 DEF NextItem, file, Copies
  <2>2. walk = <<>>
    BY <2>1 DEF Loose, InTree, InFile
  <2>3. /\ Count \in Nat /\ Count' = Count + 1 /\ Count' \in DOMAIN op.names
        /\ Head(todo) = op.names[Count + 1]
        /\ todo' \in Seq(Name) /\ Len(todo') <= Entries(op)
        /\ todo' = SubSeq(op.names, Count' + 1, Entries(op))
    BY <1>1, <1>2, <2>1, NextIs
  <2>4. PICK n \in DOMAIN op.names : n = Count'
    BY <2>3
  <2>5. item' = [src |-> Root(n), dst |-> DstOf(op, n)]
    <3>1. item' = ItemOf(op.names[n])
      BY <2>1, <2>3, <2>4
    <3> QED BY <1>1, <3>1, ItemIs
  <2>6. item' \in [src : Path, dst : Path]
    BY <1>2, <2>5, RootPath
  <2> QED BY <1>2, <1>4, <2>1, <2>2, <2>3, <2>6 DEF Types
<1>6. CASE Finish \/ AfterCopy \/ AfterRemove \/ PowerCut
  <2>1. /\ todo' \in {todo, <<>>} /\ item' = item /\ cur' \in {cur, item}
        /\ phase' \in {phase, "remove"} /\ fd' \in {fd, NoFile} /\ abort' = abort
        /\ pc' \in {"idle", "next", "entry"}
    BY <1>6 DEF Finish, AfterCopy, AfterRemove, PowerCut, place, file
  <2>2. walk' = <<>>
    <3>1. CASE Finish
      BY <3>1 DEF Finish, place, Loose, InTree, InFile
    <3>2. CASE AfterCopy \/ AfterRemove \/ PowerCut
      BY <3>2 DEF AfterCopy, AfterRemove, PowerCut, Top, place
    <3> QED BY <1>6, <3>1, <3>2
  <2>3. /\ todo' \in Seq(Name) /\ Len(todo') <= Entries(op)
        /\ todo' = SubSeq(op.names, Count' + 1, Entries(op))
    BY <1>1, <1>2, <2>1, TodoCut
  <2> QED BY <1>2, <1>4, <2>1, <2>2, <2>3 DEF Types
<1>7. CASE Cancel \/ UNCHANGED vars
  <2>1. /\ pc' = pc /\ todo' = todo /\ item' = item /\ walk' = walk /\ cur' = cur /\ phase' = phase
        /\ fd' = fd /\ abort' \in {TRUE, abort}
    BY <1>7 DEF Cancel, vars, place, file
  <2>2. Types'
    BY <1>1, <1>2, <2>1 DEF Types, Count
  <2> QED BY <1>1, <2>1, <2>2 DEF Loose, Openable, Clash, Copies
<1> QED BY <1>5, <1>6, <1>7

-----------------------------------------------------------------------------
(* The invariant of every run, whatever its operations. *)
J == Loose /\ (Separate => IInv)

LEMMA LoosenedToo == IInv' => Loose'
BY Loosened, PTL

LEMMA StepKeeps ==
    ASSUME J, [Next]_vars, \A o \in Ops : ~Begin(o)
    PROVE  J'
<1>1. op' = op
  BY DEF Next, NextItem, Finish, Cancel, EnterFolder, EnterFails, Descend, ListEnd, LeaveFolder,
         RemoveFolder, RemoveFile, Return, Answer, Decide, Misjudge, Skip, Open, Loop, Close, Verify,
         AfterCopy, AfterRemove, Rename, Recase, PowerCut, vars
<1>2. Separate' <=> Separate
  BY <1>1 DEF Separate, ItemOf
<1>3. CASE Separate
  BY <1>2, <1>3, NextKeeps, LoosenedToo DEF J
<1>4. CASE ~Separate
  <2>1. Loose /\ Copies
    BY <1>4 DEF J, Separate, Copies
  <2>2. ~Rename /\ ~Recase
    BY <2>1 DEF Rename, Recase, Loose
  <2>3. Loose'
    BY <2>1, <2>2, LooseWalk, LooseBack, LooseFile, LooseNext DEF Next
  <2> QED BY <1>2, <1>4, <2>3 DEF J
<1> QED BY <1>3, <1>4

LEMMA JKeeps == J /\ [Next]_vars => J'
<1> SUFFICES ASSUME J, [Next]_vars  PROVE J'
  OBVIOUS
<1>1. ASSUME NEW o \in Ops, Begin(o)  PROVE J'
  <2>1. Types /\ pc = "idle" /\ walk = <<>>
    BY <1>1 DEF J, Loose, Begin, InTree, InFile
  <2>2. IInv'
    BY <1>1, <2>1, BeginKeeps
  <2> QED BY <2>2, LoosenedToo DEF J
<1> QED BY <1>1, StepKeeps

-----------------------------------------------------------------------------
(* What the invariant says to the user. *)

LEMMA TellsCopied == IInv => CopiedTrue
BY DEF IInv, Reported, Right, Delivered, CopiedTrue

LEMMA HoldsSame ==
    ASSUME NEW p \in DOMAIN before, ~before[p].dir, Same(p)
    PROVE  Holds(p, before[p].data)
BY DEF Same, Holds

LEMMA ResultPlain ==
    \A m, o, x : m \notin {"append", "resume"} => Result(m, o, x) = x
BY DEF Result

\* A reported file of a move is what Kept asks for.
LEMMA ReportKept ==
    ASSUME IInv, op.kind = "move", NEW p \in DOMAIN before, ~before[p].dir,
           NEW c \in copied, c.src = p, p \notin unnoticed
    PROVE  Kept(p)
<1>1. Right(c)
  BY DEF IInv, Reported
<1>2. PICK g : g = Goes(op, p)
  OBVIOUS
<1>3. c.dst = g /\ HowRight(c.how, g) /\ (c.how = "skip" => g \notin DOMAIN before) /\ Delivered(c)
  BY <1>1, <1>2 DEF Right
<1>4. TargetOf(p) = g
  BY <1>2 DEF TargetOf, Goes
<1>5. Holds(g, Result(IF g \in DOMAIN before THEN c.how ELSE "overwrite", DataBefore(g), before[p].data))
  BY <1>3 DEF Delivered, DataBefore
<1>6. CASE g \in DOMAIN before /\ c.how = op.mode
  BY <1>4, <1>5, <1>6 DEF Kept
<1>7. CASE ~(g \in DOMAIN before /\ c.how = op.mode)
  <2>1. g \in DOMAIN before => c.how = "overwrite"
    BY <1>3, <1>7 DEF HowRight
  <2>2. Holds(g, before[p].data)
    BY <1>5, <2>1, ResultPlain
  <2> QED BY <1>4, <2>2 DEF Kept
<1> QED BY <1>6, <1>7

Safe(p) ==
    \/ Selected(p) /\ (op.kind = "delete" \/ Kept(p) \/ p \in skipped)
    \/ Targeted(p) /\ Replaceable(p)
    \/ Holds(p, before[p].data)
    \/ \E u \in unnoticed : Under(u, p)

LEMMA TreeSafe ==
    ASSUME IInv, Trees, NEW p \in DOMAIN before, ~before[p].dir
    PROVE  Safe(p)
<1>1. Types /\ Others /\ Targets /\ Roots
  BY DEF IInv, TreeInv
<1>2. p \in Path
  BY <1>1, NodeAt DEF Types
<1>3. (Chosen(op, p) <=> Selected(p)) /\ (Aimed(p) <=> Targeted(p))
  BY DEF Chosen, Selected, Aimed, Targeted, RootOf, DstOf, ItemOf
<1>4. CASE Chosen(op, p) /\ op.kind # "delete"
  <2>1. PICK i \in DOMAIN op.names : Under(Root(i), p)
    BY <1>1, <1>4, ChosenIs
  <2>2. i > Count \/ i <= Count
    BY <1>1, Places
  <2>3. Intact(Root(i)) \/ (op.kind = "move" /\ AllDone(Root(i)))
    BY <1>1, <1>4, <2>2 DEF Roots
  <2>4. CASE Intact(Root(i))
    <3>1. Same(p)
      BY <1>2, <2>1, <2>4 DEF Intact
    <3> QED BY <3>1, HoldsSame DEF Safe
  <2>5. CASE op.kind = "move" /\ AllDone(Root(i))
    <3>1. Done(p)
      BY <2>1, <2>5 DEF AllDone
    <3>2. CASE p \in skipped
      BY <1>3, <1>4, <3>2 DEF Safe
    <3>3. CASE \E u \in unnoticed : Under(u, p)
      BY <3>3 DEF Safe
    <3>4. ASSUME NEW c \in copied, c.src = p  PROVE Safe(p)
      <4>1. CASE p \in unnoticed
        BY <1>2, <4>1, UnderSelf DEF Safe
      <4>2. CASE p \notin unnoticed
        BY <1>3, <1>4, <2>5, <3>4, <4>2, ReportKept DEF Safe
      <4> QED BY <4>1, <4>2
    <3> QED BY <3>1, <3>2, <3>3, <3>4 DEF Done
  <2> QED BY <2>3, <2>4, <2>5
<1>5. CASE Chosen(op, p) /\ op.kind = "delete"
  BY <1>3, <1>5 DEF Safe
<1>6. CASE ~Chosen(op, p) /\ Copies /\ Aimed(p)
  <2>1. Same(p) \/ Replaceable(p) \/ p \in unnoticed
    BY <1>1, <1>6 DEF Targets
  <2> QED BY <1>2, <1>3, <1>6, <2>1, HoldsSame, UnderSelf DEF Safe
<1>7. CASE ~Chosen(op, p) /\ ~(Copies /\ Aimed(p))
  <2>1. Same(p)
    BY <1>1, <1>7 DEF Others
  <2> QED BY <2>1, HoldsSame DEF Safe
<1> QED BY <1>4, <1>5, <1>6, <1>7

-----------------------------------------------------------------------------

LEMMA MovedGoes ==
    ASSUME NEW o \in Ops, o.kind \in {"rename", "recase"}, NEW p \in Path, Under(RootOf(o, 1), p)
    PROVE  Goes(o, p) = Moved(p, RootOf(o, 1), DstOf(o, 1)) /\ Chosen(o, p) /\ 1 \in DOMAIN o.names
<1>1. PICK n \in Nat : n = Len(o.names) /\ n = 1 /\ DOMAIN o.names = 1 .. n
  BY OpParts
<1>2. 1 \in DOMAIN o.names
  BY <1>1
<1>3. /\ Len(RootOf(o, 1)) = Len(Here) + 1 /\ Len(Here) \in Nat /\ p[Len(Here) + 1] = o.names[1]
  <2>1. Len(RootOf(o, 1)) = Len(Here) + 1 /\ Len(Here) \in Nat
    BY <1>2, RootAt, OpParts
  <2>2. PICK i \in DOMAIN o.names : i = 1
    BY <1>2
  <2>3. p[Len(Here) + 1] = o.names[i]
    BY <2>2, InAt
  <2> QED BY <2>1, <2>2, <2>3
<1>4. Len(RootOf(o, 1)) + 1 = Len(Here) + 2
  BY <1>3
<1>5. Goes(o, p) = DstOf(o, 1) \o SubSeq(p, Len(Here) + 2, Len(p))
  BY <1>3 DEF Goes, DstOf
<1>6. Moved(p, RootOf(o, 1), DstOf(o, 1)) = DstOf(o, 1) \o SubSeq(p, Len(Here) + 2, Len(p))
  BY <1>4 DEF Moved
<1> QED BY <1>2, <1>5, <1>6 DEF Chosen

\* A renaming: what lies in the entry is found where it went, all else stays.
LEMMA RenamedHolds ==
    ASSUME NEW v, NEW a, NEW b, Swap(v, a, b), vol = Renamed(v, a, b),
           NEW p \in DOMAIN v, ~v[p].dir
    PROVE  /\ Holds(Moved(p, a, b), v[p].data)
           /\ ~Under(a, p) => Holds(p, v[p].data)
BY RenamedAt, MovedStays DEF Holds

LEMMA OneEntry ==
    ASSUME IInv, op.kind \in {"rename", "recase"}
    PROVE  /\ op \in Ops /\ 1 \in DOMAIN op.names /\ IsVolume(before)
           /\ Source1 \in Path /\ Target1 \in Path /\ Source1 # <<>> /\ Target1 # <<>>
           /\ Front(Source1) = Here /\ Front(Target1) = Here
           /\ Tmp \in Path /\ Tmp # <<>> /\ Front(Tmp) = Here
           /\ Source1 \in DOMAIN before
           /\ \A p : /\ Under(Source1, p) => Selected(p)
                     /\ Under(Target1, p) => Targeted(p)
           /\ \A p \in Path : Under(Source1, p) => TargetOf(p) = Moved(p, Source1, Target1)
<1>1. op \in Ops
  <2>1. CASE op = NoOp
    BY <2>1, NoOpIs
  <2> QED BY <2>1 DEF IInv, Types
<1>2. PICK n \in Nat : n = Len(op.names) /\ n = 1 /\ DOMAIN op.names = 1 .. n /\ op.folder = Here
  BY <1>1, OpParts
<1>3. 1 \in DOMAIN op.names
  BY <1>2
<1>4. /\ Source1 \in Path /\ Target1 \in Path /\ Source1 # <<>> /\ Target1 # <<>>
      /\ Front(Source1) = Here /\ Front(Target1) = Here
  BY <1>1, <1>2, <1>3, RootAt, DstAt DEF Source1, Target1, Root
<1>5. Tmp \in Path /\ Tmp # <<>> /\ Front(Tmp) = Here
  BY FileOpsAssumption, Longer, ChildOf DEF Tmp
<1>6. Source1 \in DOMAIN before /\ IsVolume(before)
  BY DEF IInv, RenameInv, RecaseInv, Types
<1>7. \A p : (Under(Source1, p) => Selected(p)) /\ (Under(Target1, p) => Targeted(p))
  BY <1>3 DEF Source1, Target1, Root, RootOf, DstOf, Selected, Targeted, ItemOf
<1>8. ASSUME NEW p \in Path, Under(Source1, p)  PROVE TargetOf(p) = Moved(p, Source1, Target1)
  <2>1. Goes(op, p) = Moved(p, Source1, Target1)
    BY <1>1, <1>8, MovedGoes DEF Source1, Target1, Root
  <2>2. TargetOf(p) = Goes(op, p)
    BY DEF TargetOf, Goes
  <2> QED BY <2>1, <2>2
<1> QED BY <1>1, <1>3, <1>4, <1>5, <1>6, <1>7, <1>8

LEMMA RenameSafe ==
    ASSUME IInv, op.kind = "rename", NEW p \in DOMAIN before, ~before[p].dir
    PROVE  Safe(p)
<1>1. PICK a \in Path, b \in Path : a = Source1 /\ b = Target1
  BY OneEntry
<1>2. /\ IsVolume(before) /\ a # <<>> /\ b # <<>> /\ Front(a) = Front(b) /\ a \in DOMAIN before
      /\ \A q : (Under(a, q) => Selected(q)) /\ (Under(b, q) => Targeted(q))
      /\ \A q \in Path : Under(a, q) => TargetOf(q) = Moved(q, a, b)
  BY <1>1, OneEntry
<1>3. p \in Path
  BY <1>2, NodeAt
<1>4. \/ vol = before \/ Cleared
      \/ (a = b \/ b \notin DOMAIN before) /\ vol = Renamed(before, a, b)
      \/ /\ op.mode = "overwrite" /\ a # b /\ Removable(before, b)
         /\ vol = Renamed(Without(before, b), a, b)
  BY <1>1 DEF IInv, RenameInv
<1>5. CASE vol = before
  BY <1>5 DEF Safe, Holds
<1>6. ASSUME op.mode = "overwrite", p = b  PROVE Safe(p)
  <2>1. Targeted(p)
    BY <1>2, <1>6, UnderSelf
  <2> QED BY <1>6, <2>1 DEF Safe, Replaceable
<1>7. DOMAIN Without(before, b) = DOMAIN before \ {b}
      /\ \A q \in DOMAIN before : q # b => Without(before, b)[q] = before[q]
  BY WithoutAt
<1>8. CASE Cleared
  <2>1. op.mode = "overwrite" /\ vol = Without(before, b)
    BY <1>1, <1>8 DEF Cleared
  <2>2. CASE p # b
    BY <1>7, <2>1, <2>2 DEF Safe, Holds
  <2> QED BY <1>6, <2>1, <2>2
<1>9. ASSUME Under(a, p), Holds(Moved(p, a, b), before[p].data),
             op.mode = "overwrite" \/ Moved(p, a, b) \notin DOMAIN before
      PROVE  Safe(p)
  <2>1. TargetOf(p) = Moved(p, a, b)
    BY <1>2, <1>3, <1>9
  <2>2. PICK g : g = Moved(p, a, b)
    OBVIOUS
  <2>3. (IF g \in DOMAIN before THEN op.mode ELSE "overwrite") = "overwrite"
    BY <1>9, <2>2
  <2>4. Result(IF g \in DOMAIN before THEN op.mode ELSE "overwrite", DataBefore(g), before[p].data)
          = before[p].data
    BY <2>3, ResultPlain
  <2>5. Kept(p)
    BY <1>9, <2>1, <2>2, <2>4 DEF Kept
  <2> QED BY <1>2, <1>9, <2>5 DEF Safe
<1>10. CASE (a = b \/ b \notin DOMAIN before) /\ vol = Renamed(before, a, b)
  <2>1. Swap(before, a, b)
    BY <1>2, <1>10 DEF Swap
  <2>2. Holds(Moved(p, a, b), before[p].data) /\ (~Under(a, p) => Holds(p, before[p].data))
    BY <1>10, <2>1, RenamedHolds
  <2>3. CASE a = b
    <3>1. Moved(p, a, b) = p
      BY <1>3, <2>1, <2>3, MovedSame
    <3> QED BY <2>2, <3>1 DEF Safe
  <2>4. CASE ~Under(a, p)
    BY <2>2, <2>4 DEF Safe
  <2>5. CASE b \notin DOMAIN before /\ Under(a, p)
    <3>1. Moved(p, a, b) \in Path /\ Under(b, Moved(p, a, b))
      BY <1>3, <2>1, <2>5, MovedAt
    <3>2. Moved(p, a, b) \notin DOMAIN before
      BY <1>2, <2>5, <3>1, AboveToo
    <3> QED BY <1>9, <2>2, <2>5, <3>2
  <2> QED BY <1>10, <2>3, <2>4, <2>5
<1>11. CASE /\ op.mode = "overwrite" /\ a # b /\ Removable(before, b)
            /\ vol = Renamed(Without(before, b), a, b)
  <2>1. PICK w : w = Without(before, b)
    OBVIOUS
  <2>2. IsVolume(w)
    BY <1>2, <1>11, <2>1, WithoutVolume
  <2>3. Swap(w, a, b)
    BY <1>2, <1>7, <1>11, <2>1, <2>2 DEF Swap
  <2>4. CASE p = b
    BY <1>6, <1>11, <2>4
  <2>5. CASE p # b
    <3>1. p \in DOMAIN w /\ w[p] = before[p]
      BY <1>7, <2>1, <2>5
    <3>2. Holds(Moved(p, a, b), before[p].data) /\ (~Under(a, p) => Holds(p, before[p].data))
      BY <1>11, <2>1, <2>3, <3>1, RenamedHolds
    <3> QED BY <1>9, <1>11, <3>2 DEF Safe
  <2> QED BY <2>4, <2>5
<1> QED BY <1>4, <1>5, <1>8, <1>10, <1>11

LEMMA MovedTwice ==
    ASSUME NEW v, NEW a, NEW t, NEW w, NEW b, Swap(v, a, t), Swap(w, t, b), Swap(v, a, b),
           NEW p \in Path, Under(a, p)
    PROVE  Moved(Moved(p, a, t), t, b) = Moved(p, a, b)
<1>1. /\ Len(t) = Len(a) /\ Moved(p, a, t) \in Path /\ Len(Moved(p, a, t)) = Len(p)
      /\ \A k \in 1 .. Len(p) : Moved(p, a, t)[k] = IF k = Len(a) THEN t[k] ELSE p[k]
      /\ Under(t, Moved(p, a, t))
  BY MovedAt
<1>2. PICK m \in Path : m = Moved(p, a, t)
  BY <1>1
<1>3. /\ Moved(m, t, b) \in Path /\ Len(Moved(m, t, b)) = Len(m)
      /\ \A k \in 1 .. Len(m) : Moved(m, t, b)[k] = IF k = Len(t) THEN b[k] ELSE m[k]
  BY <1>1, <1>2, MovedAt
<1>4. /\ Moved(p, a, b) \in Path /\ Len(Moved(p, a, b)) = Len(p)
      /\ \A k \in 1 .. Len(p) : Moved(p, a, b)[k] = IF k = Len(a) THEN b[k] ELSE p[k]
  BY MovedAt
<1>5. \A k \in 1 .. Len(p) : Moved(m, t, b)[k] = Moved(p, a, b)[k]
  BY <1>1, <1>2, <1>3, <1>4
<1> QED BY <1>1, <1>2, <1>3, <1>4, <1>5, PathEq

LEMMA RecaseSafe ==
    ASSUME IInv, op.kind = "recase", NEW p \in DOMAIN before, ~before[p].dir
    PROVE  Safe(p)
<1>1. PICK a \in Path, b \in Path, t \in Path : a = Source1 /\ b = Target1 /\ t = Tmp
  BY OneEntry
<1>2. /\ IsVolume(before) /\ a # <<>> /\ b # <<>> /\ t # <<>> /\ Front(a) = Front(b) /\ Front(a) = Front(t)
      /\ a \in DOMAIN before
      /\ \A q : Under(a, q) => Selected(q)
      /\ \A q \in Path : Under(a, q) => TargetOf(q) = Moved(q, a, b)
  BY <1>1, OneEntry
<1>3. p \in Path
  BY <1>2, NodeAt
<1>4. a = Append(Here, op.names[1])
  BY <1>1 DEF Source1, Root, RootOf
<1>5. \/ vol = before
      \/ t \notin DOMAIN before /\ vol = Renamed(before, a, t)
      \/ /\ t \notin DOMAIN before /\ b \notin DOMAIN Renamed(before, a, t)
         /\ vol = Renamed(Renamed(before, a, t), t, b)
  BY <1>1 DEF IInv, RecaseInv, Aside
<1>6. CASE vol = before
  BY <1>6 DEF Safe, Holds
<1>7. CASE t \notin DOMAIN before /\ vol = Renamed(before, a, t)
  <2>1. Swap(before, a, t)
    BY <1>2, <1>7 DEF Swap
  <2>2. Holds(Moved(p, a, t), before[p].data) /\ (~Under(a, p) => Holds(p, before[p].data))
    BY <1>7, <2>1, RenamedHolds
  <2>3. Under(a, p) => Kept(p)
    BY <1>1, <1>4, <2>2 DEF Kept
  <2> QED BY <1>2, <2>2, <2>3 DEF Safe
<1>8. CASE /\ t \notin DOMAIN before /\ b \notin DOMAIN Renamed(before, a, t)
           /\ vol = Renamed(Renamed(before, a, t), t, b)
  <2>1. Swap(before, a, t)
    BY <1>2, <1>8 DEF Swap
  <2>2. PICK w : w = Renamed(before, a, t)
    OBVIOUS
  <2>3. IsVolume(w)
    BY <2>1, <2>2, RenamedVolume
  <2>4. /\ \A q : q \in DOMAIN w <=> \E r \in DOMAIN before : q = Moved(r, a, t)
        /\ \A r \in DOMAIN before : w[Moved(r, a, t)] = before[r]
    BY <2>1, <2>2, RenamedAt
  <2>5. t \in DOMAIN w
    <3>1. /\ Moved(a, a, t) \in Path /\ Len(Moved(a, a, t)) = Len(a) /\ Under(t, Moved(a, a, t))
          /\ Len(t) = Len(a) /\ Len(a) \in Nat
      BY <2>1, UnderSelf, MovedAt
    <3>2. Moved(a, a, t) = t
      BY <3>1, UnderEq
    <3> QED BY <1>2, <2>4, <3>2
  <2>6. Swap(w, t, b)
    BY <1>2, <1>8, <2>2, <2>3, <2>5 DEF Swap
  <2>7. a = b \/ b \notin DOMAIN before
    <3> SUFFICES ASSUME a # b, b \in DOMAIN before  PROVE FALSE
      OBVIOUS
    <3>1. Len(a) = Len(b) /\ Len(a) \in Nat /\ Len(b) \in Nat
      BY <1>2, Child, PathLen
    <3>2. ~Under(a, b)
      BY <3>1, UnderEq
    <3>3. Moved(b, a, t) = b
      BY <3>2, MovedStays
    <3> QED BY <1>8, <2>2, <2>4, <3>3
  <2>8. Swap(before, a, b)
    BY <1>2, <2>7 DEF Swap
  <2>9. PICK m : m = Moved(p, a, t)
    OBVIOUS
  <2>10. m \in DOMAIN w /\ w[m] = before[p]
    BY <2>4, <2>9
  <2>11. Holds(Moved(m, t, b), before[p].data) /\ (~Under(t, m) => Holds(m, before[p].data))
    BY <1>8, <2>2, <2>6, <2>10, RenamedHolds
  <2>12. CASE Under(a, p)
    <3>1. Moved(m, t, b) = Moved(p, a, b)
      BY <1>3, <2>1, <2>6, <2>8, <2>9, <2>12, MovedTwice
    <3>2. Kept(p)
      BY <1>2, <1>3, <2>11, <2>12, <3>1 DEF Kept
    <3> QED BY <1>2, <2>12, <3>2 DEF Safe
  <2>13. CASE ~Under(a, p)
    <3>1. m = p
      BY <2>9, <2>13, MovedStays
    <3>2. ~Under(t, p)
      BY <1>2, <1>8, AboveToo
    <3> QED BY <2>11, <3>1, <3>2 DEF Safe
  <2> QED BY <2>12, <2>13
<1> QED BY <1>5, <1>6, <1>7, <1>8

LEMMA TellsNothingLost == IInv => NothingLost
<1> SUFFICES ASSUME IInv, NEW p \in DOMAIN before, ~before[p].dir  PROVE Safe(p)
  BY DEF NothingLost, Safe
<1>1. op.kind \in Kinds
  <2>1. CASE op = NoOp
    BY <2>1, NoOpIs DEF Kinds
  <2>2. CASE op \in Ops
    BY <2>2, ModeIs
  <2> QED BY <2>1, <2>2 DEF IInv, Types
<1>2. Trees \/ op.kind = "rename" \/ op.kind = "recase"
  BY <1>1 DEF Kinds, Trees
<1> QED BY <1>2, TreeSafe, RenameSafe, RecaseSafe

-----------------------------------------------------------------------------
(* The theorems. *)

\* The invariant holds of every run: at any step of group_copy_move, copy_entry,
\* rmdir_recursive and rename_selected the card, the entries done and the folders
\* still open fit together.  Only of an operation that copies an entry to the
\* place of a folder it lies in does it say less.
THEOREM FileOpsInvariant == Spec => []J
<1>1. Init => J
  BY InitHolds, Loosened DEF J
<1>2. J /\ [Next]_vars => J'
  BY JKeeps
<1> QED BY <1>1, <1>2, PTL DEF Spec

\* A file copy_file_pg returned 1 for holds what its mode promises, from then to
\* the end of the operation, whatever else is copied or removed after it, fails
\* or is broken off, and whatever operations came before.
THEOREM CopiedTrueAlways == Spec => []CopiedTrue
<1>1. Spec => []J
  BY FileOpsInvariant
<1>2. J => CopiedTrue
  BY TellsCopied DEF J, CopiedTrue
<1> QED BY <1>1, <1>2, PTL

\* However a copy, a move, a rename or a removal goes on, fails, is cancelled or is
\* cut off by the power, each file is whole in its old place or, if it is moved, in
\* the new one, and none the operation is not about is touched.
THEOREM NothingLostAlways == Spec => []NothingLost
<1>1. Spec => []J
  BY FileOpsInvariant
<1>2. J => NothingLost
  BY TellsNothingLost DEF J, NothingLost
<1> QED BY <1>1, <1>2, PTL
=============================================================================
