---------------------------- MODULE ReaderProofs ----------------------------
(***************************************************************************)
(* Proofs about HttpReader: for all requests that HTTP lets clients make,  *)
(* all limits and however the network cuts what is sent, the requests are  *)
(* read as they were made.                                                 *)
(*                                                                         *)
(* ReaderInv says where the reader is.  While it is on track, what it has  *)
(* taken of a line or of bytes, and what is still to come of them in its   *)
(* buffer, in the network and from the client, is what the rest of the     *)
(* request and the requests after it are sent as (OnTrack).  When the      *)
(* client has left within a request, what had come of a line is read as    *)
(* the whole of it (Leaving): nothing can come after it, so that at most   *)
(* the last request is not as it was made.                                 *)
(***************************************************************************)
EXTENDS HttpReader, DataLemmas

-----------------------------------------------------------------------------
(***************************************************************************)
(* What of sequences one behind the other is past and what is ahead.       *)
(***************************************************************************)
Passed(m, k) == FlattenSeq(SubSeq(m, 1, k))
Onward(m, k) == FlattenSeq(SubSeq(m, k, Len(m)))

CutThere(m, S, k) ==
    /\ Passed(m, k) \in Seq(S) /\ Onward(m, k + 1) \in Seq(S)
    /\ Passed(m, k) \o Onward(m, k + 1) = FlattenSeq(m)
NextOf(m, S, k) ==
    /\ m[k] \in Seq(S)
    /\ Passed(m, k) = Passed(m, k - 1) \o m[k]
    /\ Onward(m, k) = m[k] \o Onward(m, k + 1)

LEMMA AllAhead ==
    ASSUME NEW S, NEW m \in Seq(Seq(S))
    PROVE  /\ FlattenSeq(m) \in Seq(S) /\ Len(m) \in Nat
           /\ Passed(m, 0) = <<>> /\ Passed(m, Len(m)) = FlattenSeq(m)
           /\ Onward(m, 1) = FlattenSeq(m) /\ Onward(m, Len(m) + 1) = <<>>
<1>1. FlattenSeq(m) \in Seq(S)
    BY FlattenHas
<1>2. Passed(m, 0) = <<>> /\ Passed(m, Len(m)) = FlattenSeq(m)
    BY FlattenNext, Zenon DEF Passed
<1>3. SubSeq(m, 1, Len(m)) = m
    BY SubSeqFull
<1>4. SubSeq(m, Len(m) + 1, Len(m)) = <<>>
    OBVIOUS
<1>5. Onward(m, 1) = FlattenSeq(m) /\ Onward(m, Len(m) + 1) = <<>>
    BY <1>3, <1>4, FlattenNone, Zenon DEF Onward
<1>6. Len(m) \in Nat
    OBVIOUS
<1>7. QED BY <1>1, <1>2, <1>5, <1>6

LEMMA CutInTwo ==
    ASSUME NEW T, NEW m \in Seq(T), NEW k \in 0 .. Len(m)
    PROVE  /\ SubSeq(m, 1, k) \in Seq(T) /\ SubSeq(m, k + 1, Len(m)) \in Seq(T)
           /\ Len(SubSeq(m, 1, k)) = k /\ Len(SubSeq(m, k + 1, Len(m))) = Len(m) - k
           /\ SubSeq(m, 1, k) \o SubSeq(m, k + 1, Len(m)) = m
<1> DEFINE a == SubSeq(m, 1, k)
           b == SubSeq(m, k + 1, Len(m))
<1>1. a \in Seq(T) /\ Len(a) = k /\ \A i \in 1 .. k : a[i] = m[i]
    BY FirstOnes
<1>2. b \in Seq(T) /\ Len(b) = Len(m) - k /\ \A i \in 1 .. Len(m) - k : b[i] = m[k + i]
    OBVIOUS
<1> HIDE DEF a, b
<1>3. /\ a \o b \in Seq(T) /\ Len(a \o b) = Len(a) + Len(b)
      /\ \A i \in 1 .. Len(a) + Len(b) : (a \o b)[i] = IF i <= Len(a) THEN a[i] ELSE b[i - Len(a)]
    BY <1>1, <1>2, ConcatProperties
<1>4. \A i \in 1 .. Len(m) : (a \o b)[i] = m[i]
  <2> SUFFICES ASSUME NEW i \in 1 .. Len(m) PROVE (a \o b)[i] = m[i]
      OBVIOUS
  <2>1. CASE i <= k
      BY <1>1, <1>2, <1>3, <2>1
  <2>2. CASE ~(i <= k)
    <3>1. i - k \in 1 .. Len(m) - k /\ k + (i - k) = i
        BY <2>2
    <3>2. (a \o b)[i] = b[i - k]
        BY <1>1, <1>2, <1>3, <2>2
    <3>3. QED BY <1>2, <3>1, <3>2
  <2>3. QED BY <2>1, <2>2
<1>5. Len(a \o b) = Len(m)
    BY <1>1, <1>2, <1>3
<1>6. a \o b = m
    BY <1>3, <1>4, <1>5, SeqEqual
<1>7. QED BY <1>1, <1>2, <1>6 DEF a, b

LEMMA CutAnywhere ==
    ASSUME NEW S, NEW m \in Seq(Seq(S)), NEW k \in 0 .. Len(m)
    PROVE  CutThere(m, S, k)
<1> DEFINE a == SubSeq(m, 1, k)
           b == SubSeq(m, k + 1, Len(m))
<1>1. a \in Seq(Seq(S)) /\ b \in Seq(Seq(S)) /\ a \o b = m
    BY CutInTwo, Zenon
<1> HIDE DEF a, b
<1>2. FlattenSeq(a \o b) = FlattenSeq(a) \o FlattenSeq(b)
    BY <1>1, FlattenConcat, Zenon
<1>3. FlattenSeq(a) \in Seq(S) /\ FlattenSeq(b) \in Seq(S)
    BY <1>1, FlattenHas, Zenon
<1>4. QED BY <1>1, <1>2, <1>3, Zenon DEF a, b, CutThere, Passed, Onward

LEMMA NextAhead ==
    ASSUME NEW S, NEW m \in Seq(Seq(S)), NEW k \in 1 .. Len(m)
    PROVE  NextOf(m, S, k)
<1> DEFINE a == << m[k] >>
           b == SubSeq(m, k + 1, Len(m))
           c == SubSeq(m, k, Len(m))
<1>1. m[k] \in Seq(S) /\ Passed(m, k) = Passed(m, k - 1) \o m[k]
    BY FlattenNext, Zenon DEF Passed
<1>2. a \in Seq(Seq(S))
    BY <1>1
<1>3. k \in 0 .. Len(m) /\ 1 \in 1 .. Len(m) /\ k \in 1 .. Len(m)
    OBVIOUS
<1>4. b \in Seq(Seq(S))
    BY <1>3, CutInTwo, Zenon
<1>5. c = a \o b
    BY <1>3, SubSeqRecursiveFirst
<1> HIDE DEF b, c
<1>6. FlattenSeq(a \o b) = FlattenSeq(a) \o FlattenSeq(b)
    BY <1>2, <1>4, FlattenConcat, Zenon
<1>7. FlattenSeq(a) = m[k]
    BY <1>1, FlattenOne, Zenon
<1>8. QED BY <1>1, <1>5, <1>6, <1>7, Zenon DEF b, c, NextOf, Onward

LEMMA AfterFirst ==
    ASSUME NEW S, NEW a \in Seq(S), NEW b \in Seq(S), NEW i \in 1 .. Len(b)
    PROVE  (a \o b)[Len(a) + i] = b[i]
<1> DEFINE j == Len(a) + i
<1>1. Len(a) \in Nat /\ Len(b) \in Nat /\ i \in Nat /\ i >= 1 /\ i <= Len(b)
    OBVIOUS
<1>2. j \in 1 .. Len(a) + Len(b) /\ ~(j <= Len(a)) /\ j - Len(a) = i
    BY <1>1
<1> HIDE DEF j
<1>3. (a \o b)[j] = b[j - Len(a)]
    BY <1>2, ConcatProperties
<1>4. QED BY <1>2, <1>3 DEF j

\* Two ways to cut one sequence.
Between(S, a, b, c, d) == \E e \in Seq(S) : c = a \o e /\ b = e \o d /\ Len(c) = Len(a) + Len(e)

LEMMA SameCut ==
    ASSUME NEW S, NEW a \in Seq(S), NEW b \in Seq(S), NEW c \in Seq(S), NEW d \in Seq(S),
           a \o b = c \o d, Len(a) <= Len(c)
    PROVE  Between(S, a, b, c, d)
<1> DEFINE k == Len(a)
           e == SubSeq(c, k + 1, Len(c))
           p == SubSeq(c, 1, k)
<1>1. k \in 0 .. Len(c) /\ k \in Nat /\ Len(c) \in Nat
    OBVIOUS
<1>2. /\ e \in Seq(S) /\ Len(e) = Len(c) - k /\ p \o e = c
      /\ p \in Seq(S) /\ Len(p) = k
    BY <1>1, CutInTwo
<1>3. \A i \in 1 .. k : p[i] = c[i]
    BY <1>1
<1> HIDE DEF e, p
<1>4. /\ Len(a \o b) = k + Len(b) /\ Len(c \o d) = Len(c) + Len(d)
      /\ a \o b \in Seq(S) /\ c \o d \in Seq(S)
      /\ \A i \in 1 .. k : (a \o b)[i] = a[i]
      /\ \A i \in 1 .. Len(c) : (c \o d)[i] = c[i]
    OBVIOUS
<1>5. \A i \in 1 .. k : p[i] = a[i]
    BY <1>1, <1>3, <1>4
<1>6. p = a
    BY <1>2, <1>5, SeqEqual
<1>7. c = a \o e
    BY <1>2, <1>6
<1>8. a \o b = a \o (e \o d)
  <2>1. Regrouped(a, e, d)
      BY <1>2, Regrouping
  <2>2. QED BY <1>7, <2>1 DEF Regrouped
<1>9. b = e \o d
  <2> DEFINE f == e \o d
  <2>1. f \in Seq(S) /\ Len(f) \in Nat /\ Len(b) \in Nat
      BY <1>2
  <2> HIDE DEF f
  <2>2. /\ Len(a \o f) = k + Len(f) /\ Len(a \o b) = k + Len(b)
        /\ \A i \in 1 .. Len(f) : (a \o f)[k + i] = f[i]
        /\ \A i \in 1 .. Len(b) : (a \o b)[k + i] = b[i]
    <3>1. \A i \in 1 .. Len(f) : (a \o f)[k + i] = f[i]
        BY <2>1
    <3>2. \A i \in 1 .. Len(b) : (a \o b)[k + i] = b[i]
        BY AfterFirst
    <3>3. Len(a \o f) = k + Len(f)
        BY <2>1
    <3>4. QED BY <1>4, <3>1, <3>2, <3>3
  <2>3. a \o b = a \o f
      BY <1>8 DEF f
  <2>4. Len(b) = Len(f)
      BY <1>1, <2>1, <2>2, <2>3
  <2>5. \A i \in 1 .. Len(b) : b[i] = f[i]
      BY <2>2, <2>3, <2>4
  <2>6. b = f
      BY <2>1, <2>4, <2>5, SeqEqual
  <2>7. QED BY <2>6 DEF f
<1>10. Len(c) = Len(a) + Len(e)
    BY <1>1, <1>2
<1>11. QED BY <1>2, <1>7, <1>9, <1>10 DEF Between

LEMMA SameEnds ==
    ASSUME NEW S, NEW a \in Seq(S), NEW b \in Seq(S), NEW c \in Seq(S), NEW d \in Seq(S),
           a \o b = c \o d, Len(a) = Len(c)
    PROVE  a = c /\ b = d
<1>1. Len(a) \in Nat /\ Len(c) \in Nat /\ Len(a) <= Len(c)
    OBVIOUS
<1>2. PICK e \in Seq(S) : c = a \o e /\ b = e \o d /\ Len(c) = Len(a) + Len(e)
  <2>1. Between(S, a, b, c, d)
      BY <1>1, SameCut
  <2>2. QED BY <2>1 DEF Between
<1>3. e = <<>>
    BY <1>1, <1>2
<1>4. QED BY <1>2, <1>3, ConcatEmptySeq

Units == Kinds \X Int
NoLf(l) == \A i \in 1 .. Len(l) : l[i] # Lf

LEMMA PiecesAre ==
    /\ Piece = Seq(Units) /\ <<>> \in Piece /\ Cr \in Units /\ Lf \in Units /\ Cr # Lf
    /\ Eol \in Piece /\ Len(Eol) = 2 /\ Eol[1] = Cr /\ Eol[2] = Lf
<1>1. Piece = Seq(Units)
    BY DEF Piece, Units
<1>2. Cr \in Units /\ Lf \in Units /\ Cr # Lf
  <2>1. "cr" \in Kinds /\ "lf" \in Kinds /\ 0 \in Int
      BY DEF Kinds
  <2>2. "cr" # "lf"
      OBVIOUS
  <2>3. \A s \in Kinds, n \in Int : << s, n >> \in Units
      BY DEF Units
  <2>4. << "cr", 0 >> # << "lf", 0 >>
      BY <2>2
  <2>5. QED BY <2>1, <2>3, <2>4, Zenon DEF Cr, Lf, Unit
<1>3. Eol \in Seq(Units) /\ Len(Eol) = 2 /\ Eol[1] = Cr /\ Eol[2] = Lf
  <2> HIDE DEF Cr, Lf, Units
  <2>1. QED BY <1>2 DEF Eol
<1>4. <<>> \in Seq(Units)
    OBVIOUS
<1>5. QED BY <1>1, <1>2, <1>3, <1>4

LEMMA InlineHas ==
    ASSUME NEW h \in Inline
    PROVE  h \in Piece /\ \A i \in 1 .. Len(h) : h[i] \notin {Cr, Lf}
<1>1. h \in Piece /\ ToSet(h) \cap {Cr, Lf} = {}
    BY DEF Inline
<1>2. DOMAIN h = 1 .. Len(h)
    BY <1>1, PiecesAre
<1>3. QED BY <1>1, <1>2 DEF ToSet

LEMMA ConcatIs ==
    ASSUME NEW a \in Piece, NEW b \in Piece
    PROVE  /\ a \o b \in Piece /\ Len(a \o b) = Len(a) + Len(b) /\ Len(a) \in Nat /\ Len(b) \in Nat
           /\ \A i \in 1 .. Len(a) : (a \o b)[i] = a[i]
           /\ \A i \in 1 .. Len(b) : (a \o b)[Len(a) + i] = b[i]
<1>1. a \in Seq(Units) /\ b \in Seq(Units)
    BY PiecesAre
<1>2. /\ a \o b \in Seq(Units) /\ Len(a \o b) = Len(a) + Len(b) /\ Len(a) \in Nat /\ Len(b) \in Nat
      /\ \A i \in 1 .. Len(a) : (a \o b)[i] = a[i]
      /\ \A i \in 1 .. Len(b) : (a \o b)[Len(a) + i] = b[i]
    BY <1>1
<1>3. QED BY <1>2, PiecesAre

\* A line and its end.
EndedIs(h) ==
    /\ h \o Eol \in Piece /\ Len(h \o Eol) = Len(h) + 2 /\ Len(h) \in Nat
    /\ \A i \in 1 .. Len(h) : (h \o Eol)[i] = h[i]
    /\ (h \o Eol)[Len(h) + 1] = Cr /\ (h \o Eol)[Len(h) + 2] = Lf
    /\ \A i \in 1 .. Len(h) + 2 : (h \o Eol)[i] = Lf <=> i = Len(h) + 2

LEMMA EndedLine ==
    ASSUME NEW h \in Inline
    PROVE  EndedIs(h)
<1>1. h \in Piece /\ \A i \in 1 .. Len(h) : h[i] \notin {Cr, Lf}
    BY InlineHas
<1>2. /\ h \o Eol \in Piece /\ Len(h \o Eol) = Len(h) + Len(Eol) /\ Len(h) \in Nat
      /\ \A i \in 1 .. Len(h) : (h \o Eol)[i] = h[i]
      /\ \A i \in 1 .. Len(Eol) : (h \o Eol)[Len(h) + i] = Eol[i]
    BY <1>1, PiecesAre, ConcatIs
<1>3. (h \o Eol)[Len(h) + 1] = Cr /\ (h \o Eol)[Len(h) + 2] = Lf
    BY <1>2, PiecesAre
<1>4. \A i \in 1 .. Len(h) + 2 : (h \o Eol)[i] = Lf <=> i = Len(h) + 2
    BY <1>1, <1>2, <1>3, PiecesAre
<1>5. QED BY <1>2, <1>3, <1>4, PiecesAre DEF EndedIs

UsedOf(av) == Min({Len(av)} \cup {i \in DOMAIN av : av[i] = Lf})

LEMMA UsedIs ==
    ASSUME NEW av \in Piece, av # <<>>
    PROVE  /\ UsedOf(av) \in 1 .. Len(av)
           /\ av[UsedOf(av)] = Lf \/ UsedOf(av) = Len(av)
           /\ \A i \in 1 .. UsedOf(av) - 1 : av[i] # Lf
<1> DEFINE E == {Len(av)} \cup {i \in DOMAIN av : av[i] = Lf}
<1>1. av \in Seq(Units)
    BY PiecesAre
<1>2. DOMAIN av = 1 .. Len(av) /\ Len(av) \in Nat /\ Len(av) >= 1
    BY <1>1
<1>3. E \in SUBSET Nat /\ E # {} /\ E \subseteq 1 .. Len(av)
    BY <1>2
<1>4. \A i \in 1 .. Len(av) : i \in E <=> i = Len(av) \/ av[i] = Lf
    BY <1>2
<1> HIDE DEF E
<1>5. Min(E) \in E /\ \A y \in E : Min(E) <= y
    BY <1>3, MinOfNats
<1>6. UsedOf(av) = Min(E)
    BY DEF E, UsedOf
<1> DEFINE k == Min(E)
<1>7. k \in 1 .. Len(av) /\ k \in E
    BY <1>3, <1>5
<1>8. \A y \in E : k <= y
    BY <1>5
<1> HIDE DEF k
<1>9. av[k] = Lf \/ k = Len(av)
    BY <1>4, <1>7
<1>10. ASSUME NEW i \in 1 .. k - 1 PROVE av[i] # Lf
  <2>1. i \in 1 .. Len(av) /\ ~(k <= i)
      BY <1>2, <1>7
  <2>2. QED BY <1>4, <1>8, <2>1
<1>11. UsedOf(av) = k
    BY <1>6 DEF k
<1>12. QED BY <1>7, <1>9, <1>10, <1>11

\* What is read when the buffer has the end of the line, and when not.
LineMet(av, w, ln, h, y) ==
    LET k == UsedOf(av)
        out == ln \o SubSeq(av, 1, k)
        left == SubSeq(av, k + 1, Len(av))
    IN  /\ out \in Piece /\ left \in Piece /\ Len(out) \in Nat /\ Len(out) <= Len(h) + 2
        /\ av[k] = Lf => out = h \o Eol /\ left \o w = y
        /\ av[k] # Lf => NoLf(out) /\ out \o (left \o w) = (h \o Eol) \o y

LEMMA LineMeets ==
    ASSUME NEW av \in Piece, av # <<>>, NEW w \in Piece, NEW ln \in Piece, NoLf(ln),
           NEW h \in Inline, NEW y \in Piece, ln \o (av \o w) = (h \o Eol) \o y
    PROVE  LineMet(av, w, ln, h, y)
<1> DEFINE k == UsedOf(av)
           f == SubSeq(av, 1, k)
           out == ln \o f
           left == SubSeq(av, k + 1, Len(av))
           he == h \o Eol
<1>1. /\ k \in 1 .. Len(av) /\ Len(av) \in Nat
      /\ av[k] = Lf \/ k = Len(av)
      /\ \A i \in 1 .. k - 1 : av[i] # Lf
    BY UsedIs, PiecesAre, LenProperties
<1> HIDE DEF k
<1>2. /\ f \in Seq(Units) /\ left \in Seq(Units) /\ Len(f) = k
      /\ f \o left = av
  <2>1. av \in Seq(Units) /\ k \in 0 .. Len(av)
      BY <1>1, PiecesAre
  <2>2. QED BY <2>1, CutInTwo
<1>3. \A i \in 1 .. k : f[i] = av[i]
  <2>1. av \in Seq(Units) /\ k \in 0 .. Len(av)
      BY <1>1, PiecesAre
  <2>2. QED BY <2>1, FirstOnes
<1> HIDE DEF f, left
<1>4. f \in Piece /\ left \in Piece
    BY <1>2, PiecesAre
<1>5. /\ out \in Piece /\ Len(out) = Len(ln) + k /\ Len(ln) \in Nat
      /\ \A i \in 1 .. Len(ln) : out[i] = ln[i]
      /\ \A i \in 1 .. k : out[Len(ln) + i] = f[i]
    BY <1>2, <1>4, ConcatIs
<1>6. EndedIs(h) /\ he \in Piece /\ Len(he) = Len(h) + 2 /\ Len(h) \in Nat
    BY EndedLine DEF EndedIs
<1>7. left \o w \in Piece
    BY <1>4, ConcatIs
<1>8. out \o (left \o w) = he \o y
  <2>1. Regrouped(f, left, w) /\ Regrouped(ln, f, left \o w)
    <3>1. ln \in Seq(Units) /\ w \in Seq(Units) /\ left \o w \in Seq(Units)
        BY <1>7, PiecesAre
    <3>2. QED BY <1>2, <3>1, Regrouping
  <2>2. QED BY <1>2, <2>1 DEF Regrouped
<1> HIDE DEF out, he
<1>9. \A i \in 1 .. Len(out) : out[i] = Lf <=> i = Len(out) /\ av[k] = Lf
  <2> SUFFICES ASSUME NEW i \in 1 .. Len(out)
               PROVE  out[i] = Lf <=> i = Len(out) /\ av[k] = Lf
      OBVIOUS
  <2>1. CASE i <= Len(ln)
    <3>1. i \in 1 .. Len(ln) /\ i # Len(out)
        BY <1>1, <1>5, <2>1
    <3>2. QED BY <1>5, <3>1 DEF NoLf
  <2>2. CASE ~(i <= Len(ln))
    <3> DEFINE j == i - Len(ln)
    <3>1. j \in 1 .. k /\ Len(ln) + j = i
        BY <1>1, <1>5, <2>2
    <3>2. out[i] = av[j]
        BY <1>3, <1>5, <3>1
    <3>3. i = Len(out) <=> j = k
        BY <1>1, <1>5, <3>1
    <3>4. j = k \/ j \in 1 .. k - 1
      <4> HIDE DEF j
      <4>1. k \in Int /\ j \in Int /\ 1 <= j /\ j <= k
          BY <1>1, <3>1
      <4>2. QED BY <4>1
    <3> HIDE DEF j
    <3>5. QED BY <1>1, <3>2, <3>3, <3>4
  <2>3. QED BY <2>1, <2>2
<1>10. \A i \in 1 .. Len(h) + 2 : he[i] = Lf <=> i = Len(h) + 2
    BY <1>6 DEF EndedIs, he
<1> DEFINE x == left \o w
<1>11. x \in Piece /\ out \o x = he \o y
    BY <1>7, <1>8
<1> HIDE DEF x
<1>12. Len(out) \in Nat /\ Len(out) <= Len(h) + 2
  <2>1. Len(out) \in Nat
      BY <1>1, <1>5
  <2>2. SUFFICES ASSUME Len(out) > Len(h) + 2 PROVE FALSE
      BY <1>6, <2>1
  <2>3. Len(h) + 2 \in 1 .. Len(out) /\ Len(h) + 2 \in 1 .. Len(he) /\ Len(h) + 2 # Len(out)
      BY <1>6, <2>1, <2>2
  <2>6. out \in Piece /\ he \in Piece
      BY <1>5, <1>6
  <2>7. /\ \A i \in 1 .. Len(out) : (out \o x)[i] = out[i]
        /\ \A i \in 1 .. Len(he) : (he \o y)[i] = he[i]
      BY <1>11, <2>6, ConcatIs
  <2>4. (out \o x)[Len(h) + 2] = out[Len(h) + 2] /\ (he \o y)[Len(h) + 2] = he[Len(h) + 2]
      BY <2>3, <2>7
  <2>5. QED BY <1>6, <1>9, <1>10, <1>11, <2>3, <2>4
<1>13. ASSUME av[k] = Lf PROVE out = he /\ x = y
  <2>1. Len(out) \in 1 .. Len(out) /\ Len(out) \in 1 .. Len(he)
      BY <1>1, <1>5, <1>6, <1>12
  <2>2. (out \o x)[Len(out)] = out[Len(out)] /\ (he \o y)[Len(out)] = he[Len(out)]
      BY <1>5, <1>6, <1>11, <2>1, ConcatIs
  <2>3. Len(out) = Len(he)
      BY <1>6, <1>9, <1>10, <1>11, <1>13, <2>1, <2>2
  <2>4. out \in Seq(Units) /\ x \in Seq(Units) /\ he \in Seq(Units) /\ y \in Seq(Units)
      BY <1>5, <1>6, <1>11, PiecesAre
  <2>5. QED BY <1>11, <2>3, <2>4, SameEnds
<1>14. ASSUME av[k] # Lf PROVE NoLf(out)
    BY <1>9, <1>14 DEF NoLf
<1>15. QED BY <1>4, <1>5, <1>11, <1>12, <1>13, <1>14 DEF LineMet, k, f, out, left, he, x

\* What is read of bytes that are waited for.
BytesMet(av, w, p, y) ==
    LET k == IF Len(p) < Len(av) THEN Len(p) ELSE Len(av)
        met == SubSeq(av, 1, k)
        left == SubSeq(av, k + 1, Len(av))
    IN  /\ met \in Piece /\ left \in Piece /\ k \in Nat /\ k <= Len(p) /\ Len(met) = k
        /\ k = Len(p) => met = p /\ left \o w = y
        /\ k # Len(p) => \E q \in Piece : /\ p = met \o q /\ left \o w = q \o y
                                          /\ Len(q) = Len(p) - k /\ Len(q) > 0

LEMMA BytesMeet ==
    ASSUME NEW av \in Piece, NEW w \in Piece, NEW p \in Piece, NEW y \in Piece, av \o w = p \o y
    PROVE  BytesMet(av, w, p, y)
<1> DEFINE k == IF Len(p) < Len(av) THEN Len(p) ELSE Len(av)
           f == SubSeq(av, 1, k)
           left == SubSeq(av, k + 1, Len(av))
<1>1. av \in Seq(Units) /\ w \in Seq(Units) /\ p \in Seq(Units) /\ y \in Seq(Units)
    BY PiecesAre
<1>2. Len(av) \in Nat /\ Len(p) \in Nat
    BY <1>1, LenProperties
<1>3. k \in 0 .. Len(av) /\ k \in Nat /\ k <= Len(p)
    BY <1>2
<1> HIDE DEF k
<1>4. f \in Seq(Units) /\ left \in Seq(Units) /\ Len(f) = k /\ f \o left = av
    BY <1>1, <1>3, CutInTwo
<1> HIDE DEF f, left
<1> DEFINE x == left \o w
<1>5. x \in Seq(Units)
    BY <1>1, <1>4
<1>6. f \o x = p \o y
  <2>1. Regrouped(f, left, w)
      BY <1>1, <1>4, Regrouping
  <2>2. QED BY <1>4, <2>1 DEF Regrouped
<1> HIDE DEF x
<1>7. PICK q \in Seq(Units) : p = f \o q /\ x = q \o y /\ Len(p) = Len(f) + Len(q)
  <2>1. Between(Units, f, x, p, y)
      BY <1>1, <1>3, <1>4, <1>5, <1>6, SameCut
  <2>2. QED BY <2>1 DEF Between
<1>8. Len(q) = Len(p) - k /\ Len(q) \in Nat
    BY <1>2, <1>3, <1>4, <1>7
<1>9. ASSUME k = Len(p) PROVE f = p /\ x = y
  <2>1. q = <<>>
      BY <1>8, <1>9, <1>2, EmptySeq
  <2>2. QED BY <1>1, <1>4, <1>7, <2>1, ConcatEmptySeq
<1>10. ASSUME k # Len(p) PROVE Len(q) > 0
    BY <1>2, <1>3, <1>8, <1>10
<1>11. f \in Piece /\ left \in Piece /\ q \in Piece
    BY <1>4, PiecesAre
<1>12. ASSUME k # Len(p)
       PROVE  \E q1 \in Piece : /\ p = f \o q1 /\ x = q1 \o y
                                /\ Len(q1) = Len(p) - k /\ Len(q1) > 0
    BY <1>7, <1>8, <1>10, <1>11, <1>12
<1>13. QED BY <1>3, <1>4, <1>9, <1>11, <1>12 DEF BytesMet, k, f, left, x

LEMMA UnitIs ==
    ASSUME NEW kind \in Kinds, NEW n \in Int
    PROVE  /\ Unit(kind, n) \in Units /\ Unit(kind, n)[1] = kind /\ Unit(kind, n)[2] = n
           /\ kind \notin {"cr", "lf"} => Unit(kind, n) \notin {Cr, Lf}
BY DEF Unit, Units, Cr, Lf

LEMMA OneUnit ==
    ASSUME NEW u \in Units, u \notin {Cr, Lf}
    PROVE  << u >> \in Inline /\ << u >> \in Piece /\ Len(<< u >>) = 1 /\ << u >>[1] = u
<1>1. << u >> \in Piece /\ Len(<< u >>) = 1 /\ << u >>[1] = u
    BY PiecesAre
<1>2. ToSet(<< u >>) = {u}
    BY DEF ToSet
<1>3. QED BY <1>1, <1>2 DEF Inline

LEMMA NoneInline == <<>> \in Inline
<1>1. ToSet(<<>>) = {}
    BY DEF ToSet
<1>2. QED BY <1>1, PiecesAre DEF Inline

LEMMA PiecesJoin ==
    ASSUME NEW a \in Piece, NEW b \in Piece, NEW c \in Piece
    PROVE  Regrouped(a, b, c)
BY PiecesAre, Regrouping

\* Lines and chunks as they are sent.
Ended(ls) == [i \in DOMAIN ls |-> ls[i] \o Eol]
Chunks(r) == [i \in DOMAIN r.body |-> Chunk(r.body[i])]
Sents(cs) == [i \in DOMAIN cs |-> Sent(cs[i])]

LEMMA EndedIn ==
    ASSUME NEW ls \in Seq(Inline)
    PROVE  /\ Ended(ls) \in Seq(Piece) /\ Len(Ended(ls)) = Len(ls)
           /\ \A i \in 1 .. Len(ls) : Ended(ls)[i] = ls[i] \o Eol /\ ls[i] \in Inline
<1>1. DOMAIN ls = 1 .. Len(ls) /\ Len(ls) \in Nat /\ \A i \in 1 .. Len(ls) : ls[i] \in Inline
    OBVIOUS
<1>2. \A i \in 1 .. Len(ls) : ls[i] \o Eol \in Piece
    BY <1>1, EndedLine DEF EndedIs
<1> DEFINE f(i) == ls[i] \o Eol
<1>3. Ended(ls) = [i \in 1 .. Len(ls) |-> f(i)]
    BY <1>1 DEF Ended
<1>4. \A i \in 1 .. Len(ls) : f(i) \in Piece
    BY <1>2
<1> HIDE DEF f
<1>5. /\ Ended(ls) \in Seq(Piece) /\ Len(Ended(ls)) = Len(ls)
      /\ \A i \in 1 .. Len(ls) : Ended(ls)[i] = f(i)
  <2> HIDE DEF Piece
  <2>1. QED BY <1>1, <1>3, <1>4
<1>6. QED BY <1>1, <1>5 DEF f

LinesIs(ls) == LinesOf(ls) = FlattenSeq(Ended(ls)) /\ LinesOf(ls) \in Piece
LEMMA LinesAre ==
    ASSUME NEW ls \in Seq(Inline)
    PROVE  LinesIs(ls)
<1>1. Ended(ls) \in Seq(Seq(Units))
    BY EndedIn, PiecesAre
<1>2. FlattenSeq(Ended(ls)) \in Seq(Units)
    BY <1>1, FlattenHas
<1>3. QED BY <1>2, PiecesAre DEF LinesOf, Ended, LinesIs

\* What follows is ahead as well.
Following(m, k, e) == Onward(m, k) \o e = m[k] \o (Onward(m, k + 1) \o e)

LEMMA AheadNext ==
    ASSUME NEW m \in Seq(Piece), NEW e \in Piece
    PROVE  /\ \A k \in 0 .. Len(m) : Onward(m, k + 1) \o e \in Piece /\ Onward(m, k + 1) \in Piece
           /\ \A k \in 1 .. Len(m) : m[k] \in Piece /\ Following(m, k, e)
           /\ Onward(m, Len(m) + 1) \o e = e
<1>1. m \in Seq(Seq(Units)) /\ e \in Seq(Units) /\ Len(m) \in Nat
    BY PiecesAre
<1>2. \A k \in 0 .. Len(m) : Onward(m, k + 1) \in Seq(Units)
  <2>1. \A k \in 0 .. Len(m) : CutThere(m, Units, k)
      BY <1>1, CutAnywhere
  <2>2. QED BY <2>1 DEF CutThere
<1>3. \A k \in 0 .. Len(m) : Onward(m, k + 1) \o e \in Piece /\ Onward(m, k + 1) \in Piece
    BY <1>1, <1>2, PiecesAre, ConcatIs
<1>4. ASSUME NEW k \in 1 .. Len(m) PROVE m[k] \in Piece /\ Following(m, k, e)
  <2>1. NextOf(m, Units, k)
      BY <1>1, NextAhead
  <2>2. m[k] \in Piece /\ Onward(m, k) = m[k] \o Onward(m, k + 1)
      BY <2>1, PiecesAre DEF NextOf
  <2>3. k \in 0 .. Len(m)
      OBVIOUS
  <2>4. Regrouped(m[k], Onward(m, k + 1), e)
      BY <1>3, <2>2, <2>3, PiecesJoin
  <2>5. QED BY <2>2, <2>4 DEF Following, Regrouped
<1>5. Onward(m, Len(m) + 1) = <<>>
    BY <1>1, AllAhead
<1>6. <<>> \o e = e
    BY <1>1, ConcatEmptySeq
<1>7. QED BY <1>3, <1>4, <1>5, <1>6

\* What a request is made of.
RequestIs(r) ==
    /\ r.first \in Inline /\ r.first \in Piece /\ r.chunked \in BOOLEAN
    /\ Headers(r) \in Seq(Inline) /\ Len(Headers(r)) \in Nat
    /\ r.headers \in Seq(Inline) /\ Len(r.headers) \in Nat
    /\ r.trailers \in Seq(Inline) /\ Len(r.trailers) \in Nat
    /\ r.body \in Seq(Piece) /\ Len(r.body) \in Nat /\ FlattenSeq(r.body) \in Piece
    /\ \A i \in 1 .. Len(r.body) : r.body[i] \in Piece /\ (r.chunked => r.body[i] # <<>>)
HeadersAre(r) ==
    /\ Len(Headers(r)) = Len(r.headers) \/ Len(Headers(r)) = Len(r.headers) + 1
    /\ Len(Headers(r)) = Len(r.headers) <=> ~r.chunked /\ r.body = <<>>
    /\ \A i \in 1 .. Len(r.headers) :
          /\ Headers(r)[i] = r.headers[i] /\ Headers(r)[i] # <<>>
          /\ r.headers[i][1][1] \notin {"length", "chunked"} \/ r.headers[i][1] = Unit("length", -1)
    /\ Len(Headers(r)) = Len(r.headers) + 1 =>
          Headers(r)[Len(r.headers) + 1] =
             << IF r.chunked THEN Unit("chunked", 0) ELSE Unit("length", Len(r.body[1])) >>

LEMMA RequestHas ==
    ASSUME NEW r, Formed(r)
    PROVE  RequestIs(r) /\ HeadersAre(r)
<1> DEFINE hs == r.headers
           last == << IF r.chunked THEN Unit("chunked", 0) ELSE Unit("length", Len(r.body[1])) >>
           some == r.chunked \/ r.body # <<>>
<1>1. /\ r.first \in Inline /\ hs \in Seq(Inline \ {<<>>}) /\ r.trailers \in Seq(Inline \ {<<>>})
      /\ \A l \in ToSet(hs) : l[1][1] \notin {"length", "chunked"} \/ l[1] = Unit("length", -1)
      /\ r.chunked \in BOOLEAN /\ r.body \in Seq(Piece)
      /\ r.chunked => <<>> \notin ToSet(r.body)
    BY DEF Formed
<1>2. hs \in Seq(Inline) /\ r.trailers \in Seq(Inline) /\ \A i \in 1 .. Len(hs) : hs[i] \in Inline /\ hs[i] # <<>>
    BY <1>1
<1>3. Len(hs) \in Nat /\ Len(r.trailers) \in Nat /\ Len(r.body) \in Nat
    BY <1>1, LenProperties
<1>4. FlattenSeq(r.body) \in Piece
    BY <1>1, PiecesAre, FlattenHas
<1>5. \A i \in 1 .. Len(r.body) : r.body[i] \in Piece /\ (r.chunked => r.body[i] # <<>>)
  <2>1. DOMAIN r.body = 1 .. Len(r.body)
      BY <1>1
  <2>2. \A i \in 1 .. Len(r.body) : r.body[i] \in Piece
      BY <1>1
  <2>3. QED BY <1>1, <2>1, <2>2 DEF ToSet
<1>6. \A i \in 1 .. Len(hs) : hs[i][1][1] \notin {"length", "chunked"} \/ hs[i][1] = Unit("length", -1)
  <2>1. DOMAIN hs = 1 .. Len(hs)
      BY <1>1
  <2>2. QED BY <1>1, <2>1 DEF ToSet
<1>7. some => last \in Inline
  <2>1. SUFFICES ASSUME some PROVE last \in Inline
      OBVIOUS
  <2>2. CASE r.chunked
    <3>1. Unit("chunked", 0) \in Units /\ Unit("chunked", 0) \notin {Cr, Lf}
      <4>1. "chunked" \in Kinds /\ "chunked" \notin {"cr", "lf"} /\ 0 \in Int
          BY DEF Kinds
      <4>2. QED BY <4>1, UnitIs
    <3>2. QED BY <2>2, <3>1, OneUnit
  <2>3. CASE ~r.chunked
    <3> DEFINE n == Len(r.body[1])
    <3>1. n \in Int
      <4>1. 1 \in 1 .. Len(r.body)
          BY <1>1, <1>3, <2>1, <2>3
      <4>2. r.body[1] \in Piece
          BY <1>5, <4>1
      <4>3. QED BY <4>2, PiecesAre, LenProperties
    <3> HIDE DEF n
    <3>2. Unit("length", n) \in Units /\ Unit("length", n) \notin {Cr, Lf}
      <4>1. "length" \in Kinds /\ "length" \notin {"cr", "lf"}
          BY DEF Kinds
      <4>2. QED BY <3>1, <4>1, UnitIs
    <3>3. last = << Unit("length", n) >>
        BY <2>3 DEF n
    <3>4. QED BY <3>2, <3>3, OneUnit
  <2>4. QED BY <2>2, <2>3
<1>8. Headers(r) = IF some THEN hs \o << last >> ELSE hs \o <<>>
    BY <1>1 DEF Headers
<1>9. hs \o <<>> = hs
    BY <1>2, ConcatEmptySeq
<1> HIDE DEF last
<1>10. /\ Headers(r) \in Seq(Inline)
       /\ some => /\ Len(Headers(r)) = Len(hs) + 1 /\ Headers(r)[Len(hs) + 1] = last
                  /\ \A i \in 1 .. Len(hs) : Headers(r)[i] = hs[i]
  <2>1. CASE some
    <3>1. last \in Inline
        BY <1>7, <2>1
    <3> HIDE DEF hs
    <3>2. /\ hs \o << last >> \in Seq(Inline) /\ Len(hs \o << last >>) = Len(hs) + 1
          /\ (hs \o << last >>)[Len(hs) + 1] = last
          /\ \A i \in 1 .. Len(hs) : (hs \o << last >>)[i] = hs[i]
        BY <1>2, <3>1
    <3>3. QED BY <1>8, <2>1, <3>2
  <2>2. CASE ~some
      BY <1>2, <1>8, <1>9, <2>2
  <2>3. QED BY <2>1, <2>2
<1>11. ~some => Headers(r) = hs /\ ~r.chunked /\ r.body = <<>>
    BY <1>8, <1>9
<1>12. Len(Headers(r)) \in Nat
    BY <1>10, LenProperties
<1>13. RequestIs(r)
    BY <1>1, <1>2, <1>3, <1>4, <1>5, <1>10, <1>12, InlineHas DEF RequestIs
<1>14. HeadersAre(r)
    BY <1>2, <1>3, <1>6, <1>10, <1>11 DEF HeadersAre, last
<1>15. QED BY <1>13, <1>14

\* What is ahead within a request r that z follows.
TrailersAhead(r, z, t) == Onward(Ended(r.trailers), t + 1) \o (Eol \o z)
ChunksAhead(r, z, c) == Onward(Chunks(r), c + 1) \o ((<< Unit("size", 0) >> \o Eol) \o TrailersAhead(r, z, 0))
HeadersAhead(r, z, j) == Onward(Ended(Headers(r)), j + 1) \o (Eol \o (Payload(r) \o z))

LEMMA TrailersFollow ==
    ASSUME NEW r, RequestIs(r), NEW z \in Piece
    PROVE  /\ \A t \in 0 .. Len(r.trailers) : TrailersAhead(r, z, t) \in Piece
           /\ \A t \in 0 .. Len(r.trailers) - 1 :
                 TrailersAhead(r, z, t) = (r.trailers[t + 1] \o Eol) \o TrailersAhead(r, z, t + 1)
           /\ TrailersAhead(r, z, Len(r.trailers)) = (<<>> \o Eol) \o z
<1> DEFINE m == Ended(r.trailers)
           e == Eol \o z
<1>1. /\ m \in Seq(Piece) /\ Len(m) = Len(r.trailers) /\ Len(r.trailers) \in Nat
      /\ \A i \in 1 .. Len(r.trailers) : m[i] = r.trailers[i] \o Eol
    BY EndedIn DEF RequestIs
<1>2. e \in Piece
    BY PiecesAre, ConcatIs
<1> HIDE DEF m, e
<1>3. /\ \A k \in 0 .. Len(m) : Onward(m, k + 1) \o e \in Piece
      /\ \A k \in 1 .. Len(m) : Following(m, k, e)
      /\ Onward(m, Len(m) + 1) \o e = e
    BY <1>1, <1>2, AheadNext
<1>4. \A t \in 0 .. Len(r.trailers) : TrailersAhead(r, z, t) = Onward(m, t + 1) \o e
    BY DEF TrailersAhead, m, e
<1>5. ASSUME NEW t \in 0 .. Len(r.trailers) - 1
      PROVE  TrailersAhead(r, z, t) = (r.trailers[t + 1] \o Eol) \o TrailersAhead(r, z, t + 1)
  <2>1. t + 1 \in 1 .. Len(m) /\ t \in 0 .. Len(r.trailers) /\ t + 1 \in 0 .. Len(r.trailers)
      BY <1>1
  <2>2. Onward(m, t + 1) \o e = m[t + 1] \o (Onward(m, (t + 1) + 1) \o e)
      BY <1>3, <2>1 DEF Following
  <2>3. QED BY <1>1, <1>4, <2>1, <2>2
<1>6. TrailersAhead(r, z, Len(r.trailers)) = (<<>> \o Eol) \o z
  <2>4. Len(r.trailers) \in 0 .. Len(r.trailers)
      BY <1>1
  <2>1. TrailersAhead(r, z, Len(r.trailers)) = e
      BY <1>1, <1>3, <1>4, <2>4
  <2>2. <<>> \o Eol = Eol
      BY PiecesAre, ConcatEmptySeq
  <2>3. QED BY <2>1, <2>2 DEF e
<1>7. QED BY <1>1, <1>3, <1>4, <1>5, <1>6

LEMMA ChunkIs ==
    ASSUME NEW b \in Piece
    PROVE  /\ << Unit("size", Len(b)) >> \in Inline
           /\ Chunk(b) = (<< Unit("size", Len(b)) >> \o Eol) \o (b \o Eol) /\ Chunk(b) \in Piece
<1> DEFINE n == Len(b)
           l == << Unit("size", n) >>
<1>1. n \in Int
    BY PiecesAre, LenProperties
<1> HIDE DEF n
<1>2. l \in Inline /\ l \in Piece
  <2>1. "size" \in Kinds /\ "size" \notin {"cr", "lf"}
      BY DEF Kinds
  <2>2. Unit("size", n) \in Units /\ Unit("size", n) \notin {Cr, Lf}
      BY <1>1, <2>1, UnitIs
  <2>3. QED BY <2>2, OneUnit
<1>3. Chunk(b) = ((l \o Eol) \o b) \o Eol
    BY DEF Chunk, n
<1> HIDE DEF l
<1>4. l \o Eol \in Piece /\ b \o Eol \in Piece
    BY <1>2, PiecesAre, ConcatIs
<1>5. (l \o Eol) \o (b \o Eol) \in Piece
    BY <1>4, ConcatIs
<1>6. Regrouped(l \o Eol, b, Eol)
    BY <1>4, PiecesAre, PiecesJoin
<1>7. Chunk(b) = (l \o Eol) \o (b \o Eol)
    BY <1>3, <1>6 DEF Regrouped
<1>8. QED BY <1>2, <1>5, <1>7 DEF l, n

ChunksIn(r) ==
    /\ Chunks(r) \in Seq(Piece) /\ Len(Chunks(r)) = Len(r.body)
    /\ \A i \in 1 .. Len(r.body) : Chunks(r)[i] = Chunk(r.body[i])

LEMMA ChunksAre ==
    ASSUME NEW r, RequestIs(r)
    PROVE  ChunksIn(r)
<1>1. DOMAIN r.body = 1 .. Len(r.body) /\ Len(r.body) \in Nat /\ \A i \in 1 .. Len(r.body) : r.body[i] \in Piece
    BY DEF RequestIs
<1> DEFINE f(i) == Chunk(r.body[i])
<1>2. \A i \in 1 .. Len(r.body) : f(i) \in Piece
    BY <1>1, ChunkIs
<1>3. Chunks(r) = [i \in 1 .. Len(r.body) |-> f(i)]
    BY <1>1 DEF Chunks
<1> HIDE DEF f
<1>4. /\ Chunks(r) \in Seq(Piece) /\ Len(Chunks(r)) = Len(r.body)
      /\ \A i \in 1 .. Len(r.body) : Chunks(r)[i] = f(i)
  <2> HIDE DEF Piece
  <2>1. QED BY <1>1, <1>2, <1>3
<1>5. QED BY <1>4 DEF f, ChunksIn

ChunkNext(r, z, c) ==
    ChunksAhead(r, z, c) =
       (<< Unit("size", Len(r.body[c + 1])) >> \o Eol) \o (r.body[c + 1] \o (Eol \o ChunksAhead(r, z, c + 1)))

LEMMA ChunksFollow ==
    ASSUME NEW r, RequestIs(r), NEW z \in Piece
    PROVE  /\ \A c \in 0 .. Len(r.body) : ChunksAhead(r, z, c) \in Piece
           /\ \A c \in 0 .. Len(r.body) - 1 : ChunkNext(r, z, c)
           /\ ChunksAhead(r, z, Len(r.body)) = (<< Unit("size", 0) >> \o Eol) \o TrailersAhead(r, z, 0)
           /\ << Unit("size", 0) >> \in Inline
<1> DEFINE m == Chunks(r)
           e == (<< Unit("size", 0) >> \o Eol) \o TrailersAhead(r, z, 0)
<1>1. /\ m \in Seq(Piece) /\ Len(m) = Len(r.body) /\ Len(r.body) \in Nat
      /\ \A i \in 1 .. Len(r.body) : m[i] = Chunk(r.body[i]) /\ r.body[i] \in Piece
    BY ChunksAre DEF RequestIs, ChunksIn
<1>2. << Unit("size", 0) >> \in Inline
  <2>1. Len(<<>>) = 0 /\ <<>> \in Piece
      BY PiecesAre
  <2>2. << Unit("size", Len(<<>>)) >> \in Inline
      BY <2>1, ChunkIs
  <2>3. QED BY <2>1, <2>2
<1>3. e \in Piece
  <2>1. TrailersAhead(r, z, 0) \in Piece
    <3>1. 0 \in 0 .. Len(r.trailers)
        BY DEF RequestIs
    <3>2. QED BY <3>1, TrailersFollow
  <2>2. << Unit("size", 0) >> \o Eol \in Piece
      BY <1>2, EndedLine DEF EndedIs
  <2>3. QED BY <2>1, <2>2, ConcatIs
<1> HIDE DEF m, e
<1>4. /\ \A k \in 0 .. Len(m) : Onward(m, k + 1) \o e \in Piece
      /\ \A k \in 1 .. Len(m) : Following(m, k, e)
      /\ Onward(m, Len(m) + 1) \o e = e
    BY <1>1, <1>3, AheadNext
<1>5. \A c \in 0 .. Len(r.body) : ChunksAhead(r, z, c) = Onward(m, c + 1) \o e
    BY DEF ChunksAhead, m, e
<1>6. ASSUME NEW c \in 0 .. Len(r.body) - 1
      PROVE  ChunkNext(r, z, c)
  <2> DEFINE b == r.body[c + 1]
             l == << Unit("size", Len(b)) >>
             y == ChunksAhead(r, z, c + 1)
  <2>1. c + 1 \in 1 .. Len(m) /\ c \in 0 .. Len(r.body) /\ c + 1 \in 0 .. Len(r.body) /\ c + 1 \in 1 .. Len(r.body)
      BY <1>1
  <2>2. Onward(m, c + 1) \o e = m[c + 1] \o (Onward(m, (c + 1) + 1) \o e)
      BY <1>4, <2>1 DEF Following
  <2>3. ChunksAhead(r, z, c) = m[c + 1] \o y /\ y \in Piece
      BY <1>1, <1>4, <1>5, <2>1, <2>2
  <2>4. b \in Piece /\ m[c + 1] = Chunk(b)
      BY <1>1, <2>1
  <2> HIDE DEF b, y
  <2>5. l \in Inline /\ Chunk(b) = (l \o Eol) \o (b \o Eol)
      BY <2>4, ChunkIs
  <2> HIDE DEF l
  <2>6. l \o Eol \in Piece /\ b \o Eol \in Piece
      BY <2>4, <2>5, EndedLine, PiecesAre, ConcatIs DEF EndedIs
  <2>7. Regrouped(l \o Eol, b \o Eol, y) /\ Regrouped(b, Eol, y)
      BY <2>3, <2>4, <2>6, PiecesAre, PiecesJoin
  <2>8. ChunksAhead(r, z, c) = (l \o Eol) \o (b \o (Eol \o y))
      BY <2>3, <2>4, <2>5, <2>7 DEF Regrouped
  <2>9. QED BY <2>8 DEF ChunkNext, l, b, y
<1>7. ChunksAhead(r, z, Len(r.body)) = e
  <2>1. Len(r.body) \in 0 .. Len(r.body)
      BY <1>1
  <2>2. QED BY <1>1, <1>4, <1>5, <2>1
<1>8. QED BY <1>1, <1>2, <1>4, <1>5, <1>6, <1>7 DEF e

HeaderNext(r, z, j) == HeadersAhead(r, z, j) = (Headers(r)[j + 1] \o Eol) \o HeadersAhead(r, z, j + 1)

LEMMA HeadersFollow ==
    ASSUME NEW r, RequestIs(r), NEW z \in Piece, Payload(r) \in Piece
    PROVE  /\ \A j \in 0 .. Len(Headers(r)) : HeadersAhead(r, z, j) \in Piece
           /\ \A j \in 0 .. Len(Headers(r)) - 1 : HeaderNext(r, z, j)
           /\ HeadersAhead(r, z, Len(Headers(r))) = (<<>> \o Eol) \o (Payload(r) \o z)
<1> DEFINE hs == Headers(r)
           m == Ended(hs)
           e == Eol \o (Payload(r) \o z)
<1>1. /\ m \in Seq(Piece) /\ Len(m) = Len(hs) /\ Len(hs) \in Nat
      /\ \A i \in 1 .. Len(hs) : m[i] = hs[i] \o Eol
    BY EndedIn DEF RequestIs
<1>2. e \in Piece
    BY PiecesAre, ConcatIs
<1> HIDE DEF m, e, hs
<1>3. /\ \A k \in 0 .. Len(m) : Onward(m, k + 1) \o e \in Piece
      /\ \A k \in 1 .. Len(m) : Following(m, k, e)
      /\ Onward(m, Len(m) + 1) \o e = e
    BY <1>1, <1>2, AheadNext
<1>4. \A j \in 0 .. Len(hs) : HeadersAhead(r, z, j) = Onward(m, j + 1) \o e
    BY DEF HeadersAhead, m, e, hs
<1>5. ASSUME NEW j \in 0 .. Len(hs) - 1
      PROVE  HeaderNext(r, z, j)
  <2>1. j + 1 \in 1 .. Len(m) /\ j \in 0 .. Len(hs) /\ j + 1 \in 0 .. Len(hs)
      BY <1>1
  <2>2. Onward(m, j + 1) \o e = m[j + 1] \o (Onward(m, (j + 1) + 1) \o e)
      BY <1>3, <2>1 DEF Following
  <2>3. HeadersAhead(r, z, j) = (hs[j + 1] \o Eol) \o HeadersAhead(r, z, j + 1)
      BY <1>1, <1>4, <2>1, <2>2
  <2>4. QED BY <2>3 DEF HeaderNext, hs
<1>6. HeadersAhead(r, z, Len(hs)) = (<<>> \o Eol) \o (Payload(r) \o z)
  <2>4. Len(hs) \in 0 .. Len(hs)
      BY <1>1
  <2>1. HeadersAhead(r, z, Len(hs)) = e
      BY <1>1, <1>3, <1>4, <2>4
  <2>2. <<>> \o Eol = Eol
      BY PiecesAre, ConcatEmptySeq
  <2>3. QED BY <2>1, <2>2 DEF e
<1>7. QED BY <1>1, <1>3, <1>4, <1>5, <1>6 DEF hs

PayloadIs(r, z) ==
    /\ Payload(r) \in Piece
    /\ IF r.chunked THEN Payload(r) \o z = ChunksAhead(r, z, 0)
       ELSE Payload(r) = FlattenSeq(r.body)

LEMMA PayloadHas ==
    ASSUME NEW r, RequestIs(r), NEW z \in Piece
    PROVE  PayloadIs(r, z)
<1>1. CASE ~r.chunked
    BY <1>1 DEF PayloadIs, Payload, RequestIs
<1>2. CASE r.chunked
  <2> DEFINE cs == FlattenSeq(Chunks(r))
             s == << Unit("size", 0) >> \o Eol
             ts == LinesOf(r.trailers)
             tz == TrailersAhead(r, z, 0)
             p == (s \o ts) \o Eol
  <2>1. Payload(r) = cs \o p
      BY <1>2 DEF Payload, Chunks
  <2>2. cs \in Piece /\ Onward(Chunks(r), 0 + 1) = cs
    <3>1. Chunks(r) \in Seq(Seq(Units))
        BY ChunksAre, PiecesAre DEF ChunksIn
    <3>2. cs \in Seq(Units) /\ Onward(Chunks(r), 1) = cs
        BY <3>1, AllAhead
    <3>3. QED BY <3>2, PiecesAre
  <2>3. s \in Piece
    <3>1. << Unit("size", 0) >> \in Inline
        BY ChunksFollow, Zenon
    <3>2. QED BY <3>1, EndedLine DEF EndedIs
  <2>4. ts \in Piece /\ Onward(Ended(r.trailers), 0 + 1) = ts
    <3>1. r.trailers \in Seq(Inline)
        BY DEF RequestIs
    <3>2. Ended(r.trailers) \in Seq(Seq(Units))
        BY <3>1, EndedIn, PiecesAre
    <3>3. ts \in Piece /\ ts = FlattenSeq(Ended(r.trailers))
        BY <3>1, LinesAre DEF LinesIs
    <3>4. QED BY <3>2, <3>3, AllAhead
  <2>5. tz = ts \o (Eol \o z)
      BY <2>4 DEF TrailersAhead
  <2>6. ChunksAhead(r, z, 0) = cs \o (s \o tz)
      BY <2>2 DEF ChunksAhead
  <2> HIDE DEF cs, s, ts, tz
  <2>7. s \o ts \in Piece /\ Eol \o z \in Piece
      BY <2>3, <2>4, PiecesAre, ConcatIs
  <2>8. p \in Piece
      BY <2>7, PiecesAre, ConcatIs
  <2>9. Payload(r) \in Piece
      BY <2>1, <2>2, <2>8, ConcatIs
  <2>10. p \o z = s \o tz
    <3>1. Regrouped(s \o ts, Eol, z) /\ Regrouped(s, ts, Eol \o z)
        BY <2>3, <2>4, <2>7, PiecesAre, PiecesJoin
    <3>2. QED BY <2>5, <3>1 DEF Regrouped
  <2> HIDE DEF p
  <2>11. Payload(r) \o z = cs \o (s \o tz)
    <3>1. Regrouped(cs, p, z)
        BY <2>2, <2>8, PiecesJoin
    <3>2. QED BY <2>1, <2>10, <3>1 DEF Regrouped
  <2>12. QED BY <1>2, <2>6, <2>9, <2>11 DEF PayloadIs
<1>3. QED BY <1>1, <1>2

SentIs(r, z) ==
    /\ Sent(r) \in Piece
    /\ Sent(r) \o z = (r.first \o Eol) \o HeadersAhead(r, z, 0)

LEMMA SentHas ==
    ASSUME NEW r, RequestIs(r), NEW z \in Piece
    PROVE  SentIs(r, z)
<1> DEFINE f == r.first \o Eol
           hs == LinesOf(Headers(r))
           p == Payload(r)
<1>1. f \in Piece
    BY EndedLine DEF RequestIs, EndedIs
<1>2. hs \in Piece /\ Onward(Ended(Headers(r)), 0 + 1) = hs
  <2>1. Headers(r) \in Seq(Inline)
      BY DEF RequestIs
  <2>2. Ended(Headers(r)) \in Seq(Seq(Units))
      BY <2>1, EndedIn, PiecesAre
  <2>3. hs \in Piece /\ hs = FlattenSeq(Ended(Headers(r)))
      BY <2>1, LinesAre DEF LinesIs
  <2>4. QED BY <2>2, <2>3, AllAhead
<1>3. p \in Piece
    BY PayloadHas DEF PayloadIs
<1>4. Sent(r) = ((f \o hs) \o Eol) \o p
    BY DEF Sent
<1>5. HeadersAhead(r, z, 0) = hs \o (Eol \o (p \o z))
    BY <1>2 DEF HeadersAhead
<1> HIDE DEF f, hs, p
<1>6. f \o hs \in Piece /\ p \o z \in Piece
    BY <1>1, <1>2, <1>3, ConcatIs
<1>7. (f \o hs) \o Eol \in Piece /\ Eol \o (p \o z) \in Piece
    BY <1>6, PiecesAre, ConcatIs
<1>8. Sent(r) \in Piece
    BY <1>3, <1>4, <1>7, ConcatIs
<1>9. /\ Regrouped((f \o hs) \o Eol, p, z) /\ Regrouped(f \o hs, Eol, p \o z)
      /\ Regrouped(f, hs, Eol \o (p \o z))
    BY <1>1, <1>2, <1>3, <1>6, <1>7, PiecesAre, PiecesJoin
<1>10. Sent(r) \o z = f \o (hs \o (Eol \o (p \o z)))
    BY <1>4, <1>9 DEF Regrouped
<1>11. QED BY <1>5, <1>8, <1>10 DEF SentIs, f

-----------------------------------------------------------------------------
(***************************************************************************)
(* What a line says: without its end, cut off within, and an empty one.    *)
(***************************************************************************)
LEMMA StrippedIn ==
    ASSUME NEW l \in Piece
    PROVE  /\ Stripped(l) \in Piece
           /\ \A n \in 0 .. Len(l) :
                 /\ \A i \in n + 1 .. Len(l) : l[i] \in {Cr, Lf}
                 /\ n = 0 \/ l[n] \notin {Cr, Lf}
                 => Stripped(l) = SubSeq(l, 1, n)
           /\ l # <<>> /\ l[1] \notin {Cr, Lf} => Stripped(l) # <<>> /\ Stripped(l)[1] = l[1]
<1> DEFINE E == {0} \cup {i \in DOMAIN l : l[i] \notin {Cr, Lf}}
           m == Max(E)
<1>1. l \in Seq(Units) /\ DOMAIN l = 1 .. Len(l) /\ Len(l) \in Nat
    BY PiecesAre
<1>2. E \in SUBSET (0 .. Len(l)) /\ E # {}
    BY <1>1
<1>3. \A i \in 0 .. Len(l) : i \in E <=> i = 0 \/ l[i] \notin {Cr, Lf}
    BY <1>1
<1>4. Stripped(l) = SubSeq(l, 1, m)
    BY DEF Stripped
<1> HIDE DEF E
<1>5. m \in E /\ \A y \in E : y <= m
    BY <1>1, <1>2, MaxUpTo
<1>6. m \in 0 .. Len(l)
    BY <1>2, <1>5
<1> HIDE DEF m
<1>7. Stripped(l) \in Seq(Units) /\ Len(Stripped(l)) = m /\ \A i \in 1 .. m : Stripped(l)[i] = l[i]
    BY <1>1, <1>4, <1>6, FirstOnes
<1>8. ASSUME NEW n \in 0 .. Len(l), \A i \in n + 1 .. Len(l) : l[i] \in {Cr, Lf},
             n = 0 \/ l[n] \notin {Cr, Lf}
      PROVE  m = n
  <2>1. n \in E
      BY <1>3, <1>8
  <2>2. n <= m /\ n \in Int /\ m \in Int
      BY <1>5, <1>6, <2>1
  <2>3. SUFFICES ASSUME n < m PROVE FALSE
      BY <2>2
  <2>4. m \in n + 1 .. Len(l) /\ m # 0
      BY <1>6, <2>2, <2>3
  <2>5. QED BY <1>3, <1>5, <1>6, <1>8, <2>4
<1>9. ASSUME l # <<>>, l[1] \notin {Cr, Lf}
      PROVE  Stripped(l) # <<>> /\ Stripped(l)[1] = l[1]
  <2>1. Len(l) >= 1
      BY <1>1, <1>9
  <2>2. 1 \in E
      BY <1>1, <1>3, <1>9, <2>1
  <2>3. 1 \in 1 .. m
      BY <1>5, <1>6, <2>2
  <2>4. Len(Stripped(l)) # 0
      BY <1>7, <2>3
  <2>5. QED BY <1>7, <2>3, <2>4
<1>10. QED BY <1>4, <1>7, <1>8, <1>9, PiecesAre

LEMMA StrippedWhole ==
    ASSUME NEW h \in Inline
    PROVE  Stripped(h \o Eol) = h
<1> DEFINE l == h \o Eol
           n == Len(h)
<1>1. /\ l \in Piece /\ Len(l) = n + 2 /\ n \in Nat
      /\ \A i \in 1 .. n : l[i] = h[i]
      /\ l[n + 1] = Cr /\ l[n + 2] = Lf
    BY EndedLine DEF EndedIs
<1>2. h \in Piece /\ \A i \in 1 .. n : h[i] \notin {Cr, Lf}
    BY InlineHas
<1>3. SubSeq(l, 1, n) = h
  <2>1. h \in Seq(Units) /\ Eol \in Seq(Units)
      BY <1>2, PiecesAre
  <2>2. QED BY <2>1, FirstOfConcat
<1> HIDE DEF l, n
<1>4. n \in 0 .. Len(l) /\ (n = 0 \/ n \in 1 .. n) /\ \A i \in n + 1 .. Len(l) : i = n + 1 \/ i = n + 2
    BY <1>1
<1>5. \A i \in n + 1 .. Len(l) : l[i] \in {Cr, Lf}
    BY <1>1, <1>4
<1>6. n = 0 \/ l[n] \notin {Cr, Lf}
    BY <1>1, <1>2, <1>4
<1>7. Stripped(l) = SubSeq(l, 1, n)
    BY <1>1, <1>4, <1>5, <1>6, StrippedIn
<1>8. QED BY <1>3, <1>7 DEF l

LEMMA StrippedEmpty ==
    ASSUME NEW l \in Piece, \A i \in 1 .. Len(l) : l[i] \in {Cr, Lf}
    PROVE  Stripped(l) = <<>>
<1>1. Len(l) \in Nat /\ l \in Seq(Units)
    BY PiecesAre, LenProperties
<1> DEFINE n == 0
<1>2. n \in 0 .. Len(l) /\ \A i \in n + 1 .. Len(l) : i \in 1 .. Len(l)
    BY <1>1
<1>3. n = 0
    OBVIOUS
<1> HIDE DEF n
<1>4. Stripped(l) = SubSeq(l, 1, n)
    BY <1>2, <1>3, StrippedIn
<1>5. SubSeq(l, 1, 0) = <<>>
    BY <1>1
<1>6. QED BY <1>3, <1>4, <1>5

\* What is read of a line before its end has come is a part of it.
PartOf(l, h) ==
    /\ Len(l) <= Len(h) + 1 /\ l # <<>>
    /\ h # <<>> => l[1] = h[1]
    /\ h = <<>> => \A i \in 1 .. Len(l) : l[i] \in {Cr, Lf}

LEMMA PartMet ==
    ASSUME NEW l \in Piece, l # <<>>, NoLf(l), NEW x \in Piece, NEW h \in Inline, NEW y \in Piece,
           l \o x = (h \o Eol) \o y
    PROVE  PartOf(l, h) /\ x # <<>>
<1> DEFINE he == h \o Eol
<1>1. /\ he \in Piece /\ Len(he) = Len(h) + 2 /\ Len(h) \in Nat
      /\ \A i \in 1 .. Len(h) : he[i] = h[i]
      /\ he[Len(h) + 1] = Cr /\ he[Len(h) + 2] = Lf
    BY EndedLine DEF EndedIs
<1> HIDE DEF he
<1>2. /\ Len(l) \in Nat /\ Len(y) \in Nat /\ Len(x) \in Nat /\ Len(l \o x) = Len(l) + Len(x)
      /\ \A i \in 1 .. Len(l) : (l \o x)[i] = l[i]
    BY ConcatIs
<1>3. /\ Len(he \o y) = Len(he) + Len(y)
      /\ \A i \in 1 .. Len(he) : (he \o y)[i] = he[i]
    BY <1>1, ConcatIs
<1>4. l \o x = he \o y
    BY DEF he
<1>5. Len(l) >= 1
    BY <1>2, PiecesAre
<1>6. Len(l) <= Len(h) + 1
  <2>1. SUFFICES ASSUME Len(l) >= Len(h) + 2 PROVE FALSE
      BY <1>1, <1>2
  <2>2. Len(h) + 2 \in 1 .. Len(l) /\ Len(h) + 2 \in 1 .. Len(he)
      BY <1>1, <1>2, <2>1
  <2>3. l[Len(h) + 2] = Lf
      BY <1>1, <1>2, <1>3, <1>4, <2>2
  <2>4. QED BY <2>2, <2>3 DEF NoLf
<1>7. \A i \in 1 .. Len(l) : l[i] = he[i] /\ i \in 1 .. Len(he)
    BY <1>1, <1>2, <1>3, <1>4, <1>6
<1>8. ASSUME h # <<>> PROVE l[1] = h[1]
  <2>1. Len(h) >= 1
      BY <1>1, <1>8, InlineHas, PiecesAre
  <2>2. 1 \in 1 .. Len(h) /\ 1 \in 1 .. Len(l)
      BY <1>1, <1>2, <1>5, <2>1
  <2>3. QED BY <1>1, <1>7, <2>2
<1>9. ASSUME h = <<>> PROVE \A i \in 1 .. Len(l) : l[i] \in {Cr, Lf}
  <2>1. Len(h) = 0
      BY <1>9
  <2>2. \A i \in 1 .. Len(l) : i = 1
      BY <1>2, <1>6, <2>1
  <2>3. he[1] = Cr
      BY <1>1, <2>1
  <2>4. QED BY <1>7, <2>2, <2>3
<1>10. Len(x) > 0
    BY <1>1, <1>2, <1>3, <1>4, <1>6
<1>11. x # <<>>
    BY <1>10, PiecesAre
<1>12. QED BY <1>6, <1>8, <1>9, <1>11 DEF PartOf

\* A whole line says what it was made of, and so does its first unit.
LEMMA WholeLine ==
    ASSUME NEW h \in Inline
    PROVE  /\ h \o Eol \in Piece /\ Stripped(h \o Eol) = h /\ h \o Eol # <<>>
           /\ Len(h \o Eol) = Len(h) + 2
           /\ h # <<>> => (h \o Eol)[1] = h[1] /\ h[1] \in Units /\ h[1] \notin {Cr, Lf}
<1>1. EndedIs(h)
    BY EndedLine
<1>2. Len(h \o Eol) > 0
    BY <1>1 DEF EndedIs
<1>3. ASSUME h # <<>> PROVE (h \o Eol)[1] = h[1] /\ h[1] \in Units /\ h[1] \notin {Cr, Lf}
  <2>1. h \in Seq(Units) /\ \A i \in 1 .. Len(h) : h[i] \notin {Cr, Lf}
      BY InlineHas, PiecesAre
  <2>2. 1 \in 1 .. Len(h)
      BY <1>3, <2>1
  <2>3. QED BY <1>1, <2>1, <2>2 DEF EndedIs
<1>4. QED BY <1>1, <1>2, <1>3, StrippedWhole, PiecesAre DEF EndedIs

SaysOf(l, h) ==
    /\ Stripped(l) \in Piece /\ Len(l) \in 1 .. Len(h) + 2
    /\ h # <<>> => Stripped(l) # <<>> /\ Stripped(l)[1] = h[1]
    /\ h = <<>> => Stripped(l) = <<>>

LEMMA LineSays ==
    ASSUME NEW l \in Piece, NEW h \in Inline, l = h \o Eol \/ PartOf(l, h)
    PROVE  SaysOf(l, h)
<1>1. h \in Piece /\ Len(h) \in Nat /\ Len(l) \in Nat /\ Stripped(l) \in Piece
    BY InlineHas, PiecesAre, LenProperties, StrippedIn
<1>2. CASE l = h \o Eol
  <2>1. Len(l) = Len(h) + 2 /\ Stripped(l) = h
      BY <1>2, WholeLine
  <2>2. Len(l) \in 1 .. Len(h) + 2
      BY <1>1, <2>1
  <2>3. QED BY <1>1, <2>1, <2>2 DEF SaysOf
<1>3. CASE PartOf(l, h)
  <2>1. l # <<>> /\ Len(l) <= Len(h) + 1
      BY <1>3 DEF PartOf
  <2>2. Len(l) \in 1 .. Len(h) + 2
    <3>1. Len(l) # 0
        BY <2>1, PiecesAre
    <3>2. QED BY <1>1, <2>1, <3>1
  <2>3. ASSUME h # <<>> PROVE Stripped(l) # <<>> /\ Stripped(l)[1] = h[1]
    <3>1. h[1] \notin {Cr, Lf} /\ l[1] = h[1]
        BY <1>3, <2>3, WholeLine DEF PartOf
    <3>2. QED BY <2>1, <3>1, StrippedIn
  <2>4. ASSUME h = <<>> PROVE Stripped(l) = <<>>
      BY <1>3, <2>4, StrippedEmpty DEF PartOf
  <2>5. QED BY <1>1, <2>2, <2>3, <2>4 DEF SaysOf
<1>4. QED BY <1>2, <1>3

-----------------------------------------------------------------------------
(***************************************************************************)
(* What the first j headers of a request said.                             *)
(***************************************************************************)
HeadType ==
    [first : Piece, length : Nat, chunked : BOOLEAN, bad : BOOLEAN, lines : Nat, bytes : Nat]

HeadAt(r, j, hd) ==
    /\ hd \in HeadType /\ hd.first = r.first
    /\ hd.lines = j /\ hd.bytes = Len(Passed(Ended(Headers(r)), j))
    /\ hd.bad => ~Fits(r)
    /\ hd.chunked = (r.chunked /\ j > Len(r.headers))
    /\ hd.length = IF ~r.chunked /\ j > Len(r.headers) THEN Len(FlattenSeq(r.body)) ELSE 0

Sane(r, hd) == (hd.bad => ~Fits(r)) /\ (hd.length > MaxBody => ~Fits(r))

\* A header whose first unit is u and whose line has n of them.
Counted(hd, n) == [hd EXCEPT !.lines = @ + 1, !.bytes = @ + n]
HeadWith(hd, u, n) ==
    CASE u[1] = "length" -> IF u[2] >= 0 THEN [Counted(hd, n) EXCEPT !.length = u[2]]
                            ELSE [Counted(hd, n) EXCEPT !.bad = TRUE]
      [] u[1] = "chunked" -> [Counted(hd, n) EXCEPT !.chunked = TRUE]
      [] OTHER -> Counted(hd, n)

HeadersSized(r, j, n) ==
    /\ Len(Passed(Ended(Headers(r)), j)) \in Nat
    /\ Len(Passed(Ended(Headers(r)), j + 1)) = Len(Passed(Ended(Headers(r)), j)) + Len(Headers(r)[j + 1]) + 2
    /\ Len(Passed(Ended(Headers(r)), j)) + n <= Len(LinesOf(r.headers)) + 3
    /\ Len(LinesOf(r.headers)) \in Nat

LEMMA HeadersSize ==
    ASSUME NEW r, Formed(r), NEW j \in 0 .. Len(Headers(r)) - 1, NEW n \in 1 .. Len(Headers(r)[j + 1]) + 2
    PROVE  HeadersSized(r, j, n)
<1> DEFINE hs == Headers(r)
           m == Ended(hs)
           L(k) == Len(Passed(m, k))
           k0 == Len(r.headers)
<1>1. RequestIs(r) /\ HeadersAre(r)
    BY RequestHas
<1>2. hs \in Seq(Inline) /\ Len(hs) \in Nat /\ k0 \in Nat /\ r.headers \in Seq(Inline)
    BY <1>1 DEF RequestIs
<1>3. Len(hs) = k0 \/ Len(hs) = k0 + 1
    BY <1>1 DEF HeadersAre
<1>4. /\ m \in Seq(Piece) /\ Len(m) = Len(hs)
      /\ \A i \in 1 .. Len(hs) : m[i] = hs[i] \o Eol /\ hs[i] \in Inline
    BY <1>2, EndedIn
<1>5. m \in Seq(Seq(Units))
    BY <1>4, PiecesAre
<1>6. \A i \in 0 .. Len(hs) : Passed(m, i) \in Seq(Units)
  <2>1. \A i \in 0 .. Len(m) : CutThere(m, Units, i)
      BY <1>5, CutAnywhere
  <2>2. QED BY <1>4, <2>1 DEF CutThere
<1>7. \A i \in 0 .. Len(hs) : L(i) \in Nat
    BY <1>6, LenProperties
<1>8. \A i \in 1 .. Len(hs) : Len(hs[i]) \in Nat /\ L(i) = L(i - 1) + Len(hs[i]) + 2
  <2> SUFFICES ASSUME NEW i \in 1 .. Len(hs)
               PROVE  Len(hs[i]) \in Nat /\ L(i) = L(i - 1) + Len(hs[i]) + 2
      OBVIOUS
  <2>1. NextOf(m, Units, i)
      BY <1>4, <1>5, NextAhead
  <2>2. m[i] \in Piece /\ Passed(m, i) = Passed(m, i - 1) \o m[i]
      BY <2>1, PiecesAre DEF NextOf
  <2>3. i - 1 \in 0 .. Len(hs)
      BY <1>2
  <2>4. Passed(m, i - 1) \in Piece
      BY <1>6, <2>3, PiecesAre
  <2>5. L(i) = L(i - 1) + Len(m[i])
      BY <2>2, <2>4, ConcatIs
  <2>6. Len(m[i]) = Len(hs[i]) + 2 /\ Len(hs[i]) \in Nat
      BY <1>4, EndedLine DEF EndedIs
  <2>7. L(i - 1) \in Nat
      BY <1>7, <2>3
  <2> HIDE DEF L, hs, m
  <2>8. QED BY <2>5, <2>6, <2>7
<1>9. Passed(m, k0) = LinesOf(r.headers) /\ k0 \in 0 .. Len(hs)
  <2>1. k0 \in 0 .. Len(hs)
      BY <1>2, <1>3
  <2> DEFINE a == SubSeq(m, 1, k0)
             b == Ended(r.headers)
  <2>2. a \in Seq(Piece) /\ Len(a) = k0 /\ \A i \in 1 .. k0 : a[i] = m[i]
      BY <1>4, <2>1, FirstOnes
  <2>3. /\ b \in Seq(Piece) /\ Len(b) = k0
        /\ \A i \in 1 .. k0 : b[i] = r.headers[i] \o Eol
      BY <1>2, EndedIn
  <2>4. \A i \in 1 .. k0 : hs[i] = r.headers[i] /\ i \in 1 .. Len(hs)
      BY <1>1, <1>2, <2>1 DEF HeadersAre
  <2>5. \A i \in 1 .. k0 : a[i] = b[i]
      BY <1>4, <2>2, <2>3, <2>4
  <2> HIDE DEF a, b
  <2>6. a = b
      BY <2>2, <2>3, <2>5, SeqEqual
  <2>7. LinesOf(r.headers) = FlattenSeq(b)
      BY <1>2, LinesAre DEF LinesIs, b
  <2>8. QED BY <2>1, <2>6, <2>7 DEF a, Passed
<1>10. Len(hs) = k0 + 1 => Len(hs[k0 + 1]) = 1
  <2>1. \A u : Len(<< u >>) = 1
      OBVIOUS
  <2>2. QED BY <1>1, <2>1 DEF HeadersAre
<1> HIDE DEF hs, m
<1>11. n \in Int /\ j \in Int /\ n <= Len(hs[j + 1]) + 2 /\ j + 1 <= Len(hs) /\ j >= 0
    BY <1>2 DEF hs
<1>12. j \in 0 .. Len(hs) /\ j + 1 \in 1 .. Len(hs) /\ (j + 1) - 1 = j /\ j + 1 \in 0 .. Len(hs)
    BY <1>2, <1>11
<1>13. L(j) \in Nat /\ L(j + 1) = L(j) + Len(hs[j + 1]) + 2 /\ Len(hs[j + 1]) \in Nat
    BY <1>7, <1>8, <1>12
<1>14. L(k0) = Len(LinesOf(r.headers)) /\ L(k0) \in Nat
    BY <1>7, <1>9
<1>15. L(j + 1) <= L(k0) + 3
  <2>1. \A a \in 0 .. Len(hs) : \A b \in 0 .. Len(hs) : a <= b => L(a) <= L(b)
    <3> SUFFICES ASSUME NEW a \in 0 .. Len(hs) PROVE \A b \in 0 .. Len(hs) : a <= b => L(a) <= L(b)
        OBVIOUS
    <3> DEFINE P == {b \in 0 .. Len(hs) : a <= b => L(a) <= L(b)}
    <3>1. 0 \in P
        BY <1>2, <1>7
    <3>2. ASSUME NEW b \in 1 .. Len(hs), b - 1 \in P PROVE b \in P
      <4>1. b \in 0 .. Len(hs) /\ b - 1 \in 0 .. Len(hs) /\ a \in Int /\ b \in Int
          BY <1>2
      <4>2. L(b) = L(b - 1) + Len(hs[b]) + 2 /\ Len(hs[b]) \in Nat /\ L(b - 1) \in Nat /\ L(a) \in Nat /\ L(b) \in Nat
          BY <1>7, <1>8, <4>1
      <4>3. a <= b - 1 => L(a) <= L(b - 1)
          BY <3>2
      <4> HIDE DEF L
      <4>4. a <= b => L(a) <= L(b)
        <5>1. a = b \/ a <= b - 1 \/ ~(a <= b)
            BY <4>1
        <5>2. QED BY <4>2, <4>3, <5>1
      <4>5. QED BY <4>1, <4>4
    <3> HIDE DEF P
    <3>3. 0 .. Len(hs) \subseteq P
        BY <1>2, <3>1, <3>2, Upwards
    <3>4. QED BY <3>3 DEF P
  <2>2. CASE j + 1 <= k0
    <3>1. L(j + 1) <= L(k0)
        BY <1>9, <1>12, <2>1, <2>2
    <3>2. L(j + 1) \in Nat
        BY <1>7, <1>12
    <3> HIDE DEF L
    <3>3. QED BY <1>14, <3>1, <3>2
  <2>3. CASE ~(j + 1 <= k0)
    <3>1. j = k0 /\ Len(hs) = k0 + 1
        BY <1>2, <1>3, <1>11, <2>3
    <3>2. Len(hs[j + 1]) = 1
        BY <1>10, <3>1
    <3> HIDE DEF L
    <3>3. QED BY <1>13, <1>14, <3>1, <3>2
  <2>4. QED BY <2>2, <2>3
<1>16. L(j) + n <= L(k0) + 3
  <2> HIDE DEF L
  <2>1. QED BY <1>11, <1>13, <1>14, <1>15
<1>17. QED BY <1>13, <1>14, <1>16 DEF HeadersSized, L, m, hs

\* The next header either is within the limits or the request is not.
NextHead(r, j, hd, n) ==
    LET u == Headers(r)[j + 1][1]
        hd2 == HeadWith(hd, u, n)
    IN  /\ hd.lines + 1 > HeaderLines \/ hd.bytes + n > HeaderBytes => ~Fits(r)
        /\ hd2 \in HeadType /\ Sane(r, hd2)
        /\ n = Len(Headers(r)[j + 1]) + 2 => HeadAt(r, j + 1, hd2)

LEMMA HeadIsSane ==
    ASSUME NEW r, Formed(r), NEW j, NEW hd, HeadAt(r, j, hd)
    PROVE  Sane(r, hd)
<1>1. Len(FlattenSeq(r.body)) \in Nat
    BY RequestHas, PiecesAre, LenProperties DEF RequestIs
<1>2. hd.length <= Len(FlattenSeq(r.body))
    BY <1>1 DEF HeadAt
<1>3. MaxBody \in Nat /\ hd.length \in Int
    BY ReaderAssumption DEF HeadAt, HeadType
<1>4. QED BY <1>1, <1>2, <1>3 DEF Sane, Fits, HeadAt

LEMMA BodyInOne ==
    ASSUME NEW r, Formed(r), ~r.chunked, r.body # <<>>
    PROVE  FlattenSeq(r.body) = r.body[1] /\ Len(r.body[1]) \in Nat
<1>1. r.body \in Seq(Piece) /\ Len(r.body) <= 1 /\ Len(r.body) \in Nat
  <2>1. RequestIs(r)
      BY RequestHas
  <2>2. QED BY <2>1 DEF Formed, RequestIs
<1>2. Len(r.body) # 0
  <2> HIDE DEF Piece
  <2>1. QED BY <1>1, EmptySeq
<1>3. r.body = << r.body[1] >> /\ r.body[1] \in Piece
  <2>1. Len(r.body) = 1
    <3> DEFINE n == Len(r.body)
    <3>1. n <= 1 /\ n \in Nat /\ n # 0
        BY <1>1, <1>2
    <3> HIDE DEF n
    <3>2. n = 1
        BY <3>1
    <3>3. QED BY <3>2 DEF n
  <2> HIDE DEF Piece
  <2>2. QED BY <1>1, <2>1
<1>4. r.body[1] \in Seq(Units)
    BY <1>3, PiecesAre
<1>5. FlattenSeq(<< r.body[1] >>) = r.body[1]
    BY <1>4, FlattenOne
<1>6. QED BY <1>3, <1>4, <1>5, LenProperties

LEMMA HeaderSaid ==
    ASSUME NEW r, Formed(r), NEW j \in 0 .. Len(Headers(r)) - 1, NEW hd, HeadAt(r, j, hd),
           NEW n \in 1 .. Len(Headers(r)[j + 1]) + 2
    PROVE  NextHead(r, j, hd, n)
<1> DEFINE hs == Headers(r)
           u == hs[j + 1][1]
           hd2 == HeadWith(hd, u, n)
           k0 == Len(r.headers)
           c == Counted(hd, n)
           L(k) == Len(Passed(Ended(Headers(r)), k))
<1>1. RequestIs(r) /\ HeadersAre(r)
    BY RequestHas
<1>2. Len(hs) \in Nat /\ k0 \in Nat /\ (Len(hs) = k0 \/ Len(hs) = k0 + 1)
    BY <1>1 DEF RequestIs, HeadersAre
<1>3. HeadersSized(r, j, n)
    BY HeadersSize
<1>4. /\ L(j) \in Nat /\ L(j + 1) = L(j) + Len(hs[j + 1]) + 2
      /\ L(j) + n <= Len(LinesOf(r.headers)) + 3 /\ Len(LinesOf(r.headers)) \in Nat
    BY <1>3 DEF HeadersSized
<1>5. hd \in HeadType /\ hd.first = r.first /\ hd.lines = j /\ hd.bytes = L(j)
    BY DEF HeadAt
<1>6. n \in Nat /\ j \in Nat /\ j + 1 <= Len(hs)
  <2>1. Len(hs[j + 1]) \in Int \/ n \in 1 .. Len(hs[j + 1]) + 2
      OBVIOUS
  <2>2. QED BY <1>2, <2>1
<1> HIDE DEF L
<1>7. ASSUME hd.lines + 1 > HeaderLines \/ hd.bytes + n > HeaderBytes PROVE ~Fits(r)
  <2>1. HeaderLines \in Nat /\ HeaderBytes \in Nat
      BY ReaderAssumption
  <2>2. SUFFICES ASSUME k0 + 1 <= HeaderLines, Len(LinesOf(r.headers)) + 3 <= HeaderBytes PROVE FALSE
      BY DEF Fits
  <2>3. j + 1 <= k0 + 1
      BY <1>2, <1>6
  <2>4. j <= HeaderLines - 1 /\ HeaderLines \in Int
    <3> HIDE DEF hs, k0
    <3>1. QED BY <1>2, <1>6, <2>1, <2>2, <2>3
  <2>5. ~(hd.lines + 1 > HeaderLines)
      BY <1>5, <1>6, <2>4
  <2>6. L(j) + n <= HeaderBytes
    <3> DEFINE a == L(j) + n
               d == Len(LinesOf(r.headers))
    <3>1. a \in Int /\ d \in Int /\ a <= d + 3 /\ d + 3 <= HeaderBytes
        BY <1>4, <1>6, <2>2
    <3> HIDE DEF a, d
    <3>2. a <= HeaderBytes
        BY <2>1, <3>1
    <3>3. QED BY <3>2 DEF a
  <2>7. ~(hd.bytes + n > HeaderBytes)
      BY <1>4, <1>5, <1>6, <2>1, <2>6
  <2>8. QED BY <1>7, <2>5, <2>7
<1>8. /\ c \in HeadType /\ c.first = r.first /\ c.lines = j + 1 /\ c.bytes = L(j) + n
      /\ c.length = hd.length /\ c.chunked = hd.chunked /\ c.bad = hd.bad
  <2>1. hd.lines + 1 \in Nat /\ hd.bytes + n \in Nat
      BY <1>4, <1>5, <1>6
  <2>2. c = [hd EXCEPT !.lines = hd.lines + 1, !.bytes = hd.bytes + n]
      BY DEF Counted
  <2> HIDE DEF Piece
  <2>3. QED BY <1>5, <2>1, <2>2 DEF HeadType
<1>9. \A b \in BOOLEAN : [c EXCEPT !.bad = b] \in HeadType /\ [c EXCEPT !.chunked = b] \in HeadType
  <2> HIDE DEF Piece, c
  <2>1. QED BY <1>8 DEF HeadType
<1>10. \A i \in Nat : [c EXCEPT !.length = i] \in HeadType
  <2> HIDE DEF Piece, c
  <2>1. QED BY <1>8 DEF HeadType
<1> HIDE DEF c
<1>11. Sane(r, hd)
    BY HeadIsSane
<1>12. MaxBody \in Nat /\ 0 <= MaxBody
    BY ReaderAssumption
<1>13. n = Len(hs[j + 1]) + 2 => L(j + 1) = L(j) + n
  <2> HIDE DEF hs
  <2>1. SUFFICES ASSUME n = Len(hs[j + 1]) + 2 PROVE L(j + 1) = L(j) + n
      OBVIOUS
  <2>2. Len(hs[j + 1]) \in Int
      BY <1>1, <1>2, <1>6, EndedIn, InlineHas, PiecesAre, LenProperties DEF RequestIs, hs
  <2>3. QED BY <1>4, <2>1, <2>2
<1>14. CASE j + 1 <= k0
  <2>1. /\ hs[j + 1] = r.headers[j + 1] /\ hs[j + 1] # <<>>
        /\ u[1] \notin {"length", "chunked"} \/ u = Unit("length", -1)
    <3>1. j + 1 \in 1 .. k0
        BY <1>2, <1>6, <1>14
    <3>2. QED BY <1>1, <3>1 DEF HeadersAre
  <2>2. hd.length = 0 /\ hd.chunked = FALSE
    <3>1. ~(j > k0)
        BY <1>2, <1>6, <1>14
    <3>2. QED BY <3>1 DEF HeadAt
  <2>3. ~(j + 1 > k0)
      BY <1>2, <1>6, <1>14
  <2>4. CASE u[1] \notin {"length", "chunked"}
    <3>1. hd2 = c
        BY <2>4 DEF HeadWith, c
    <3>2. Sane(r, hd2)
        BY <1>8, <1>11, <3>1 DEF Sane
    <3>3. ASSUME n = Len(hs[j + 1]) + 2 PROVE HeadAt(r, j + 1, hd2)
      <4>1. hd2.bad => ~Fits(r)
          BY <3>2 DEF Sane
      <4>2. hd2.bytes = L(j + 1)
          BY <1>8, <1>13, <3>1, <3>3
      <4> HIDE DEF hd2, hs
      <4>3. QED BY <1>8, <2>2, <2>3, <3>1, <4>1, <4>2 DEF HeadAt, L
    <3>4. QED BY <1>7, <1>8, <3>1, <3>2, <3>3 DEF NextHead
  <2>5. CASE u = Unit("length", -1)
    <3>1. u[1] = "length" /\ u[2] = -1
        BY <2>5 DEF Unit
    <3>2. hd2 = [c EXCEPT !.bad = TRUE]
        BY <3>1 DEF HeadWith, c
    <3>3. ~Fits(r)
      <4>1. j + 1 \in DOMAIN r.headers /\ 1 \in DOMAIN hs[j + 1]
        <5>1. hs[j + 1] \in Seq(Units) /\ r.headers \in Seq(Inline) /\ j + 1 \in 1 .. k0
          <6>1. j + 1 \in 1 .. k0
              BY <1>2, <1>6, <1>14
          <6>2. r.headers \in Seq(Inline)
              BY <1>1 DEF RequestIs
          <6>3. hs[j + 1] \in Inline
              BY <2>1, <6>1, <6>2
          <6>4. QED BY <6>1, <6>2, <6>3, InlineHas, PiecesAre
        <5>2. QED BY <2>1, <5>1
      <4>2. hs[j + 1] \in ToSet(r.headers)
          BY <2>1, <4>1 DEF ToSet
      <4>3. u \in ToSet(hs[j + 1])
          BY <4>1 DEF ToSet
      <4>4. u \in UNION {ToSet(h) : h \in ToSet(r.headers)}
          BY <4>2, <4>3
      <4>5. QED BY <2>5, <4>4 DEF Fits
    <3> HIDE DEF u
    <3>4. /\ hd2 \in HeadType /\ hd2.first = r.first /\ hd2.lines = j + 1 /\ hd2.bytes = L(j) + n
          /\ hd2.length = 0 /\ hd2.chunked = FALSE
      <4> HIDE DEF hd2, Piece
      <4>1. hd2 \in HeadType
          BY <1>9, <3>2
      <4>2. QED BY <1>8, <2>2, <3>2, <4>1 DEF HeadType
    <3>5. Sane(r, hd2)
        BY <3>3 DEF Sane
    <3>6. ASSUME n = Len(hs[j + 1]) + 2 PROVE HeadAt(r, j + 1, hd2)
      <4>2. hd2.bytes = L(j + 1)
          BY <1>13, <3>4, <3>6
      <4> HIDE DEF hd2, hs
      <4>3. QED BY <2>3, <3>3, <3>4, <4>2 DEF HeadAt, L
    <3>7. QED BY <1>7, <3>4, <3>5, <3>6 DEF NextHead, u
  <2>6. QED BY <2>1, <2>4, <2>5
<1>15. CASE ~(j + 1 <= k0)
  <2>1. j = k0 /\ Len(hs) = k0 + 1 /\ j + 1 > k0 /\ ~(j > k0)
      BY <1>2, <1>6, <1>15
  <2>2. hs[j + 1] = << IF r.chunked THEN Unit("chunked", 0) ELSE Unit("length", Len(r.body[1])) >>
      BY <1>1, <2>1 DEF HeadersAre
  <2>3. u = IF r.chunked THEN Unit("chunked", 0) ELSE Unit("length", Len(r.body[1]))
      BY <2>2
  <2>4. hd.length = 0 /\ hd.chunked = FALSE
      BY <2>1 DEF HeadAt
  <2>5. CASE r.chunked
    <3>1. u[1] = "chunked"
        BY <2>3, <2>5 DEF Unit
    <3>2. hd2 = [c EXCEPT !.chunked = TRUE]
        BY <3>1 DEF HeadWith, c
    <3> HIDE DEF u
    <3>4. /\ hd2 \in HeadType /\ hd2.first = r.first /\ hd2.lines = j + 1 /\ hd2.bytes = L(j) + n
          /\ hd2.length = 0 /\ hd2.chunked = TRUE /\ hd2.bad = hd.bad
      <4> HIDE DEF hd2, Piece
      <4>1. hd2 \in HeadType
          BY <1>9, <3>2
      <4>2. QED BY <1>8, <2>4, <3>2, <4>1 DEF HeadType
    <3>5. Sane(r, hd2)
        BY <1>11, <1>12, <3>4 DEF Sane
    <3>6. ASSUME n = Len(hs[j + 1]) + 2 PROVE HeadAt(r, j + 1, hd2)
      <4>2. hd2.bytes = L(j + 1)
          BY <1>13, <3>4, <3>6
      <4>3. hd2.bad => ~Fits(r)
          BY <3>5 DEF Sane
      <4> HIDE DEF hd2, hs
      <4>4. QED BY <2>1, <2>5, <3>4, <4>2, <4>3 DEF HeadAt, L
    <3>7. QED BY <1>7, <3>4, <3>5, <3>6 DEF NextHead, u
  <2>6. CASE ~r.chunked
    <3> DEFINE b == Len(FlattenSeq(r.body))
    <3>1. r.body # <<>>
        BY <1>1, <2>1, <2>6 DEF HeadersAre
    <3>2. u = Unit("length", b) /\ b \in Nat
        BY <2>3, <2>6, <3>1, BodyInOne
    <3> HIDE DEF b
    <3>3. u[1] = "length" /\ u[2] = b /\ b >= 0
        BY <3>2 DEF Unit
    <3>4. hd2 = [c EXCEPT !.length = b]
        BY <3>3 DEF HeadWith, c
    <3> HIDE DEF u
    <3>5. /\ hd2 \in HeadType /\ hd2.first = r.first /\ hd2.lines = j + 1 /\ hd2.bytes = L(j) + n
          /\ hd2.length = b /\ hd2.chunked = FALSE /\ hd2.bad = hd.bad
      <4> HIDE DEF hd2, Piece
      <4>1. hd2 \in HeadType
          BY <1>10, <3>2, <3>4
      <4>2. QED BY <1>8, <2>4, <3>4, <4>1 DEF HeadType
    <3>6. Sane(r, hd2)
      <4>1. b > MaxBody => ~Fits(r)
          BY <1>12, <3>2 DEF Fits, b
      <4>2. QED BY <1>11, <3>5, <4>1 DEF Sane
    <3>7. ASSUME n = Len(hs[j + 1]) + 2 PROVE HeadAt(r, j + 1, hd2)
      <4>2. hd2.bytes = L(j + 1)
          BY <1>13, <3>5, <3>7
      <4>3. hd2.bad => ~Fits(r)
          BY <3>6 DEF Sane
      <4> HIDE DEF hd2, hs
      <4>4. QED BY <2>1, <2>6, <3>5, <4>2, <4>3 DEF HeadAt, L, b
    <3>8. QED BY <1>7, <3>5, <3>6, <3>7 DEF NextHead, u
  <2>7. QED BY <2>5, <2>6
<1>16. QED BY <1>14, <1>15

-----------------------------------------------------------------------------
(***************************************************************************)
(* Where the reader is: what it has taken of a line or of bytes and what   *)
(* is still to come of them, x, is what the rest of the request r and the  *)
(* requests after it, z, are sent as.                                      *)
(***************************************************************************)
HeaderPlace(r, z, ln, hd, bd, x) ==
    /\ bd = <<>> /\ NoLf(ln)
    /\ \E j \in 0 .. Len(Headers(r)) : HeadAt(r, j, hd) /\ ln \o x = HeadersAhead(r, z, j)

SizePlace(r, z, ln, bd, x) ==
    /\ r.chunked /\ NoLf(ln)
    /\ \E c \in 0 .. Len(r.body) : bd = Passed(r.body, c) /\ ln \o x = ChunksAhead(r, z, c)

DataPlace(r, z, ln, nd, bd, x) ==
    /\ r.chunked /\ ln = <<>>
    /\ \E c \in 1 .. Len(r.body), q \in Piece :
          /\ bd \o q = Passed(r.body, c) /\ Len(q) = nd /\ nd > 0
          /\ x = q \o (Eol \o ChunksAhead(r, z, c))

EndingPlace(r, z, ln, nd, bd, x) ==
    /\ r.chunked
    /\ \E c \in 1 .. Len(r.body), q \in Piece :
          /\ bd = Passed(r.body, c) /\ ln \o q = Eol /\ Len(q) = nd /\ nd > 0
          /\ x = q \o ChunksAhead(r, z, c)

TrailerPlace(r, z, ln, bd, x) ==
    /\ r.chunked /\ NoLf(ln) /\ bd = FlattenSeq(r.body)
    /\ \E t \in 0 .. Len(r.trailers) : ln \o x = TrailersAhead(r, z, t)

BodyPlace(r, z, ln, nd, bd, x) ==
    /\ ~r.chunked /\ ln = <<>>
    /\ \E q \in Piece : bd \o q = FlattenSeq(r.body) /\ Len(q) = nd /\ nd > 0 /\ x = q \o z

Within(r, z, a, ln, nd, hd, bd, x) ==
    /\ hd.first = r.first
    /\ \/ a = "header" /\ HeaderPlace(r, z, ln, hd, bd, x)
       \/ a = "size" /\ SizePlace(r, z, ln, bd, x)
       \/ a = "data" /\ DataPlace(r, z, ln, nd, bd, x)
       \/ a = "ending" /\ EndingPlace(r, z, ln, nd, bd, x)
       \/ a = "trailer" /\ TrailerPlace(r, z, ln, bd, x)
       \/ a = "body" /\ BodyPlace(r, z, ln, nd, bd, x)

Later(cs, n) == Onward(Sents(cs), n + 1)

Exactly(cs, gt) == Len(gt) <= Len(cs) /\ \A i \in 1 .. Len(gt) : gt[i] = Asked(cs[i])

Between2(cs, gt, a, ln, hd, bd, x) ==
    a = "request" /\ hd = NoHead /\ bd = <<>> /\ NoLf(ln) /\ ln \o x = Later(cs, Len(gt))

OnTrack(cs, gt, a, ln, nd, hd, bd, x) ==
    /\ Exactly(cs, gt)
    /\ \/ Between2(cs, gt, a, ln, hd, bd, x)
       \/ /\ Len(gt) < Len(cs)
          /\ Within(cs[Len(gt) + 1], Later(cs, Len(gt) + 1), a, ln, nd, hd, bd, x)

\* The client left within a request, of which nothing is to come.
LeftOff(cs, gt, a, hd) ==
    IF a = "request"
    THEN Len(gt) <= Len(cs) /\ \A i \in 1 .. Len(gt) - 1 : gt[i] = Asked(cs[i])
    ELSE /\ Exactly(cs, gt) /\ Len(gt) < Len(cs)
         /\ a = "header" => Sane(cs[Len(gt) + 1], hd)

Read == [first : Piece, body : Piece]
Places == {"request", "header", "size", "data", "ending", "trailer", "body", "closed"}

ReaderTypes ==
    /\ calls \in Seq(Requests) /\ leaves \in {"no", "early", "pause"}
    /\ net \in Piece /\ avail \in Piece /\ at \in Places /\ line \in Piece /\ need \in Nat
    /\ head \in HeadType /\ body \in Piece /\ got \in Seq(Read) /\ refusal \in Nat

AsMade ==
    /\ Len(got) <= Len(calls)
    /\ \A i \in DOMAIN got : got[i] = Asked(calls[i]) \/ (i = Len(got) /\ leaves = "early")
    /\ refusal # 0 => \E r \in {calls[Len(got) + 1]} : ~Fits(r)
    /\ at = "closed" /\ refusal = 0 /\ leaves = "no" => Len(got) = Len(calls)

Reading ==
    /\ at # "closed" /\ refusal = 0
    /\ \E gone \in Piece :
          /\ leaves = "no" => gone = <<>>
          /\ OnTrack(calls, got, at, line, need, head, body, avail \o (net \o gone))

Leaving ==
    /\ at # "closed" /\ refusal = 0 /\ leaves = "early" /\ avail = <<>> /\ net = <<>> /\ line = <<>>
    /\ LeftOff(calls, got, at, head)

ReaderInv == leaves # "pause" => ReaderTypes /\ ((at = "closed" /\ AsMade) \/ Reading \/ Leaving)

LEMMA InvSays ==
    ASSUME ReaderInv
    PROVE  ReadAsMade
<1>1. SUFFICES ASSUME leaves # "pause" PROVE AsMade
    BY DEF ReadAsMade, AsMade
<1>2. ReaderTypes /\ DOMAIN got = 1 .. Len(got) /\ Len(got) \in Nat
    BY <1>1 DEF ReaderInv, ReaderTypes
<1>3. CASE at = "closed" /\ AsMade
    BY <1>3
<1>4. CASE Reading
  <2>1. Exactly(calls, got) /\ at # "closed" /\ refusal = 0
      BY <1>4 DEF Reading, OnTrack
  <2>2. QED BY <1>2, <2>1 DEF AsMade, Exactly
<1>5. CASE Leaving
  <2>1. at # "closed" /\ refusal = 0 /\ leaves = "early" /\ Len(got) <= Len(calls)
        /\ \A i \in 1 .. Len(got) - 1 : got[i] = Asked(calls[i])
      BY <1>2, <1>5 DEF Leaving, LeftOff, Exactly
  <2>2. \A i \in 1 .. Len(got) : i = Len(got) \/ i \in 1 .. Len(got) - 1
    <3> DEFINE n == Len(got)
    <3>1. n \in Nat
        BY <1>2
    <3> HIDE DEF n
    <3>2. \A i \in 1 .. n : i = n \/ i \in 1 .. n - 1
        BY <3>1
    <3>3. QED BY <3>2 DEF n
  <2>3. QED BY <1>2, <2>1, <2>2 DEF AsMade
<1>6. QED BY <1>1, <1>3, <1>4, <1>5 DEF ReaderInv

(***************************************************************************)
(* Types.                                                                  *)
(***************************************************************************)
ReadTypes ==
    /\ at \in Places /\ line \in Piece /\ need \in Nat
    /\ head \in HeadType /\ body \in Piece /\ got \in Seq(Read) /\ refusal \in Nat

LEMMA ReturnsTypes ==
    ASSUME ReaderTypes, NEW b \in Piece, Returns(b)
    PROVE  ReadTypes'
<1>1. head.first \in Piece
    BY DEF ReaderTypes, HeadType
<1>2. [first |-> head.first, body |-> b] \in Read
    BY <1>1 DEF Read
<1>3. got' \in Seq(Read)
  <2> HIDE DEF Read
  <2>1. QED BY <1>2 DEF Returns, ReaderTypes
<1>4. NoHead \in HeadType
    BY PiecesAre DEF NoHead, HeadType
<1>5. at' \in Places /\ line' \in Piece /\ need' \in Nat /\ body' \in Piece /\ refusal' \in Nat /\ head' = NoHead
    BY PiecesAre DEF Returns, ReaderTypes, Places
<1>6. QED BY <1>3, <1>4, <1>5 DEF ReadTypes

LEMMA RefusesTypes ==
    ASSUME ReaderTypes, NEW st \in Nat, Refuses(st)
    PROVE  ReadTypes'
BY PiecesAre DEF ReadTypes, ReaderTypes, Refuses, Places

LEMMA AwaitsTypes ==
    ASSUME ReaderTypes, NEW p \in Places, NEW n \in Nat, Awaits(p, n), UNCHANGED <<head, body>>
    PROVE  ReadTypes'
BY PiecesAre DEF ReadTypes, ReaderTypes, Awaits

LEMMA HeadedTypes ==
    ASSUME ReaderTypes, Headed
    PROVE  ReadTypes'
<1>1. head.length \in Nat
    BY DEF ReaderTypes, HeadType
<1>2. 400 \in Nat /\ 413 \in Nat /\ 0 \in Nat /\ "size" \in Places /\ "body" \in Places /\ <<>> \in Piece
    BY PiecesAre DEF Places
<1>3. CASE Refuses(400) \/ Refuses(413)
    BY <1>2, <1>3, RefusesTypes
<1>4. CASE Awaits("size", 0) /\ UNCHANGED <<head, body>>
    BY <1>2, <1>4, AwaitsTypes
<1>5. CASE Returns(<<>>)
    BY <1>2, <1>5, ReturnsTypes
<1>6. CASE Awaits("body", head.length) /\ UNCHANGED <<head, body>>
    BY <1>1, <1>2, <1>6, AwaitsTypes
<1>7. QED BY <1>3, <1>4, <1>5, <1>6 DEF Headed

LEMMA HeadWithType ==
    ASSUME NEW hd \in HeadType, NEW u \in Units, NEW n \in Nat
    PROVE  HeadWith(hd, u, n) \in HeadType /\ Counted(hd, n).lines = hd.lines + 1 /\ Counted(hd, n).bytes = hd.bytes + n
<1> DEFINE c == Counted(hd, n)
<1>1. c \in HeadType /\ c.lines = hd.lines + 1 /\ c.bytes = hd.bytes + n
  <2>1. hd.lines + 1 \in Nat /\ hd.bytes + n \in Nat
      BY DEF HeadType
  <2>2. c = [hd EXCEPT !.lines = hd.lines + 1, !.bytes = hd.bytes + n]
      BY DEF Counted
  <2> HIDE DEF Piece
  <2>3. QED BY <2>1, <2>2 DEF HeadType
<1> HIDE DEF c
<1>2. u[2] \in Int
    BY DEF Units
<1>3. /\ [c EXCEPT !.bad = TRUE] \in HeadType /\ [c EXCEPT !.chunked = TRUE] \in HeadType
      /\ \A i \in Nat : [c EXCEPT !.length = i] \in HeadType
  <2> HIDE DEF Piece
  <2>1. QED BY <1>1 DEF HeadType
<1>4. u[2] >= 0 => u[2] \in Nat
    BY <1>2
<1>5. HeadWith(hd, u, n) \in HeadType
    BY <1>1, <1>3, <1>4 DEF HeadWith, c
<1>6. QED BY <1>1, <1>5 DEF c

HeaderDid(l) ==
    IF head.lines + 1 > HeaderLines \/ head.bytes + Len(l) > HeaderBytes THEN Refuses(431)
    ELSE /\ head' = HeadWith(head, Stripped(l)[1], Len(l))
         /\ Awaits("header", 0) /\ UNCHANGED body

LEMMA HeaderDoes ==
    ASSUME ReaderTypes, NEW l \in Piece, Header(l), Stripped(l) # <<>>
    PROVE  HeaderDid(l) /\ Stripped(l)[1] \in Units
<1> DEFINE s == Stripped(l)
           c == Counted(head, Len(l))
<1>1. s \in Seq(Units) /\ Len(l) \in Nat /\ head \in HeadType
    BY StrippedIn, PiecesAre, LenProperties DEF ReaderTypes
<1>2. s[1] \in Units
    BY <1>1
<1>3. c.lines = head.lines + 1 /\ c.bytes = head.bytes + Len(l)
    BY <1>1, <1>2, HeadWithType
<1>4. IF c.lines > HeaderLines \/ c.bytes > HeaderBytes THEN Refuses(431)
      ELSE /\ head' = HeadWith(head, s[1], Len(l))
           /\ Awaits("header", 0) /\ UNCHANGED body
    BY DEF Header, HeadWith, Counted
<1>5. QED BY <1>2, <1>3, <1>4 DEF HeaderDid

LEMMA LineTypes ==
    ASSUME ReaderTypes, NEW l \in Piece, LineRead(l), AtLine
    PROVE  ReadTypes'
<1>1. /\ 400 \in Nat /\ 413 \in Nat /\ 431 \in Nat /\ 0 \in Nat /\ <<>> \in Piece
      /\ "size" \in Places /\ "body" \in Places /\ "header" \in Places /\ "trailer" \in Places /\ "data" \in Places
    BY PiecesAre DEF Places
<1>2. Stripped(l) \in Piece /\ Len(l) \in Nat /\ body \in Piece /\ head \in HeadType
    BY StrippedIn, PiecesAre, LenProperties DEF ReaderTypes
<1>3. ASSUME at = "request" PROVE ReadTypes'
  <2>1. head' = [head EXCEPT !.first = Stripped(l)] /\ Awaits("header", 0) /\ UNCHANGED body
      BY <1>3 DEF LineRead
  <2>2. head' \in HeadType
    <3> HIDE DEF Piece
    <3>1. QED BY <1>2, <2>1 DEF HeadType
  <2>3. QED BY <1>1, <2>1, <2>2, PiecesAre DEF ReadTypes, ReaderTypes, Awaits
<1>4. ASSUME at = "header" PROVE ReadTypes'
  <2>1. Header(l)
      BY <1>4 DEF LineRead
  <2>2. CASE Stripped(l) = <<>>
    <3>1. Headed
        BY <2>1, <2>2 DEF Header
    <3>2. QED BY <3>1, HeadedTypes
  <2>3. CASE Stripped(l) # <<>>
    <3>1. HeaderDid(l) /\ Stripped(l)[1] \in Units
        BY <2>1, <2>3, HeaderDoes
    <3>2. CASE Refuses(431)
        BY <1>1, <3>2, RefusesTypes
    <3>3. CASE head' = HeadWith(head, Stripped(l)[1], Len(l)) /\ Awaits("header", 0) /\ UNCHANGED body
      <4>1. head' \in HeadType
          BY <1>2, <3>1, <3>3, HeadWithType
      <4>2. QED BY <1>1, <3>3, <4>1, PiecesAre DEF ReadTypes, ReaderTypes, Awaits
    <3>4. QED BY <3>1, <3>2, <3>3 DEF HeaderDid
  <2>4. QED BY <2>2, <2>3
<1>5. ASSUME at = "size" PROVE ReadTypes'
  <2> DEFINE s == Stripped(l)
  <2>1. Size(l)
      BY <1>5 DEF LineRead
  <2>2. CASE Refuses(400) \/ Refuses(413)
      BY <1>1, <2>2, RefusesTypes
  <2>3. CASE Awaits("trailer", 0) /\ UNCHANGED <<head, body>>
      BY <1>1, <2>3, AwaitsTypes
  <2>4. CASE s # <<>> /\ ~(s[1][2] < 0) /\ Awaits("data", s[1][2]) /\ UNCHANGED <<head, body>>
    <3>1. s \in Seq(Units)
        BY <1>2, PiecesAre
    <3>2. s[1] \in Units
        BY <2>4, <3>1
    <3>3. s[1][2] \in Nat
        BY <2>4, <3>2 DEF Units
    <3>4. QED BY <1>1, <2>4, <3>3, AwaitsTypes
  <2>5. QED BY <2>1, <2>2, <2>3, <2>4 DEF Size
<1>6. ASSUME at = "trailer" PROVE ReadTypes'
  <2>1. CASE Awaits("trailer", 0) /\ UNCHANGED <<head, body>>
      BY <1>1, <2>1, AwaitsTypes
  <2>2. CASE Returns(body)
      BY <1>2, <2>2, ReturnsTypes
  <2>3. QED BY <1>6, <2>1, <2>2 DEF LineRead
<1>7. QED BY <1>3, <1>4, <1>5, <1>6 DEF AtLine

LEMMA TooLongTypes ==
    ASSUME ReaderTypes, TooLong, AtLine
    PROVE  ReadTypes'
<1>1. 400 \in Nat /\ 414 \in Nat /\ 431 \in Nat
    OBVIOUS
<1>2. CASE Refuses(400) \/ Refuses(414) \/ Refuses(431)
    BY <1>1, <1>2, RefusesTypes
<1>3. CASE Returns(body)
    BY <1>3, ReturnsTypes DEF ReaderTypes
<1>4. QED BY <1>2, <1>3 DEF TooLong, AtLine

LEMMA TypesKept ==
    ASSUME ReaderTypes, ReaderNext
    PROVE  ReaderTypes'
<1>0. /\ avail \in Piece /\ net \in Piece /\ line \in Piece /\ body \in Piece /\ need \in Nat
      /\ avail \in Seq(Units) /\ net \in Seq(Units) /\ Len(net) \in Nat /\ Len(avail) \in Nat
    BY PiecesAre, LenProperties DEF ReaderTypes
<1>1. ASSUME ReadTypes', calls' = calls, leaves' \in {"no", "early", "pause"}, avail' \in Piece, net' \in Piece
      PROVE  ReaderTypes'
    BY <1>1 DEF ReaderTypes, ReadTypes
<1>2. ASSUME UNCHANGED <<at, line, need, head, body, got, refusal>> PROVE ReadTypes'
    BY <1>2 DEF ReaderTypes, ReadTypes
<1>3. ASSUME Arrive PROVE ReaderTypes'
  <2>1. PICK k \in 1 .. Len(net) : avail' = SubSeq(net, 1, k) /\ net' = SubSeq(net, k + 1, Len(net))
      BY <1>3 DEF Arrive
  <2>2. k \in 0 .. Len(net)
      BY <1>0
  <2>3. avail' \in Seq(Units) /\ net' \in Seq(Units)
      BY <1>0, <2>1, <2>2, CutInTwo
  <2>4. UNCHANGED <<calls, leaves, at, line, need, head, body, got, refusal>>
      BY <1>3 DEF Arrive
  <2>5. QED BY <1>1, <1>2, <2>3, <2>4, PiecesAre DEF ReaderTypes
<1>4. ASSUME TakePiece PROVE ReaderTypes'
  <2> DEFINE k == UsedOf(avail)
             out == line \o SubSeq(avail, 1, k)
  <2>1. /\ AtLine /\ avail # <<>>
        /\ avail' = SubSeq(avail, k + 1, Len(avail)) /\ UNCHANGED <<calls, leaves, net>>
        /\ IF Len(out) > MaxLine THEN TooLong
           ELSE IF avail[k] = Lf THEN LineRead(out)
           ELSE line' = out /\ UNCHANGED <<at, need, head, body, got, refusal>>
      BY <1>4 DEF TakePiece, Used, UsedOf
  <2>2. k \in 0 .. Len(avail)
    <3>1. k \in 1 .. Len(avail)
        BY <1>0, <2>1, UsedIs
    <3> HIDE DEF k
    <3>2. QED BY <3>1
  <2> HIDE DEF k
  <2>3. avail' \in Piece /\ SubSeq(avail, 1, k) \in Piece
      BY <1>0, <2>1, <2>2, CutInTwo, PiecesAre
  <2>4. out \in Piece
      BY <1>0, <2>3, ConcatIs
  <2> HIDE DEF out
  <2>5. CASE TooLong
      BY <1>0, <1>1, <2>1, <2>3, <2>5, TooLongTypes DEF ReaderTypes
  <2>6. CASE LineRead(out)
      BY <1>0, <1>1, <2>1, <2>3, <2>4, <2>6, LineTypes DEF ReaderTypes
  <2>7. CASE line' = out /\ UNCHANGED <<at, need, head, body, got, refusal>>
    <3>1. ReadTypes'
        BY <2>4, <2>7 DEF ReaderTypes, ReadTypes
    <3>2. QED BY <1>0, <1>1, <2>1, <2>3, <3>1 DEF ReaderTypes
  <2>8. QED BY <2>1, <2>5, <2>6, <2>7
<1>5. ASSUME TakeBytes PROVE ReaderTypes'
  <2> DEFINE k == IF need < Len(avail) THEN need ELSE Len(avail)
             met == SubSeq(avail, 1, k)
  <2>1. /\ avail' = SubSeq(avail, k + 1, Len(avail)) /\ UNCHANGED <<calls, leaves, net>>
        /\ \/ Awaits("size", 0) /\ UNCHANGED <<head, body>>
           \/ Refuses(400)
           \/ line' = line \o met /\ need' = need - k /\ UNCHANGED <<at, head, body, got, refusal>>
           \/ Returns(body \o met)
           \/ body' = body \o met /\ Awaits("ending", 2) /\ UNCHANGED head
           \/ body' = body \o met /\ need' = need - k /\ UNCHANGED <<at, line, got, refusal, head>>
      BY <1>5 DEF TakeBytes
  <2>2. k \in 0 .. Len(avail) /\ need - k \in Nat
      BY <1>0
  <2> HIDE DEF k
  <2>3. avail' \in Piece /\ met \in Piece
      BY <1>0, <2>1, <2>2, CutInTwo, PiecesAre
  <2> HIDE DEF met
  <2>4. line \o met \in Piece /\ body \o met \in Piece
      BY <1>0, <2>3, ConcatIs
  <2>5. ReadTypes'
    <3>1. CASE Awaits("size", 0) /\ UNCHANGED <<head, body>>
        BY <3>1, AwaitsTypes DEF Places
    <3>2. CASE Refuses(400)
        BY <3>2, RefusesTypes
    <3>3. CASE line' = line \o met /\ need' = need - k /\ UNCHANGED <<at, head, body, got, refusal>>
        BY <2>2, <2>4, <3>3 DEF ReaderTypes, ReadTypes
    <3>4. CASE Returns(body \o met)
        BY <2>4, <3>4, ReturnsTypes
    <3>5. CASE body' = body \o met /\ Awaits("ending", 2) /\ UNCHANGED head
        BY <2>4, <3>5, PiecesAre DEF ReaderTypes, ReadTypes, Awaits, Places
    <3>6. CASE body' = body \o met /\ need' = need - k /\ UNCHANGED <<at, line, got, refusal, head>>
        BY <2>2, <2>4, <3>6 DEF ReaderTypes, ReadTypes
    <3>7. QED BY <2>1, <3>1, <3>2, <3>3, <3>4, <3>5, <3>6
  <2>6. QED BY <1>0, <1>1, <2>1, <2>3, <2>5 DEF ReaderTypes
<1>6. ASSUME MeetEof PROVE ReaderTypes'
  <2>1. UNCHANGED <<calls, leaves, net, avail>>
      BY <1>6 DEF MeetEof
  <2>2. ReadTypes'
    <3>1. CASE Refuses(0)
        BY <3>1, RefusesTypes
    <3>2. CASE ~AtBytes /\ LineRead(line)
      <4>1. AtLine
          BY <1>6, <3>2 DEF MeetEof, AtLine, AtBytes, ReaderTypes, Places
      <4>2. QED BY <1>0, <3>2, <4>1, LineTypes
    <3>3. CASE Headed
        BY <3>3, HeadedTypes
    <3>4. CASE Returns(body)
        BY <1>0, <3>4, ReturnsTypes
    <3>5. QED BY <1>6, <3>1, <3>2, <3>3, <3>4 DEF MeetEof
  <2>3. QED BY <1>1, <2>1, <2>2 DEF ReaderTypes
<1>7. ASSUME BreakOff PROVE ReaderTypes'
  <2>1. UNCHANGED <<calls, net, avail>> /\ leaves' \in {"no", "early", "pause"}
      BY <1>7 DEF BreakOff
  <2>2. Refuses(0) \/ Returns(body)
      BY <1>7 DEF BreakOff
  <2>3. ReadTypes'
      BY <1>0, <2>2, RefusesTypes, ReturnsTypes
  <2>4. QED BY <1>1, <2>1, <2>3 DEF ReaderTypes
<1>8. QED BY <1>3, <1>4, <1>5, <1>6, <1>7 DEF ReaderNext

-----------------------------------------------------------------------------
(***************************************************************************)
(* The line that is expected, and what comes after it.                     *)
(***************************************************************************)
RequestExpects(r, z, h, y) ==
    head = NoHead /\ body = <<>> /\ h = r.first /\ y = HeadersAhead(r, z, 0)

HeaderExpects(r, z, h, y) ==
    /\ body = <<>>
    /\ \/ \E j \in 0 .. Len(Headers(r)) - 1 :
             HeadAt(r, j, head) /\ h = Headers(r)[j + 1] /\ y = HeadersAhead(r, z, j + 1)
       \/ HeadAt(r, Len(Headers(r)), head) /\ h = <<>> /\ y = Payload(r) \o z

SizeExpects(r, z, h, y) ==
    /\ r.chunked /\ head.first = r.first
    /\ \/ \E c \in 1 .. Len(r.body) :
             /\ body = Passed(r.body, c - 1) /\ h = << Unit("size", Len(r.body[c])) >>
             /\ y = r.body[c] \o (Eol \o ChunksAhead(r, z, c))
       \/ /\ body = FlattenSeq(r.body) /\ h = << Unit("size", 0) >>
          /\ y = TrailersAhead(r, z, 0)

TrailerExpects(r, z, h, y) ==
    /\ r.chunked /\ head.first = r.first /\ body = FlattenSeq(r.body)
    /\ \/ \E t \in 0 .. Len(r.trailers) - 1 : h = r.trailers[t + 1] /\ y = TrailersAhead(r, z, t + 1)
       \/ h = <<>> /\ y = z

Expects(r, z, h, y) ==
    \/ at = "request" /\ RequestExpects(r, z, h, y)
    \/ at = "header" /\ HeaderExpects(r, z, h, y)
    \/ at = "size" /\ SizeExpects(r, z, h, y)
    \/ at = "trailer" /\ TrailerExpects(r, z, h, y)

LaterIs(cs, n) ==
    /\ Later(cs, n) \in Piece
    /\ n = Len(cs) => Later(cs, n) = <<>>
    /\ n < Len(cs) => /\ Formed(cs[n + 1]) /\ RequestIs(cs[n + 1])
                      /\ Later(cs, n) = Sent(cs[n + 1]) \o Later(cs, n + 1)
                      /\ Later(cs, n + 1) \in Piece

LEMMA SentsAre ==
    ASSUME NEW cs \in Seq(Requests)
    PROVE  Sents(cs) \in Seq(Seq(Units))
<1> DEFINE f(i) == Sent(cs[i])
<1>1. DOMAIN cs = 1 .. Len(cs) /\ Len(cs) \in Nat /\ \A i \in 1 .. Len(cs) : cs[i] \in Requests
    OBVIOUS
<1>2. \A i \in 1 .. Len(cs) : f(i) \in Piece
    BY <1>1, ReaderAssumption, RequestHas, SentHas, PiecesAre DEF SentIs
<1>3. Sents(cs) = [i \in 1 .. Len(cs) |-> f(i)]
    BY <1>1 DEF Sents
<1> HIDE DEF f
<1>4. Sents(cs) \in Seq(Piece)
  <2> HIDE DEF Piece
  <2>1. QED BY <1>1, <1>2, <1>3
<1>5. QED BY <1>4, PiecesAre

LEMMA LaterHas ==
    ASSUME NEW cs \in Seq(Requests), NEW n \in 0 .. Len(cs)
    PROVE  LaterIs(cs, n)
<1> DEFINE m == Sents(cs)
           f(i) == Sent(cs[i])
<1>1. DOMAIN cs = 1 .. Len(cs) /\ Len(cs) \in Nat /\ \A i \in 1 .. Len(cs) : cs[i] \in Requests
    OBVIOUS
<1>2. \A i \in 1 .. Len(cs) : Formed(cs[i]) /\ RequestIs(cs[i])
    BY <1>1, ReaderAssumption, RequestHas
<1>3. \A i \in 1 .. Len(cs) : f(i) \in Piece
    BY <1>2, SentHas, PiecesAre DEF SentIs
<1>4. m = [i \in 1 .. Len(cs) |-> f(i)]
    BY <1>1 DEF Sents
<1> HIDE DEF f
<1>5. m \in Seq(Piece) /\ Len(m) = Len(cs) /\ \A i \in 1 .. Len(cs) : m[i] = f(i)
  <2> HIDE DEF Piece, m
  <2>1. QED BY <1>1, <1>3, <1>4
<1> HIDE DEF m
<1>6. m \in Seq(Seq(Units))
    BY <1>5, PiecesAre
<1>7. \A k \in 0 .. Len(m) : Onward(m, k + 1) \in Piece
    BY <1>5, PiecesAre, AheadNext
<1>8. Later(cs, n) = Onward(m, n + 1)
    BY DEF Later, m
<1>9. Later(cs, n) \in Piece
    BY <1>5, <1>7, <1>8
<1>10. ASSUME n = Len(cs) PROVE Later(cs, n) = <<>>
    BY <1>5, <1>6, <1>8, <1>10, AllAhead
<1>11. ASSUME n < Len(cs)
       PROVE  /\ Formed(cs[n + 1]) /\ RequestIs(cs[n + 1])
              /\ Later(cs, n) = Sent(cs[n + 1]) \o Later(cs, n + 1)
              /\ Later(cs, n + 1) \in Piece
  <2>1. n + 1 \in 1 .. Len(cs) /\ n + 1 \in 1 .. Len(m) /\ n + 1 \in 0 .. Len(m)
      BY <1>1, <1>5, <1>11
  <2>2. NextOf(m, Units, n + 1)
      BY <1>6, <2>1, NextAhead
  <2>3. Onward(m, n + 1) = m[n + 1] \o Onward(m, (n + 1) + 1)
      BY <2>2 DEF NextOf
  <2>4. m[n + 1] = Sent(cs[n + 1])
      BY <1>5, <2>1 DEF f
  <2>5. Later(cs, n + 1) = Onward(m, (n + 1) + 1)
      BY DEF Later, m
  <2>6. QED BY <1>2, <1>7, <1>8, <2>1, <2>3, <2>4, <2>5
<1>12. QED BY <1>9, <1>10, <1>11 DEF LaterIs

\* The body of a request so far.
LEMMA BodyUpto ==
    ASSUME NEW r, RequestIs(r)
    PROVE  /\ Passed(r.body, 0) = <<>> /\ Passed(r.body, Len(r.body)) = FlattenSeq(r.body)
           /\ \A c \in 0 .. Len(r.body) : Passed(r.body, c) \in Piece /\ Len(Passed(r.body, c)) <= Len(FlattenSeq(r.body))
           /\ \A c \in 1 .. Len(r.body) : Passed(r.body, c) = Passed(r.body, c - 1) \o r.body[c]
<1> DEFINE m == r.body
<1>1. m \in Seq(Seq(Units)) /\ Len(m) \in Nat
    BY PiecesAre DEF RequestIs
<1> HIDE DEF m
<1>2. Passed(m, 0) = <<>> /\ Passed(m, Len(m)) = FlattenSeq(m)
    BY <1>1, AllAhead
<1>3. ASSUME NEW c \in 0 .. Len(m)
      PROVE  Passed(m, c) \in Piece /\ Len(Passed(m, c)) <= Len(FlattenSeq(m))
  <2>1. CutThere(m, Units, c)
      BY <1>1, CutAnywhere
  <2>2. Passed(m, c) \in Piece /\ Onward(m, c + 1) \in Piece /\ Passed(m, c) \o Onward(m, c + 1) = FlattenSeq(m)
      BY <2>1, PiecesAre DEF CutThere
  <2>3. /\ Len(FlattenSeq(m)) = Len(Passed(m, c)) + Len(Onward(m, c + 1))
        /\ Len(Passed(m, c)) \in Nat /\ Len(Onward(m, c + 1)) \in Nat
      BY <2>2, ConcatIs
  <2>4. QED BY <2>2, <2>3
<1>4. \A c \in 1 .. Len(m) : NextOf(m, Units, c)
    BY <1>1, NextAhead
<1>5. \A c \in 1 .. Len(m) : Passed(m, c) = Passed(m, c - 1) \o m[c]
    BY <1>4 DEF NextOf
<1>6. QED BY <1>2, <1>3, <1>5 DEF m

LEMMA AtEmpty ==
    ASSUME NEW x \in Piece
    PROVE  <<>> \o x = x /\ NoLf(<<>>)
BY PiecesAre, ConcatEmptySeq DEF NoLf

Expecting(r, z, x) ==
    \E h \in Inline, y \in Piece : Expects(r, z, h, y) /\ line \o x = (h \o Eol) \o y /\ NoLf(line)

LEMMA LineExpected ==
    ASSUME ReaderTypes, AtLine, NEW x \in Piece,
           OnTrack(calls, got, at, line, need, head, body, x)
    PROVE  \/ at = "request" /\ Len(got) = Len(calls) /\ line = <<>> /\ x = <<>>
           \/ /\ Len(got) < Len(calls)
              /\ Expecting(calls[Len(got) + 1], Later(calls, Len(got) + 1), x)
<1> DEFINE n == Len(got)
           r == calls[n + 1]
           z == Later(calls, n + 1)
<1>1. n \in Nat /\ Len(calls) \in Nat /\ calls \in Seq(Requests) /\ line \in Piece
    BY LenProperties DEF ReaderTypes
<1>2. n <= Len(calls)
    BY DEF OnTrack, Exactly
<1>3. n \in 0 .. Len(calls)
    BY <1>1, <1>2
<1>4. LaterIs(calls, n)
    BY <1>1, <1>3, LaterHas
<1>5. CASE n = Len(calls)
  <2>1. Between2(calls, got, at, line, head, body, x)
      BY <1>1, <1>5 DEF OnTrack
  <2>2. line \o x = <<>> /\ at = "request"
      BY <1>4, <1>5, <2>1 DEF Between2, LaterIs
  <2>3. Len(line) = 0 /\ Len(x) = 0
    <3>1. Len(line \o x) = Len(line) + Len(x) /\ Len(line) \in Nat /\ Len(x) \in Nat
        BY <1>1, ConcatIs
    <3>2. Len(line \o x) = 0
        BY <2>2
    <3>3. QED BY <3>1, <3>2
  <2>4. QED BY <1>1, <1>5, <2>2, <2>3, PiecesAre
<1>6. CASE n < Len(calls)
  <2>1. Formed(r) /\ RequestIs(r) /\ z \in Piece /\ Later(calls, n) = Sent(r) \o z
      BY <1>4, <1>6 DEF LaterIs
  <2>2. PayloadIs(r, z) /\ SentIs(r, z)
      BY <2>1, PayloadHas, SentHas
  <2>3. Payload(r) \in Piece /\ Payload(r) \o z \in Piece
      BY <2>1, <2>2, ConcatIs DEF PayloadIs
  <2>4. CASE Between2(calls, got, at, line, head, body, x)
    <3> DEFINE h == r.first
               y == HeadersAhead(r, z, 0)
    <3>1. h \in Inline /\ y \in Piece
      <4>1. 0 \in 0 .. Len(Headers(r))
          BY <2>1 DEF RequestIs
      <4>2. QED BY <2>1, <2>3, <4>1, HeadersFollow DEF RequestIs
    <3>2. line \o x = (h \o Eol) \o y /\ NoLf(line)
        BY <2>1, <2>2, <2>4 DEF Between2, SentIs
    <3>3. Expects(r, z, h, y)
        BY <2>4 DEF Expects, RequestExpects, Between2
    <3> HIDE DEF h, y
    <3>4. QED BY <1>6, <3>1, <3>2, <3>3 DEF Expecting
  <2>5. CASE Within(r, z, at, line, need, head, body, x)
    <3>1. head.first = r.first
        BY <2>5 DEF Within
    <3>2. CASE at = "header" /\ HeaderPlace(r, z, line, head, body, x)
      <4> DEFINE hs == Headers(r)
      <4>1. PICK j \in 0 .. Len(hs) : HeadAt(r, j, head) /\ line \o x = HeadersAhead(r, z, j)
          BY <3>2 DEF HeaderPlace
      <4>2. NoLf(line) /\ body = <<>>
          BY <3>2 DEF HeaderPlace
      <4>3. /\ \A i \in 0 .. Len(hs) : HeadersAhead(r, z, i) \in Piece
            /\ \A i \in 0 .. Len(hs) - 1 : HeaderNext(r, z, i)
            /\ HeadersAhead(r, z, Len(hs)) = (<<>> \o Eol) \o (Payload(r) \o z)
          BY <2>1, <2>3, HeadersFollow
      <4>4. hs \in Seq(Inline) /\ Len(hs) \in Nat
          BY <2>1 DEF RequestIs
      <4>5. CASE j = Len(hs)
        <5>1. Expects(r, z, <<>>, Payload(r) \o z)
            BY <3>2, <4>1, <4>2, <4>5 DEF Expects, HeaderExpects
        <5>2. line \o x = (<<>> \o Eol) \o (Payload(r) \o z)
            BY <4>1, <4>3, <4>5
        <5>3. QED BY <1>6, <2>3, <4>2, <5>1, <5>2, NoneInline DEF Expecting
      <4>6. CASE j # Len(hs)
        <5> DEFINE h == hs[j + 1]
                   y == HeadersAhead(r, z, j + 1)
        <5> HIDE DEF hs
        <5>1. j \in 0 .. Len(hs) - 1 /\ j + 1 \in 1 .. Len(hs) /\ j + 1 \in 0 .. Len(hs)
            BY <4>4, <4>6
        <5>2. h \in Inline
            BY <4>4, <5>1
        <5>3. y \in Piece /\ line \o x = (h \o Eol) \o y
            BY <4>1, <4>3, <5>1 DEF HeaderNext, hs
        <5>4. Expects(r, z, h, y)
            BY <3>2, <4>1, <4>2, <5>1 DEF Expects, HeaderExpects, hs
        <5> HIDE DEF h, y
        <5>5. QED BY <1>6, <4>2, <5>2, <5>3, <5>4 DEF Expecting
      <4>7. QED BY <4>5, <4>6
    <3>3. CASE at = "size" /\ SizePlace(r, z, line, body, x)
      <4> DEFINE b == r.body
      <4>1. PICK c \in 0 .. Len(b) : body = Passed(b, c) /\ line \o x = ChunksAhead(r, z, c)
          BY <3>3 DEF SizePlace
      <4>2. NoLf(line) /\ r.chunked
          BY <3>3 DEF SizePlace
      <4>3. /\ \A i \in 0 .. Len(b) : ChunksAhead(r, z, i) \in Piece
            /\ \A i \in 0 .. Len(b) - 1 : ChunkNext(r, z, i)
            /\ ChunksAhead(r, z, Len(b)) = (<< Unit("size", 0) >> \o Eol) \o TrailersAhead(r, z, 0)
            /\ << Unit("size", 0) >> \in Inline
          BY <2>1, ChunksFollow
      <4>4. Len(b) \in Nat /\ \A i \in 1 .. Len(b) : b[i] \in Piece
          BY <2>1 DEF RequestIs
      <4>5. CASE c = Len(b)
        <5> DEFINE h == << Unit("size", 0) >>
                   y == TrailersAhead(r, z, 0)
        <5>1. y \in Piece
          <6>1. 0 \in 0 .. Len(r.trailers)
              BY <2>1 DEF RequestIs
          <6>2. QED BY <2>1, <6>1, TrailersFollow
        <5>2. body = FlattenSeq(b)
            BY <2>1, <4>1, <4>5, BodyUpto
        <5>3. Expects(r, z, h, y)
            BY <3>1, <3>3, <4>2, <5>2 DEF Expects, SizeExpects
        <5>4. h \in Inline /\ line \o x = (h \o Eol) \o y
            BY <4>1, <4>3, <4>5
        <5> HIDE DEF h, y
        <5>5. QED BY <1>6, <4>2, <5>1, <5>3, <5>4 DEF Expecting
      <4>6. CASE c # Len(b)
        <5> DEFINE h == << Unit("size", Len(b[c + 1])) >>
                   y == b[c + 1] \o (Eol \o ChunksAhead(r, z, c + 1))
        <5> HIDE DEF b
        <5>1. c \in 0 .. Len(b) - 1 /\ c + 1 \in 1 .. Len(b) /\ c + 1 \in 0 .. Len(b) /\ (c + 1) - 1 = c
            BY <4>4, <4>6
        <5>2. b[c + 1] \in Piece
            BY <4>4, <5>1
        <5>3. h \in Inline
            BY <5>2, ChunkIs
        <5>4. y \in Piece
          <6>1. Eol \o ChunksAhead(r, z, c + 1) \in Piece
              BY <4>3, <5>1, PiecesAre, ConcatIs
          <6>2. QED BY <5>2, <6>1, ConcatIs
        <5>5. line \o x = (h \o Eol) \o y
            BY <4>1, <4>3, <5>1 DEF ChunkNext, b
        <5>6. Expects(r, z, h, y)
            BY <3>1, <3>3, <4>1, <4>2, <5>1 DEF Expects, SizeExpects, b
        <5> HIDE DEF h, y
        <5>7. QED BY <1>6, <4>2, <5>3, <5>4, <5>5, <5>6 DEF Expecting
      <4>7. QED BY <4>5, <4>6
    <3>4. CASE at = "trailer" /\ TrailerPlace(r, z, line, body, x)
      <4> DEFINE ts == r.trailers
      <4>1. PICK t \in 0 .. Len(ts) : line \o x = TrailersAhead(r, z, t)
          BY <3>4 DEF TrailerPlace
      <4>2. NoLf(line) /\ r.chunked /\ body = FlattenSeq(r.body)
          BY <3>4 DEF TrailerPlace
      <4>3. /\ \A i \in 0 .. Len(ts) : TrailersAhead(r, z, i) \in Piece
            /\ \A i \in 0 .. Len(ts) - 1 : TrailersAhead(r, z, i) = (ts[i + 1] \o Eol) \o TrailersAhead(r, z, i + 1)
            /\ TrailersAhead(r, z, Len(ts)) = (<<>> \o Eol) \o z
          BY <2>1, TrailersFollow
      <4>4. ts \in Seq(Inline) /\ Len(ts) \in Nat
          BY <2>1 DEF RequestIs
      <4>5. CASE t = Len(ts)
        <5>1. Expects(r, z, <<>>, z)
            BY <3>1, <3>4, <4>2 DEF Expects, TrailerExpects
        <5>2. line \o x = (<<>> \o Eol) \o z
            BY <4>1, <4>3, <4>5
        <5>3. QED BY <1>6, <2>1, <4>2, <5>1, <5>2, NoneInline DEF Expecting
      <4>6. CASE t # Len(ts)
        <5> DEFINE h == ts[t + 1]
                   y == TrailersAhead(r, z, t + 1)
        <5> HIDE DEF ts
        <5>1. t \in 0 .. Len(ts) - 1 /\ t + 1 \in 1 .. Len(ts) /\ t + 1 \in 0 .. Len(ts)
            BY <4>4, <4>6
        <5>2. h \in Inline
            BY <4>4, <5>1
        <5>3. y \in Piece /\ line \o x = (h \o Eol) \o y
            BY <4>1, <4>3, <5>1
        <5>4. Expects(r, z, h, y)
            BY <3>1, <3>4, <4>2, <5>1 DEF Expects, TrailerExpects, ts
        <5> HIDE DEF h, y
        <5>5. QED BY <1>6, <4>2, <5>2, <5>3, <5>4 DEF Expecting
      <4>7. QED BY <4>5, <4>6
    <3>5. QED BY <2>5, <3>2, <3>3, <3>4 DEF Within, AtLine
  <2>6. QED BY <1>6, <2>4, <2>5 DEF OnTrack
<1>7. QED BY <1>1, <1>2, <1>5, <1>6

(***************************************************************************)
(* What becomes of it: the connection ends rightly, or goes on.            *)
(***************************************************************************)
Misfit(r) == at' = "closed" /\ refusal' # 0 /\ ~Fits(r) /\ got' = got

LEMMA MisfitClosed ==
    ASSUME ReaderTypes, Exactly(calls, got), Len(got) < Len(calls), Misfit(calls[Len(got) + 1]), calls' = calls
    PROVE  AsMade'
<1>1. DOMAIN got = 1 .. Len(got)
    BY DEF ReaderTypes
<1>2. QED BY <1>1 DEF AsMade, Misfit, Exactly

LEMMA EarlyClosed ==
    ASSUME ReaderTypes, at' = "closed", refusal' = 0, got' = got, calls' = calls,
           \/ Exactly(calls, got) /\ (leaves' = "early" \/ Len(got) = Len(calls))
           \/ LeftOff(calls, got, at, head) /\ leaves' = "early"
    PROVE  AsMade'
<1>1. DOMAIN got = 1 .. Len(got) /\ Len(got) \in Nat
    BY LenProperties DEF ReaderTypes
<1>2. CASE Exactly(calls, got) /\ (leaves' = "early" \/ Len(got) = Len(calls))
    BY <1>1, <1>2 DEF AsMade, Exactly
<1>3. CASE LeftOff(calls, got, at, head) /\ leaves' = "early"
  <2> DEFINE n == Len(got)
  <2>1. n <= Len(calls) /\ \A i \in 1 .. n - 1 : got[i] = Asked(calls[i])
    <3>1. \A i \in 1 .. n - 1 : i \in 1 .. n
        BY <1>1
    <3>2. QED BY <1>3, <3>1 DEF LeftOff, Exactly
  <2> HIDE DEF n
  <2>2. n \in Nat /\ \A i \in 1 .. n : i = n \/ i \in 1 .. n - 1
    <3>1. n \in Nat
        BY <1>1 DEF n
    <3>2. QED BY <3>1
  <2>3. QED BY <1>1, <1>3, <2>1, <2>2 DEF AsMade, n
<1>4. QED BY <1>2, <1>3

LEMMA ReturnedIs ==
    ASSUME ReaderTypes, NEW b \in Piece, Returns(b)
    PROVE  /\ Len(got') = Len(got) + 1 /\ Len(got) \in Nat
           /\ got'[Len(got) + 1] = [first |-> head.first, body |-> b]
           /\ \A i \in 1 .. Len(got) : got'[i] = got[i]
<1> DEFINE e == [first |-> head.first, body |-> b]
<1>1. e \in Read
    BY DEF ReaderTypes, HeadType, Read
<1>2. got' = Append(got, e) /\ got \in Seq(Read)
    BY DEF Returns, ReaderTypes
<1> HIDE DEF e
<1>3. /\ Len(got') = Len(got) + 1 /\ Len(got) \in Nat /\ got'[Len(got) + 1] = e
      /\ \A i \in 1 .. Len(got) : got'[i] = got[i]
  <2> HIDE DEF Read
  <2>1. QED BY <1>1, <1>2, AppendProperties, LenProperties
<1>4. QED BY <1>3 DEF e

LEMMA ReturnedOnTrack ==
    ASSUME ReaderTypes, Exactly(calls, got), Len(got) < Len(calls), calls' = calls,
           head.first = calls[Len(got) + 1].first,
           NEW b \in Piece, b = FlattenSeq(calls[Len(got) + 1].body), Returns(b),
           NEW x, x = Later(calls, Len(got) + 1), x \in Piece
    PROVE  OnTrack(calls', got', at', line', need', head', body', x)
<1> DEFINE n == Len(got)
<1>1. /\ Len(got') = n + 1 /\ n \in Nat /\ Len(calls) \in Nat
      /\ got'[n + 1] = Asked(calls[n + 1])
      /\ \A i \in 1 .. n : got'[i] = got[i]
    BY ReturnedIs, LenProperties DEF Asked, ReaderTypes
<1>2. Exactly(calls', got')
  <2>1. n + 1 <= Len(calls)
      BY <1>1
  <2>2. \A i \in 1 .. n + 1 : i = n + 1 \/ i \in 1 .. n
      BY <1>1
  <2>3. \A i \in 1 .. n + 1 : got'[i] = Asked(calls[i])
      BY <1>1, <2>2 DEF Exactly
  <2>4. QED BY <1>1, <2>1, <2>3 DEF Exactly
<1>3. at' = "request" /\ line' = <<>> /\ head' = NoHead /\ body' = <<>>
    BY DEF Returns
<1>4. <<>> \o x = x /\ NoLf(<<>>)
    BY AtEmpty
<1>5. Between2(calls', got', at', line', head', body', x)
    BY <1>1, <1>3, <1>4 DEF Between2
<1>6. QED BY <1>2, <1>5 DEF OnTrack

LEMMA HeadedDoes ==
    ASSUME NEW r, Sane(r, head), Headed
    PROVE  \/ Misfit(r)
           \/ head.chunked /\ Awaits("size", 0) /\ UNCHANGED <<head, body>>
           \/ ~head.chunked /\ head.length = 0 /\ Returns(<<>>)
           \/ ~head.chunked /\ head.length # 0 /\ Awaits("body", head.length) /\ UNCHANGED <<head, body>>
BY DEF Headed, Sane, Refuses, Misfit

\* A request that does not fit has a line that is too long, or it is the body.
LEMMA LongLine ==
    ASSUME NEW r, Formed(r), NEW z \in Piece, NEW h \in Inline, NEW y, Expects(r, z, h, y),
           Len(h) + 2 > MaxLine, TooLong
    PROVE  Misfit(r)
<1>1. RequestIs(r) /\ HeadersAre(r) /\ MaxLine \in Nat /\ MaxLine >= 3
    BY RequestHas, ReaderAssumption
<1>2. CASE at = "request" /\ RequestExpects(r, z, h, y)
  <2>1. ~Fits(r)
    <3>1. r.first = h
        BY <1>2 DEF RequestExpects
    <3>2. ~(Len(h) + 2 <= MaxLine)
      <4>1. Len(h) \in Nat
          BY InlineHas, PiecesAre, LenProperties
      <4>2. QED BY <1>1, <4>1
    <3>3. QED BY <3>1, <3>2 DEF Fits
  <2>2. QED BY <1>2, <2>1 DEF TooLong, Refuses, Misfit
<1>3. ASSUME NEW u PROVE ~(h = << u >>) /\ h # <<>>
  <2>1. Len(<< u >>) = 1
      OBVIOUS
  <2>2. Len(<<>>) = 0
      OBVIOUS
  <2> DEFINE k == Len(h)
  <2>3. k # 1 /\ k # 0
    <3>1. k \in Nat /\ k + 2 > MaxLine
        BY InlineHas, PiecesAre, LenProperties
    <3> HIDE DEF k
    <3>2. QED BY <1>1, <3>1
  <2>4. QED BY <2>1, <2>2, <2>3
<1>4. CASE at = "header" /\ HeaderExpects(r, z, h, y)
  <2>1. PICK j \in 0 .. Len(Headers(r)) - 1 : h = Headers(r)[j + 1]
      BY <1>3, <1>4 DEF HeaderExpects
  <2>2. j + 1 \in 1 .. Len(r.headers)
    <3>1. Len(Headers(r)) \in Nat /\ Len(r.headers) \in Nat
        BY <1>1 DEF RequestIs
    <3>2. Len(Headers(r)) = Len(r.headers) \/ Len(Headers(r)) = Len(r.headers) + 1
        BY <1>1 DEF HeadersAre
    <3>3. SUFFICES ASSUME ~(j + 1 \in 1 .. Len(r.headers)) PROVE FALSE
        OBVIOUS
    <3>4. j = Len(r.headers) /\ Len(Headers(r)) = Len(r.headers) + 1
        BY <3>1, <3>2, <3>3
    <3>5. h = << IF r.chunked THEN Unit("chunked", 0) ELSE Unit("length", Len(r.body[1])) >>
        BY <1>1, <2>1, <3>4 DEF HeadersAre
    <3>6. QED BY <1>3, <3>5
  <2>3. h \in ToSet(r.headers)
    <3>1. h = r.headers[j + 1] /\ DOMAIN r.headers = 1 .. Len(r.headers)
        BY <1>1, <2>1, <2>2 DEF HeadersAre, RequestIs
    <3>2. QED BY <2>2, <3>1 DEF ToSet
  <2>4. ~Fits(r)
    <3>1. ~(Len(h) + 2 <= MaxLine)
      <4>1. Len(h) \in Nat
          BY InlineHas, PiecesAre, LenProperties
      <4>2. QED BY <1>1, <4>1
    <3>2. QED BY <2>3, <3>1 DEF Fits
  <2>5. QED BY <1>4, <2>4 DEF TooLong, Refuses, Misfit
<1>5. CASE at = "size" /\ SizeExpects(r, z, h, y)
    BY <1>3, <1>5 DEF SizeExpects
<1>6. CASE at = "trailer" /\ TrailerExpects(r, z, h, y)
  <2>1. PICK t \in 0 .. Len(r.trailers) - 1 : h = r.trailers[t + 1]
      BY <1>3, <1>6 DEF TrailerExpects
  <2>2. r.trailers \in Seq(Inline) /\ Len(r.trailers) \in Nat
      BY <1>1 DEF RequestIs
  <2>3. t + 1 \in DOMAIN r.trailers
      BY <2>2
  <2>4. h \in ToSet(r.trailers)
      BY <2>1, <2>3 DEF ToSet
  <2>5. Len(h) + 2 <= MaxLine /\ Len(h) \in Nat
      BY <2>4, InlineHas, PiecesAre, LenProperties DEF Formed
  <2>6. QED BY <1>1, <2>5
<1>7. QED BY <1>2, <1>4, <1>5, <1>6 DEF Expects

LEMMA ReturnedLeft ==
    ASSUME ReaderTypes, Exactly(calls, got), Len(got) < Len(calls), calls' = calls,
           NEW b \in Piece, Returns(b)
    PROVE  LeftOff(calls', got', at', head')
<1> DEFINE n == Len(got)
<1>1. /\ Len(got') = n + 1 /\ n \in Nat /\ Len(calls) \in Nat /\ at' = "request"
      /\ \A i \in 1 .. n : got'[i] = got[i]
    BY ReturnedIs, LenProperties DEF ReaderTypes, Returns
<1>2. \A i \in 1 .. n : got[i] = Asked(calls[i])
    BY DEF Exactly
<1>3. n + 1 <= Len(calls) /\ (n + 1) - 1 = n
    BY <1>1
<1> HIDE DEF n
<1>4. QED BY <1>1, <1>2, <1>3 DEF LeftOff

\* The headers have all been read.
LEMMA HeadDone ==
    ASSUME NEW r, Formed(r), HeadAt(r, Len(Headers(r)), head)
    PROVE  /\ head.chunked = r.chunked
           /\ ~r.chunked => head.length = Len(FlattenSeq(r.body))
<1> DEFINE n == Len(Headers(r))
           k == Len(r.headers)
<1>1. /\ n = k \/ n = k + 1
      /\ n = k <=> ~r.chunked /\ r.body = <<>>
      /\ r.chunked \in BOOLEAN
    BY RequestHas DEF RequestIs, HeadersAre
<1>2. k \in Nat /\ n \in Nat
    BY RequestHas DEF RequestIs
<1>3. head.chunked = (r.chunked /\ n > k)
    BY DEF HeadAt
<1>4. head.length = IF ~r.chunked /\ n > k THEN Len(FlattenSeq(r.body)) ELSE 0
    BY DEF HeadAt
<1>5. r.body = <<>> => Len(FlattenSeq(r.body)) = 0
    BY FlattenNone
<1> HIDE DEF n, k
<1>6. CASE n = k
  <2>1. ~(n > k)
      BY <1>2, <1>6
  <2>2. QED BY <1>1, <1>3, <1>4, <1>5, <1>6, <2>1
<1>7. CASE n # k
  <2>1. n > k
      BY <1>1, <1>2, <1>7
  <2>2. QED BY <1>1, <1>3, <1>4, <2>1
<1>8. QED BY <1>6, <1>7

KeepsOn(y) ==
    at' # "closed" /\ refusal' = 0 /\ OnTrack(calls', got', at', line', need', head', body', y)

LEMMA WithinGoesOn ==
    ASSUME Exactly(calls, got), Len(got) < Len(calls), calls' = calls, got' = got, refusal' = 0, at' # "closed",
           NEW y, Within(calls[Len(got) + 1], Later(calls, Len(got) + 1), at', line', need', head', body', y)
    PROVE  KeepsOn(y)
BY DEF KeepsOn, OnTrack

LEMMA ReturnedGoesOn ==
    ASSUME ReaderTypes, Exactly(calls, got), Len(got) < Len(calls), calls' = calls, refusal = 0,
           head.first = calls[Len(got) + 1].first,
           NEW b \in Piece, b = FlattenSeq(calls[Len(got) + 1].body), Returns(b),
           NEW x, x = Later(calls, Len(got) + 1), x \in Piece
    PROVE  KeepsOn(x)
<1>1. OnTrack(calls', got', at', line', need', head', body', x)
    BY ReturnedOnTrack
<1>2. at' = "request" /\ refusal' = 0
    BY DEF Returns
<1>3. QED BY <1>1, <1>2 DEF KeepsOn

LEMMA NextWithin ==
    ASSUME NEW j \in Int, NEW n \in Int, NEW k \in Int, n = k \/ n = k + 1, 0 <= j, j <= n - 1
    PROVE  j + 1 \in 1 .. k \/ (j + 1 = k + 1 /\ n = k + 1)
<1>1. j + 1 <= k => j + 1 \in 1 .. k
    OBVIOUS
<1>2. j + 1 <= k \/ (j + 1 = k + 1 /\ n = k + 1)
    OBVIOUS
<1>3. QED BY <1>1, <1>2

LEMMA WholeRead ==
    ASSUME ReaderTypes, refusal = 0, Exactly(calls, got), Len(got) < Len(calls), calls' = calls, AtLine,
           NEW r, r = calls[Len(got) + 1], NEW z, z = Later(calls, Len(got) + 1), Formed(r), z \in Piece,
           NEW h \in Inline, NEW y \in Piece, Expects(r, z, h, y), LineRead(h \o Eol)
    PROVE  Misfit(r) \/ KeepsOn(y)
<1> DEFINE l == h \o Eol
<1>1. l \in Piece /\ Stripped(l) = h /\ Len(l) = Len(h) + 2 /\ SaysOf(l, h)
    BY WholeLine, LineSays
<1> HIDE DEF l
<1>2. LineRead(l)
    BY DEF l
<1>3. RequestIs(r) /\ HeadersAre(r) /\ PayloadIs(r, z)
    BY RequestHas, PayloadHas
<1>4. <<>> \o y = y /\ NoLf(<<>>) /\ <<>> \in Piece
    BY AtEmpty, PiecesAre
<1>5. CASE at = "request" /\ RequestExpects(r, z, h, y)
  <2>1. /\ head' = [head EXCEPT !.first = h] /\ Awaits("header", 0) /\ UNCHANGED body
        /\ head = NoHead /\ body = <<>> /\ h = r.first /\ y = HeadersAhead(r, z, 0)
      BY <1>1, <1>2, <1>5 DEF LineRead, RequestExpects
  <2>2. at' = "header" /\ line' = <<>> /\ body' = <<>> /\ got' = got /\ refusal' = 0
      BY <2>1 DEF Awaits
  <2>3. head' = [first |-> h, length |-> 0, chunked |-> FALSE, bad |-> FALSE, lines |-> 0, bytes |-> 0]
      BY <2>1 DEF NoHead
  <2>4. HeadAt(r, 0, head')
    <3>1. head' \in HeadType
        BY <2>3, InlineHas DEF HeadType
    <3>2. Passed(Ended(Headers(r)), 0) = <<>>
      <4>1. Ended(Headers(r)) \in Seq(Seq(Units))
          BY <1>3, EndedIn, PiecesAre DEF RequestIs
      <4>2. QED BY <4>1, AllAhead
    <3>3. Len(<<>>) = 0 /\ ~(0 > Len(r.headers))
        BY <1>3 DEF RequestIs
    <3>4. head'.first = r.first /\ head'.lines = 0 /\ head'.bytes = 0 /\ head'.length = 0 /\ head'.chunked = FALSE /\ head'.bad = FALSE
        BY <2>1, <2>3
    <3>5. head'.bytes = Len(Passed(Ended(Headers(r)), 0))
        BY <3>2, <3>3, <3>4
    <3>6. QED BY <3>1, <3>3, <3>4, <3>5 DEF HeadAt
  <2>5. 0 \in 0 .. Len(Headers(r))
      BY <1>3 DEF RequestIs
  <2>6. HeaderPlace(r, z, line', head', body', y)
      BY <1>4, <2>1, <2>2, <2>4, <2>5 DEF HeaderPlace
  <2>7. head'.first = r.first
      BY <2>4 DEF HeadAt
  <2>8. Within(r, z, at', line', need', head', body', y)
      BY <2>2, <2>6, <2>7 DEF Within
  <2>9. QED BY <2>2, <2>8, WithinGoesOn
<1>6. ASSUME at = "header", body = <<>>, NEW j \in 0 .. Len(Headers(r)) - 1,
             HeadAt(r, j, head), h = Headers(r)[j + 1], y = HeadersAhead(r, z, j + 1)
      PROVE  Misfit(r) \/ KeepsOn(y)
  <2>1. h # <<>>
    <3> DEFINE n == Len(Headers(r))
               k == Len(r.headers)
    <3>0. n \in Nat /\ k \in Nat /\ (n = k \/ n = k + 1) /\ j \in 0 .. n - 1
        BY <1>3 DEF RequestIs, HeadersAre
    <3> HIDE DEF n, k
    <3>5. j + 1 \in 1 .. k \/ (j + 1 = k + 1 /\ n = k + 1)
      <4>1. j \in Int /\ 0 <= j /\ j <= n - 1 /\ n \in Int /\ k \in Int /\ (n = k \/ n = k + 1)
          BY <3>0
      <4>2. QED BY <4>1, NextWithin
    <3>1. j + 1 \in 1 .. Len(r.headers) \/ (j + 1 = Len(r.headers) + 1 /\ Len(Headers(r)) = Len(r.headers) + 1)
        BY <3>5 DEF n, k
    <3>2. CASE j + 1 \in 1 .. Len(r.headers)
        BY <1>3, <1>6, <3>2 DEF HeadersAre
    <3>3. CASE j + 1 = Len(r.headers) + 1 /\ Len(Headers(r)) = Len(r.headers) + 1
      <4>1. h = << IF r.chunked THEN Unit("chunked", 0) ELSE Unit("length", Len(r.body[1])) >>
          BY <1>3, <1>6, <3>3 DEF HeadersAre
      <4>2. QED BY <4>1
    <3>4. QED BY <3>1, <3>2, <3>3
  <2>2. HeaderDid(l)
      BY <1>1, <1>2, <1>6, <2>1, HeaderDoes DEF LineRead
  <2>3. Len(l) \in 1 .. Len(Headers(r)[j + 1]) + 2
      BY <1>1, <1>6 DEF SaysOf
  <2>4. NextHead(r, j, head, Len(l))
      BY <1>6, <2>3, HeaderSaid
  <2>5. CASE head.lines + 1 > HeaderLines \/ head.bytes + Len(l) > HeaderBytes
    <3>1. ~Fits(r) /\ Refuses(431)
        BY <2>2, <2>4, <2>5 DEF HeaderDid, NextHead
    <3>2. QED BY <3>1 DEF Misfit, Refuses
  <2>6. CASE ~(head.lines + 1 > HeaderLines \/ head.bytes + Len(l) > HeaderBytes)
    <3>1. head' = HeadWith(head, h[1], Len(l)) /\ Awaits("header", 0) /\ UNCHANGED body
        BY <1>1, <2>2, <2>6 DEF HeaderDid
    <3>2. at' = "header" /\ line' = <<>> /\ body' = <<>> /\ got' = got /\ refusal' = 0
        BY <1>6, <3>1 DEF Awaits
    <3>3. HeadAt(r, j + 1, head')
        BY <1>1, <1>6, <2>4, <3>1 DEF NextHead
    <3>4. j + 1 \in 0 .. Len(Headers(r))
        BY <1>3 DEF RequestIs
    <3>5. HeaderPlace(r, z, line', head', body', y)
        BY <1>4, <1>6, <3>2, <3>3, <3>4 DEF HeaderPlace
    <3>6. head'.first = r.first
        BY <3>3 DEF HeadAt
    <3>7. Within(r, z, at', line', need', head', body', y)
        BY <3>2, <3>5, <3>6 DEF Within
    <3>8. QED BY <3>2, <3>7, WithinGoesOn
  <2>7. QED BY <2>5, <2>6
<1>7. ASSUME at = "header", body = <<>>, HeadAt(r, Len(Headers(r)), head), h = <<>>, y = Payload(r) \o z
      PROVE  Misfit(r) \/ KeepsOn(y)
  <2>1. Headed
      BY <1>1, <1>2, <1>7 DEF LineRead, Header
  <2>2. head.chunked = r.chunked /\ (~r.chunked => head.length = Len(FlattenSeq(r.body)))
      BY <1>7, HeadDone
  <2>3. Sane(r, head) /\ head.first = r.first
      BY <1>7, HeadIsSane DEF HeadAt
  <2>4. CASE head.chunked /\ Awaits("size", 0) /\ UNCHANGED <<head, body>>
    <3>1. at' = "size" /\ line' = <<>> /\ body' = <<>> /\ got' = got /\ refusal' = 0 /\ head' = head
        BY <1>7, <2>4 DEF Awaits
    <3>2. y = ChunksAhead(r, z, 0)
        BY <1>3, <1>7, <2>2, <2>4 DEF PayloadIs
    <3>3. Passed(r.body, 0) = <<>> /\ 0 \in 0 .. Len(r.body)
      <4>1. Passed(r.body, 0) = <<>>
          BY <1>3, BodyUpto
      <4>2. Len(r.body) \in Nat
          BY <1>3 DEF RequestIs
      <4>3. QED BY <4>1, <4>2
    <3>4. SizePlace(r, z, line', body', y)
        BY <1>4, <2>2, <2>4, <3>1, <3>2, <3>3 DEF SizePlace
    <3>5. Within(r, z, at', line', need', head', body', y)
        BY <2>3, <3>1, <3>4 DEF Within
    <3>6. QED BY <3>1, <3>5, WithinGoesOn
  <2>5. ASSUME ~head.chunked
        PROVE  /\ FlattenSeq(r.body) \in Piece /\ y = FlattenSeq(r.body) \o z
               /\ head.length = Len(FlattenSeq(r.body)) /\ ~r.chunked
      BY <1>3, <1>7, <2>2, <2>5 DEF PayloadIs, RequestIs
  <2>6. CASE ~head.chunked /\ head.length = 0 /\ Returns(<<>>)
    <3>1. FlattenSeq(r.body) = <<>>
        BY <2>5, <2>6, PiecesAre, EmptySeq
    <3>2. y = z
        BY <2>5, <2>6, <3>1, AtEmpty
    <3>3. QED BY <1>4, <2>3, <2>6, <3>1, <3>2, ReturnedGoesOn
  <2>7. CASE ~head.chunked /\ head.length # 0 /\ Awaits("body", head.length) /\ UNCHANGED <<head, body>>
    <3> DEFINE q == FlattenSeq(r.body)
    <3>1. /\ at' = "body" /\ line' = <<>> /\ body' = <<>> /\ got' = got /\ refusal' = 0 /\ head' = head
          /\ need' = Len(q)
        BY <1>7, <2>5, <2>7 DEF Awaits
    <3>2. q \in Piece /\ y = q \o z /\ <<>> \o q = q
        BY <2>5, <2>7, AtEmpty
    <3>3. Len(q) > 0
      <4>1. Len(q) # 0
          BY <2>5, <2>7
      <4>2. Len(q) \in Nat
          BY <3>2, PiecesAre, LenProperties
      <4> HIDE DEF q
      <4>3. QED BY <4>1, <4>2
    <3>4. BodyPlace(r, z, line', need', body', y)
        BY <2>5, <2>7, <3>1, <3>2, <3>3 DEF BodyPlace
    <3>5. Within(r, z, at', line', need', head', body', y)
        BY <2>3, <3>1, <3>4 DEF Within
    <3>6. QED BY <3>1, <3>5, WithinGoesOn
  <2>8. QED BY <2>1, <2>3, <2>4, <2>6, <2>7, HeadedDoes
<1>8. ASSUME at = "size", SizeExpects(r, z, h, y)
      PROVE  Misfit(r) \/ KeepsOn(y)
  <2>1. Size(l)
      BY <1>2, <1>8 DEF LineRead
  <2>2. r.chunked /\ head.first = r.first
      BY <1>8 DEF SizeExpects
  <2>3. ASSUME NEW k \in Nat, h = << Unit("size", k) >>
        PROVE  IF k = 0 THEN Awaits("trailer", 0) /\ UNCHANGED <<head, body>>
               ELSE IF Len(body) + k > MaxBody THEN Refuses(413)
               ELSE Awaits("data", k) /\ UNCHANGED <<head, body>>
    <3>1. h # <<>> /\ h[1][1] = "size" /\ h[1][2] = k
        BY <2>3 DEF Unit
    <3>2. ~(k < 0)
        OBVIOUS
    <3>3. QED BY <1>1, <2>1, <3>1, <3>2 DEF Size
  <2>4. ASSUME NEW c \in 1 .. Len(r.body), body = Passed(r.body, c - 1), h = << Unit("size", Len(r.body[c])) >>,
               y = r.body[c] \o (Eol \o ChunksAhead(r, z, c))
        PROVE  Misfit(r) \/ KeepsOn(y)
    <3> DEFINE q == r.body[c]
               k == Len(q)
    <3>1. q \in Piece /\ k \in Nat /\ k # 0
        BY <1>3, <2>2, PiecesAre, EmptySeq, LenProperties DEF RequestIs
    <3>2. body \o q = Passed(r.body, c)
        BY <1>3, <2>4, BodyUpto
    <3>3. c \in 0 .. Len(r.body) /\ k > 0
        BY <3>1
    <3>4. Len(Passed(r.body, c)) <= Len(FlattenSeq(r.body))
        BY <1>3, <3>3, BodyUpto
    <3>5. Len(Passed(r.body, c)) = Len(body) + k /\ Len(body) \in Nat
      <4>1. body \in Piece
          BY DEF ReaderTypes
      <4>2. Len(body \o q) = Len(body) + Len(q) /\ Len(body) \in Nat
          BY <3>1, <4>1, ConcatIs
      <4>3. QED BY <3>2, <4>2
    <3>6. CASE Len(body) + k > MaxBody /\ Refuses(413)
      <4>1. ~(Len(FlattenSeq(r.body)) <= MaxBody)
        <5>1. Len(FlattenSeq(r.body)) \in Nat /\ MaxBody \in Nat
            BY <1>3, PiecesAre, LenProperties, ReaderAssumption DEF RequestIs
        <5> HIDE DEF k
        <5>2. QED BY <3>1, <3>4, <3>5, <3>6, <5>1
      <4>2. QED BY <3>6, <4>1 DEF Fits, Misfit, Refuses
    <3>7. CASE Awaits("data", k) /\ UNCHANGED <<head, body>>
      <4>1. at' = "data" /\ line' = <<>> /\ need' = k /\ head' = head /\ body' = body /\ got' = got /\ refusal' = 0
          BY <3>7 DEF Awaits
      <4> HIDE DEF q
      <4>2. DataPlace(r, z, line', need', body', y)
        <5>1. y = q \o (Eol \o ChunksAhead(r, z, c))
            BY <2>4 DEF q
        <5>2. QED BY <2>2, <3>1, <3>2, <3>3, <4>1, <5>1 DEF DataPlace
      <4>3. Within(r, z, at', line', need', head', body', y)
          BY <2>2, <4>1, <4>2 DEF Within
      <4>4. QED BY <4>1, <4>3, WithinGoesOn
    <3>8. QED BY <2>3, <2>4, <3>1, <3>6, <3>7
  <2>5. ASSUME body = FlattenSeq(r.body), h = << Unit("size", 0) >>, y = TrailersAhead(r, z, 0)
        PROVE  Misfit(r) \/ KeepsOn(y)
    <3>1. Awaits("trailer", 0) /\ UNCHANGED <<head, body>>
        BY <2>3, <2>5
    <3>2. at' = "trailer" /\ line' = <<>> /\ head' = head /\ body' = body /\ got' = got /\ refusal' = 0
        BY <3>1 DEF Awaits
    <3>3. 0 \in 0 .. Len(r.trailers)
        BY <1>3 DEF RequestIs
    <3>4. TrailerPlace(r, z, line', body', y)
        BY <1>4, <2>2, <2>5, <3>2, <3>3 DEF TrailerPlace
    <3>5. Within(r, z, at', line', need', head', body', y)
        BY <2>2, <3>2, <3>4 DEF Within
    <3>6. QED BY <3>2, <3>5, WithinGoesOn
  <2>6. QED BY <1>8, <2>4, <2>5 DEF SizeExpects
<1>9. ASSUME at = "trailer", TrailerExpects(r, z, h, y)
      PROVE  Misfit(r) \/ KeepsOn(y)
  <2>1. IF h # <<>> THEN Awaits("trailer", 0) /\ UNCHANGED <<head, body>> ELSE Returns(body)
      BY <1>1, <1>2, <1>9 DEF LineRead
  <2>2. r.chunked /\ head.first = r.first /\ body = FlattenSeq(r.body)
      BY <1>9 DEF TrailerExpects
  <2>3. ASSUME NEW t \in 0 .. Len(r.trailers) - 1, h = r.trailers[t + 1], y = TrailersAhead(r, z, t + 1)
        PROVE  Misfit(r) \/ KeepsOn(y)
    <3>1. Len(r.trailers) \in Nat /\ r.trailers \in Seq(Inline \ {<<>>})
        BY <1>3 DEF RequestIs, Formed
    <3>2. t + 1 \in 1 .. Len(r.trailers) /\ t + 1 \in 0 .. Len(r.trailers)
        BY <3>1
    <3>3. h # <<>>
        BY <2>3, <3>1, <3>2
    <3>4. at' = "trailer" /\ line' = <<>> /\ head' = head /\ body' = body /\ got' = got /\ refusal' = 0
        BY <2>1, <3>3 DEF Awaits
    <3>5. TrailerPlace(r, z, line', body', y)
        BY <1>4, <2>2, <2>3, <3>2, <3>4 DEF TrailerPlace
    <3>6. Within(r, z, at', line', need', head', body', y)
        BY <2>2, <3>4, <3>5 DEF Within
    <3>7. QED BY <3>4, <3>6, WithinGoesOn
  <2>4. ASSUME h = <<>>, y = z PROVE Misfit(r) \/ KeepsOn(y)
    <3>1. Returns(body) /\ body \in Piece
        BY <2>1, <2>4 DEF ReaderTypes
    <3>2. QED BY <2>2, <2>4, <3>1, ReturnedGoesOn
  <2>5. QED BY <1>9, <2>3, <2>4 DEF TrailerExpects
<1>10. QED BY <1>5, <1>6, <1>7, <1>8, <1>9 DEF Expects, HeaderExpects

GoesAway ==
    at' # "closed" /\ refusal' = 0 /\ line' = <<>> /\ LeftOff(calls', got', at', head')

\* The client left, and what had come of the line is taken for the whole of it.
LEMMA HeadedAway ==
    ASSUME ReaderTypes, refusal = 0, Exactly(calls, got), Len(got) < Len(calls), calls' = calls,
           NEW r, r = calls[Len(got) + 1], Sane(r, head), Headed
    PROVE  Misfit(r) \/ GoesAway
<1>1. CASE \E p \in {"size", "body"} : Awaits(p, 0) \/ Awaits(p, head.length)
  <2>1. at' \in {"size", "body"} /\ line' = <<>> /\ got' = got /\ refusal' = 0
      BY <1>1 DEF Awaits
  <2>2. QED BY <2>1 DEF GoesAway, LeftOff
<1>2. CASE Returns(<<>>)
  <2>1. LeftOff(calls', got', at', head')
      BY <1>2, PiecesAre, ReturnedLeft
  <2>2. QED BY <1>2, <2>1 DEF GoesAway, Returns
<1>3. QED BY <1>1, <1>2, HeadedDoes

LEMMA PartRead ==
    ASSUME ReaderTypes, refusal = 0, Exactly(calls, got), Len(got) < Len(calls), calls' = calls, AtLine,
           NEW r, r = calls[Len(got) + 1], NEW z, Formed(r),
           NEW h \in Inline, NEW y, Expects(r, z, h, y), PartOf(line, h), LineRead(line)
    PROVE  Misfit(r) \/ GoesAway
<1>1. line \in Piece /\ SaysOf(line, h)
    BY LineSays DEF ReaderTypes
<1>2. RequestIs(r) /\ HeadersAre(r)
    BY RequestHas
<1>3. CASE at = "request" /\ RequestExpects(r, z, h, y)
  <2>1. head' = [head EXCEPT !.first = Stripped(line)] /\ Awaits("header", 0) /\ head = NoHead
      BY <1>3 DEF LineRead, RequestExpects
  <2>2. at' = "header" /\ line' = <<>> /\ got' = got /\ refusal' = 0
      BY <2>1 DEF Awaits
  <2>3. head'.bad = FALSE /\ head'.length = 0
      BY <2>1 DEF NoHead
  <2>4. Sane(r, head')
      BY <2>3, ReaderAssumption DEF Sane
  <2>5. QED BY <2>2, <2>4 DEF GoesAway, LeftOff
<1>4. ASSUME at = "header", NEW j \in 0 .. Len(Headers(r)) - 1,
             HeadAt(r, j, head), h = Headers(r)[j + 1]
      PROVE  Misfit(r) \/ GoesAway
  <2>1. CASE h = <<>>
    <3>1. Headed
        BY <1>1, <1>4, <2>1 DEF LineRead, Header, SaysOf
    <3>2. Sane(r, head)
        BY <1>4, HeadIsSane
    <3>3. QED BY <3>1, <3>2, HeadedAway
  <2>2. CASE h # <<>>
    <3>1. HeaderDid(line) /\ Stripped(line)[1] = h[1]
        BY <1>1, <1>4, <2>2, HeaderDoes DEF LineRead, SaysOf
    <3>2. Len(line) \in 1 .. Len(Headers(r)[j + 1]) + 2
        BY <1>1, <1>4 DEF SaysOf
    <3>3. NextHead(r, j, head, Len(line))
        BY <1>4, <3>2, HeaderSaid
    <3>4. CASE head.lines + 1 > HeaderLines \/ head.bytes + Len(line) > HeaderBytes
      <4>1. ~Fits(r) /\ Refuses(431)
          BY <3>1, <3>3, <3>4 DEF HeaderDid, NextHead
      <4>2. QED BY <4>1 DEF Misfit, Refuses
    <3>5. CASE ~(head.lines + 1 > HeaderLines \/ head.bytes + Len(line) > HeaderBytes)
      <4>1. head' = HeadWith(head, h[1], Len(line)) /\ Awaits("header", 0)
          BY <3>1, <3>5 DEF HeaderDid
      <4>2. at' = "header" /\ line' = <<>> /\ got' = got /\ refusal' = 0
          BY <4>1 DEF Awaits
      <4>3. Sane(r, head')
          BY <1>4, <3>3, <4>1 DEF NextHead
      <4>4. QED BY <4>2, <4>3 DEF GoesAway, LeftOff
    <3>6. QED BY <3>4, <3>5
  <2>3. QED BY <2>1, <2>2
<1>5. ASSUME at = "header", HeadAt(r, Len(Headers(r)), head), h = <<>>
      PROVE  Misfit(r) \/ GoesAway
  <2>1. Headed
      BY <1>1, <1>5 DEF LineRead, Header, SaysOf
  <2>2. Sane(r, head)
      BY <1>5, HeadIsSane
  <2>3. QED BY <2>1, <2>2, HeadedAway
<1>6. ASSUME at = "size", SizeExpects(r, z, h, y)
      PROVE  Misfit(r) \/ GoesAway
  <2>1. Size(line)
      BY <1>6 DEF LineRead
  <2>2. ASSUME NEW k \in Nat, h = << Unit("size", k) >>
        PROVE  IF k = 0 THEN Awaits("trailer", 0) /\ UNCHANGED <<head, body>>
               ELSE IF Len(body) + k > MaxBody THEN Refuses(413)
               ELSE Awaits("data", k) /\ UNCHANGED <<head, body>>
    <3>1. h # <<>> /\ h[1][1] = "size" /\ h[1][2] = k
        BY <2>2 DEF Unit
    <3>2. ~(k < 0)
        OBVIOUS
    <3>3. Stripped(line) # <<>> /\ Stripped(line)[1] = h[1]
        BY <1>1, <3>1 DEF SaysOf
    <3>4. QED BY <2>1, <3>1, <3>2, <3>3 DEF Size
  <2>3. ASSUME NEW p \in {"trailer", "data"}, NEW k, Awaits(p, k) PROVE GoesAway
    <3>1. at' = p /\ line' = <<>> /\ got' = got /\ refusal' = 0
        BY <2>3 DEF Awaits
    <3>2. QED BY <3>1 DEF GoesAway, LeftOff
  <2>4. ASSUME NEW c \in 1 .. Len(r.body), body = Passed(r.body, c - 1), h = << Unit("size", Len(r.body[c])) >>
        PROVE  Misfit(r) \/ GoesAway
    <3> DEFINE q == r.body[c]
               k == Len(q)
    <3>1. q \in Piece /\ k \in Nat
        BY <1>2, PiecesAre, LenProperties DEF RequestIs
    <3>2. body \o q = Passed(r.body, c)
        BY <1>2, <2>4, BodyUpto
    <3>3. c \in 0 .. Len(r.body)
        OBVIOUS
    <3>4. Len(Passed(r.body, c)) <= Len(FlattenSeq(r.body))
        BY <1>2, <3>3, BodyUpto
    <3>5. Len(Passed(r.body, c)) = Len(body) + k /\ Len(body) \in Nat
      <4>1. body \in Piece
          BY DEF ReaderTypes
      <4>2. Len(body \o q) = Len(body) + Len(q) /\ Len(body) \in Nat
          BY <3>1, <4>1, ConcatIs
      <4>3. QED BY <3>2, <4>2
    <3>6. CASE Len(body) + k > MaxBody /\ Refuses(413)
      <4>1. ~(Len(FlattenSeq(r.body)) <= MaxBody)
        <5>1. Len(FlattenSeq(r.body)) \in Nat /\ MaxBody \in Nat
            BY <1>2, PiecesAre, LenProperties, ReaderAssumption DEF RequestIs
        <5> HIDE DEF k
        <5>2. QED BY <3>1, <3>4, <3>5, <3>6, <5>1
      <4>2. QED BY <3>6, <4>1 DEF Fits, Misfit, Refuses
    <3>7. CASE \E p \in {"trailer", "data"} : Awaits(p, 0) \/ Awaits(p, k)
        BY <2>3, <3>7
    <3>8. QED BY <2>2, <2>4, <3>1, <3>6, <3>7
  <2>5. ASSUME h = << Unit("size", 0) >> PROVE GoesAway
    <3>1. Awaits("trailer", 0)
        BY <2>2, <2>5
    <3>2. QED BY <2>3, <3>1
  <2>6. QED BY <1>6, <2>4, <2>5 DEF SizeExpects
<1>7. CASE at = "trailer"
  <2>1. CASE Awaits("trailer", 0)
    <3>1. at' = "trailer" /\ line' = <<>> /\ got' = got /\ refusal' = 0
        BY <2>1 DEF Awaits
    <3>2. QED BY <3>1 DEF GoesAway, LeftOff
  <2>2. CASE Returns(body)
    <3>1. LeftOff(calls', got', at', head')
        BY <2>2, ReturnedLeft DEF ReaderTypes
    <3>2. QED BY <2>2, <3>1 DEF GoesAway, Returns
  <2>3. QED BY <1>7, <2>1, <2>2 DEF LineRead
<1>8. QED BY <1>3, <1>4, <1>5, <1>6, <1>7 DEF Expects, HeaderExpects

-----------------------------------------------------------------------------
(***************************************************************************)
(* Bytes: those of a chunk or a body, or the end of a chunk.               *)
(***************************************************************************)
LEMMA BytesRead ==
    ASSUME ReaderTypes, refusal = 0, Exactly(calls, got), Len(got) < Len(calls), AtBytes,
           NEW w \in Piece,
           NEW r, r = calls[Len(got) + 1], NEW z, z = Later(calls, Len(got) + 1), Formed(r), z \in Piece,
           Within(r, z, at, line, need, head, body, avail \o w), TakeBytes
    PROVE  KeepsOn(avail' \o w)
<1> DEFINE k == IF need < Len(avail) THEN need ELSE Len(avail)
           met == SubSeq(avail, 1, k)
           x == avail' \o w
<1>1. /\ avail' = SubSeq(avail, k + 1, Len(avail)) /\ calls' = calls
      /\ CASE at = "ending" ->
                 IF line \o met = Eol THEN Awaits("size", 0) /\ UNCHANGED <<head, body>>
                 ELSE IF k = need THEN Refuses(400)
                 ELSE line' = line \o met /\ need' = need - k
                        /\ UNCHANGED <<at, head, body, got, refusal>>
           [] at = "body" /\ k = need -> Returns(body \o met)
           [] OTHER -> /\ body' = body \o met
                       /\ IF k = need THEN Awaits("ending", 2)
                          ELSE need' = need - k /\ UNCHANGED <<at, line, got, refusal>>
                       /\ UNCHANGED head
    BY DEF TakeBytes
<1>2. RequestIs(r) /\ avail \in Piece /\ line \in Piece /\ body \in Piece /\ need \in Nat
    BY RequestHas DEF ReaderTypes
<1>3. head.first = r.first
    BY DEF Within
<1>4. ASSUME NEW q \in Piece, NEW y \in Piece, avail \o w = q \o y, Len(q) = need
      PROVE  /\ met \in Piece
             /\ k = need => met = q /\ x = y
             /\ k # need => \E p \in Piece : q = met \o p /\ x = p \o y /\ Len(p) = need - k /\ Len(p) > 0
  <2>1. BytesMet(avail, w, q, y)
      BY <1>2, <1>4, BytesMeet
  <2>2. /\ SubSeq(avail, 1, IF need < Len(avail) THEN need ELSE Len(avail)) = met
        /\ SubSeq(avail, (IF need < Len(avail) THEN need ELSE Len(avail)) + 1, Len(avail)) = avail'
        /\ (IF need < Len(avail) THEN need ELSE Len(avail)) = k
      BY <1>1
  <2> HIDE DEF k, met
  <2>3. /\ met \in Piece
        /\ k = need => met = q /\ avail' \o w = y
        /\ k # need => \E p \in Piece : q = met \o p /\ avail' \o w = p \o y /\ Len(p) = need - k /\ Len(p) > 0
      BY <1>4, <2>1, <2>2, Zenon DEF BytesMet
  <2>4. QED BY <2>3 DEF x
<1> HIDE DEF k, met, x
<1>6. CASE at = "ending" /\ EndingPlace(r, z, line, need, body, avail \o w)
  <2>1. PICK c \in 1 .. Len(r.body), q \in Piece :
              /\ body = Passed(r.body, c) /\ line \o q = Eol /\ Len(q) = need /\ need > 0
              /\ avail \o w = q \o ChunksAhead(r, z, c)
      BY <1>6 DEF EndingPlace
  <2>2. r.chunked
      BY <1>6 DEF EndingPlace
  <2> DEFINE y == ChunksAhead(r, z, c)
  <2>3. c \in 0 .. Len(r.body) /\ y \in Piece
    <3>1. c \in 0 .. Len(r.body)
        OBVIOUS
    <3>2. QED BY <1>2, <3>1, ChunksFollow
  <2>4. /\ met \in Piece
        /\ k = need => met = q /\ x = y
        /\ k # need => \E p \in Piece : q = met \o p /\ x = p \o y /\ Len(p) = need - k /\ Len(p) > 0
      BY <1>4, <2>1, <2>3
  <2> HIDE DEF y
  <2>5. IF line \o met = Eol THEN Awaits("size", 0) /\ UNCHANGED <<head, body>>
        ELSE IF k = need THEN Refuses(400)
        ELSE line' = line \o met /\ need' = need - k /\ UNCHANGED <<at, head, body, got, refusal>>
      BY <1>1, <1>6
  <2>6. CASE k = need
    <3>1. Awaits("size", 0) /\ UNCHANGED <<head, body>>
        BY <2>1, <2>4, <2>5, <2>6
    <3>2. at' = "size" /\ line' = <<>> /\ head' = head /\ body' = body /\ got' = got /\ refusal' = 0
        BY <3>1 DEF Awaits
    <3>3. <<>> \o x = ChunksAhead(r, z, c) /\ NoLf(<<>>)
        BY <2>3, <2>4, <2>6, AtEmpty DEF y
    <3>4. SizePlace(r, z, line', body', x)
        BY <2>1, <2>2, <2>3, <3>2, <3>3 DEF SizePlace
    <3>5. Within(r, z, at', line', need', head', body', x)
        BY <1>3, <3>2, <3>4 DEF Within
    <3>6. QED BY <1>1, <3>2, <3>5, WithinGoesOn DEF x
  <2>7. CASE k # need
    <3>1. PICK p \in Piece : q = met \o p /\ x = p \o y /\ Len(p) = need - k /\ Len(p) > 0
        BY <2>4, <2>7
    <3>8. line \in Piece /\ met \in Piece /\ p \in Piece
        BY <1>2, <2>4, <3>1
    <3>9. (line \o met) \o p = line \o (met \o p)
      <4>1. Regrouped(line, met, p)
          BY <3>8, PiecesJoin
      <4>2. QED BY <4>1 DEF Regrouped
    <3>2. (line \o met) \o p = Eol /\ line \o met \in Piece
        BY <1>2, <2>1, <2>4, <3>1, <3>9, ConcatIs
    <3>3. line \o met # Eol
      <4>1. Len(Eol) = Len(line \o met) + Len(p) /\ Len(p) \in Nat /\ Len(line \o met) \in Nat
          BY <3>2, ConcatIs
      <4>2. Len(Eol) # Len(line \o met)
        <5> DEFINE a == Len(Eol)
                   b == Len(line \o met)
                   d == Len(p)
        <5>1. a = b + d /\ d \in Nat /\ b \in Nat /\ d > 0
            BY <3>1, <4>1
        <5> HIDE DEF a, b, d
        <5>2. a # b
            BY <5>1
        <5>3. QED BY <5>2 DEF a, b
      <4>3. QED BY <4>2
    <3>4. line' = line \o met /\ need' = Len(p) /\ UNCHANGED <<at, head, body, got, refusal>>
        BY <2>5, <2>7, <3>1, <3>3
    <3>5. EndingPlace(r, z, line', need', body', x)
        BY <2>1, <2>2, <3>1, <3>2, <3>4 DEF EndingPlace, y
    <3>6. Within(r, z, at', line', need', head', body', x)
        BY <1>3, <1>6, <3>4, <3>5 DEF Within
    <3>7. at' # "closed" /\ refusal' = 0 /\ got' = got
        BY <1>6, <3>4
    <3>10. QED BY <1>1, <3>6, <3>7, WithinGoesOn DEF x
  <2>8. QED BY <2>6, <2>7
<1>7. CASE at = "data" /\ DataPlace(r, z, line, need, body, avail \o w)
  <2>1. PICK c \in 1 .. Len(r.body), q \in Piece :
              /\ body \o q = Passed(r.body, c) /\ Len(q) = need /\ need > 0
              /\ avail \o w = q \o (Eol \o ChunksAhead(r, z, c))
      BY <1>7 DEF DataPlace
  <2>2. r.chunked /\ line = <<>>
      BY <1>7 DEF DataPlace
  <2> DEFINE y == Eol \o ChunksAhead(r, z, c)
  <2>3. y \in Piece
    <3>1. c \in 0 .. Len(r.body)
        OBVIOUS
    <3>2. QED BY <1>2, <3>1, ChunksFollow, PiecesAre, ConcatIs
  <2>4. /\ met \in Piece
        /\ k = need => met = q /\ x = y
        /\ k # need => \E p \in Piece : q = met \o p /\ x = p \o y /\ Len(p) = need - k /\ Len(p) > 0
      BY <1>4, <2>1, <2>3
  <2> HIDE DEF y
  <2>5. /\ body' = body \o met /\ head' = head
        /\ IF k = need THEN Awaits("ending", 2)
           ELSE need' = need - k /\ UNCHANGED <<at, line, got, refusal>>
      BY <1>1, <1>7
  <2>6. CASE k = need
    <3>1. /\ at' = "ending" /\ line' = <<>> /\ need' = 2 /\ head' = head /\ got' = got /\ refusal' = 0
          /\ body' = Passed(r.body, c)
        BY <2>1, <2>4, <2>5, <2>6 DEF Awaits
    <3>2. <<>> \o Eol = Eol /\ Len(Eol) = 2 /\ Eol \in Piece
        BY PiecesAre, AtEmpty
    <3>3. x = Eol \o ChunksAhead(r, z, c)
        BY <2>4, <2>6 DEF y
    <3>6. \E d \in 1 .. Len(r.body), p \in Piece :
              /\ body' = Passed(r.body, d) /\ line' \o p = Eol /\ Len(p) = need' /\ need' > 0
              /\ x = p \o ChunksAhead(r, z, d)
      <4>1. line' \o Eol = Eol /\ Len(Eol) = need' /\ need' > 0 /\ c \in 1 .. Len(r.body)
          BY <3>1, <3>2
      <4>2. body' = Passed(r.body, c) /\ x = Eol \o ChunksAhead(r, z, c) /\ Eol \in Piece
          BY <3>1, <3>2, <3>3
      <4>3. QED BY <4>1, <4>2, Zenon
    <3>4. EndingPlace(r, z, line', need', body', x)
        BY <2>2, <3>6, Zenon DEF EndingPlace
    <3>5. Within(r, z, at', line', need', head', body', x)
        BY <1>3, <3>1, <3>4 DEF Within
    <3>7. QED BY <1>1, <3>1, <3>5, WithinGoesOn DEF x
  <2>7. CASE k # need
    <3>1. PICK p \in Piece : q = met \o p /\ x = p \o y /\ Len(p) = need - k /\ Len(p) > 0
        BY <2>4, <2>7
    <3>8. body \in Piece /\ met \in Piece /\ p \in Piece
        BY <1>2, <2>4, <3>1
    <3>9. (body \o met) \o p = body \o (met \o p)
      <4>1. Regrouped(body, met, p)
          BY <3>8, PiecesJoin
      <4>2. QED BY <4>1 DEF Regrouped
    <3>2. (body \o met) \o p = Passed(r.body, c)
        BY <2>1, <3>1, <3>9
    <3>3. need' = Len(p) /\ body' = body \o met /\ UNCHANGED <<at, line, head, got, refusal>>
        BY <2>5, <2>7, <3>1
    <3>4. DataPlace(r, z, line', need', body', x)
        BY <2>2, <3>1, <3>2, <3>3 DEF DataPlace, y
    <3>5. Within(r, z, at', line', need', head', body', x)
        BY <1>3, <1>7, <3>3, <3>4 DEF Within
    <3>6. at' # "closed" /\ refusal' = 0 /\ got' = got
        BY <1>7, <3>3
    <3>7. QED BY <1>1, <3>5, <3>6, WithinGoesOn DEF x
  <2>8. QED BY <2>6, <2>7
<1>8. CASE at = "body" /\ BodyPlace(r, z, line, need, body, avail \o w)
  <2>1. PICK q \in Piece :
              body \o q = FlattenSeq(r.body) /\ Len(q) = need /\ need > 0 /\ avail \o w = q \o z
      BY <1>8 DEF BodyPlace
  <2>2. ~r.chunked /\ line = <<>>
      BY <1>8 DEF BodyPlace
  <2>4. /\ met \in Piece
        /\ k = need => met = q /\ x = z
        /\ k # need => \E p \in Piece : q = met \o p /\ x = p \o z /\ Len(p) = need - k /\ Len(p) > 0
      BY <1>4, <2>1
  <2>6. CASE k = need
    <3>1. Returns(body \o met) /\ body \o met \in Piece /\ body \o met = FlattenSeq(r.body)
        BY <1>1, <1>2, <1>8, <2>1, <2>4, <2>6, ConcatIs
    <3>2. x = z
        BY <2>4, <2>6
    <3>3. QED BY <1>1, <1>3, <3>1, <3>2, ReturnedGoesOn DEF x
  <2>7. CASE k # need
    <3>1. PICK p \in Piece : q = met \o p /\ x = p \o z /\ Len(p) = need - k /\ Len(p) > 0
        BY <2>4, <2>7
    <3>8. body \in Piece /\ met \in Piece /\ p \in Piece
        BY <1>2, <2>4, <3>1
    <3>9. (body \o met) \o p = body \o (met \o p)
      <4>1. Regrouped(body, met, p)
          BY <3>8, PiecesJoin
      <4>2. QED BY <4>1 DEF Regrouped
    <3>2. (body \o met) \o p = FlattenSeq(r.body)
        BY <2>1, <3>1, <3>9
    <3>3. need' = Len(p) /\ body' = body \o met /\ UNCHANGED <<at, line, head, got, refusal>>
        BY <1>1, <1>8, <2>7, <3>1
    <3>4. BodyPlace(r, z, line', need', body', x)
        BY <2>2, <3>1, <3>2, <3>3 DEF BodyPlace
    <3>5. Within(r, z, at', line', need', head', body', x)
        BY <1>3, <1>8, <3>3, <3>4 DEF Within
    <3>6. at' # "closed" /\ refusal' = 0 /\ got' = got
        BY <1>8, <3>3
    <3>7. QED BY <1>1, <3>5, <3>6, WithinGoesOn DEF x
  <2>8. QED BY <2>6, <2>7
<1>9. QED BY <1>6, <1>7, <1>8 DEF Within, AtBytes

-----------------------------------------------------------------------------
(***************************************************************************)
(* The steps.                                                              *)
(***************************************************************************)
LEMMA NowRead ==
    ASSUME ReaderTypes, Len(got) < Len(calls)
    PROVE  /\ Formed(calls[Len(got) + 1]) /\ RequestIs(calls[Len(got) + 1])
           /\ Later(calls, Len(got) + 1) \in Piece
<1> DEFINE n == Len(got)
<1>1. n \in 0 .. Len(calls) /\ calls \in Seq(Requests)
    BY LenProperties DEF ReaderTypes
<1>2. LaterIs(calls, n)
    BY <1>1, LaterHas
<1>3. QED BY <1>2 DEF LaterIs

\* More of a line has come, and not its end.
LEMMA WaitsOn ==
    ASSUME AtLine, NEW x, NEW ln, NEW y, OnTrack(calls, got, at, line, need, head, body, x),
           ln \o y = line \o x, NoLf(ln)
    PROVE  OnTrack(calls, got, at, ln, need, head, body, y)
<1>1. Exactly(calls, got)
    BY DEF OnTrack
<1>2. CASE Between2(calls, got, at, line, head, body, x)
  <2>1. Between2(calls, got, at, ln, head, body, y)
      BY <1>2 DEF Between2
  <2>2. QED BY <1>1, <2>1 DEF OnTrack
<1>3. ASSUME Len(got) < Len(calls), NEW r, NEW z, Within(r, z, at, line, need, head, body, x)
      PROVE  Within(r, z, at, ln, need, head, body, y)
  <2>1. head.first = r.first
      BY <1>3 DEF Within
  <2>2. CASE at = "header" /\ HeaderPlace(r, z, line, head, body, x)
    <3>1. HeaderPlace(r, z, ln, head, body, y)
        BY <2>2 DEF HeaderPlace
    <3>2. QED BY <2>1, <2>2, <3>1 DEF Within
  <2>3. CASE at = "size" /\ SizePlace(r, z, line, body, x)
    <3>1. SizePlace(r, z, ln, body, y)
        BY <2>3 DEF SizePlace
    <3>2. QED BY <2>1, <2>3, <3>1 DEF Within
  <2>4. CASE at = "trailer" /\ TrailerPlace(r, z, line, body, x)
    <3>1. TrailerPlace(r, z, ln, body, y)
        BY <2>4 DEF TrailerPlace
    <3>2. QED BY <2>1, <2>4, <3>1 DEF Within
  <2>5. QED BY <1>3, <2>2, <2>3, <2>4 DEF Within, AtLine
<1>4. QED BY <1>1, <1>2, <1>3 DEF OnTrack

LEMMA ArriveKeeps ==
    ASSUME ReaderTypes, Reading, Arrive
    PROVE  Reading'
<1>1. PICK gone \in Piece :
            /\ leaves = "no" => gone = <<>>
            /\ OnTrack(calls, got, at, line, need, head, body, avail \o (net \o gone))
    BY DEF Reading
<1>2. PICK k \in 1 .. Len(net) : avail' = SubSeq(net, 1, k) /\ net' = SubSeq(net, k + 1, Len(net))
    BY DEF Arrive
<1>3. /\ avail = <<>> /\ at # "closed" /\ refusal = 0 /\ net \in Piece
      /\ UNCHANGED <<calls, leaves, at, line, need, head, body, got, refusal>>
    BY DEF Arrive, Reading, ReaderTypes
<1>4. avail' \in Piece /\ net' \in Piece /\ avail' \o net' = net
  <2>1. net \in Seq(Units) /\ k \in 0 .. Len(net)
      BY <1>3, PiecesAre
  <2>2. QED BY <1>2, <2>1, CutInTwo, PiecesAre
<1>5. avail' \o (net' \o gone) = net \o gone
  <2>1. Regrouped(avail', net', gone)
      BY <1>4, PiecesJoin
  <2>2. QED BY <1>4, <2>1 DEF Regrouped
<1>6. avail \o (net \o gone) = net \o gone
  <2>1. net \o gone \in Piece
      BY <1>3, ConcatIs
  <2>2. QED BY <1>3, <2>1, AtEmpty
<1>7. OnTrack(calls', got', at', line', need', head', body', avail' \o (net' \o gone))
    BY <1>1, <1>3, <1>5, <1>6
<1>8. QED BY <1>1, <1>3, <1>7 DEF Reading

LEMMA GoesOnReading ==
    ASSUME NEW gone \in Piece, leaves = "no" => gone = <<>>, leaves' = leaves,
           KeepsOn(avail' \o (net' \o gone))
    PROVE  Reading'
BY DEF KeepsOn, Reading

Closes == at' = "closed" /\ AsMade'

LEMMA PieceKeeps ==
    ASSUME ReaderTypes, Reading, TakePiece
    PROVE  Closes \/ Reading'
<1>1. PICK gone \in Piece :
            /\ leaves = "no" => gone = <<>>
            /\ OnTrack(calls, got, at, line, need, head, body, avail \o (net \o gone))
    BY DEF Reading
<1> DEFINE w == net \o gone
           x == avail \o w
           k == UsedOf(avail)
           out == line \o SubSeq(avail, 1, k)
           left == SubSeq(avail, k + 1, Len(avail))
<1>2. /\ AtLine /\ avail # <<>> /\ avail' = left
      /\ IF Len(out) > MaxLine THEN TooLong
         ELSE IF avail[k] = Lf THEN LineRead(out)
         ELSE line' = out /\ UNCHANGED <<at, need, head, body, got, refusal>>
      /\ UNCHANGED <<calls, leaves, net>>
    BY DEF TakePiece, Used, UsedOf
<1>3. w \in Piece /\ x \in Piece /\ avail \in Piece /\ line \in Piece
    BY ConcatIs DEF ReaderTypes
<1>4. refusal = 0 /\ at # "closed" /\ Exactly(calls, got)
    BY <1>1 DEF Reading, OnTrack
<1>5. OnTrack(calls, got, at, line, need, head, body, x)
    BY <1>1
<1>6. x # <<>>
  <2>1. Len(x) = Len(avail) + Len(w) /\ Len(avail) \in Nat /\ Len(w) \in Nat
      BY <1>3, ConcatIs
  <2>2. Len(avail) # 0
      BY <1>2, <1>3, PiecesAre, EmptySeq
  <2>3. Len(x) # 0
    <3> DEFINE a == Len(x)
               b == Len(avail)
               d == Len(w)
    <3>1. a = b + d /\ b \in Nat /\ d \in Nat /\ b # 0
        BY <2>1, <2>2
    <3> HIDE DEF a, b, d
    <3>2. a # 0
        BY <3>1
    <3>3. QED BY <3>2 DEF a
  <2>4. QED BY <2>3
<1> DEFINE r == calls[Len(got) + 1]
           z == Later(calls, Len(got) + 1)
<1>7. Len(got) < Len(calls) /\ Expecting(r, z, x)
  <2> HIDE DEF x
  <2>1. QED BY <1>2, <1>3, <1>5, <1>6, LineExpected
<1>8. Formed(r) /\ z \in Piece
    BY <1>7, NowRead
<1> HIDE DEF r, z
<1>9. PICK h \in Inline, y \in Piece : Expects(r, z, h, y) /\ line \o x = (h \o Eol) \o y /\ NoLf(line)
    BY <1>7 DEF Expecting
<1>10. LineMet(avail, w, line, h, y)
    BY <1>2, <1>3, <1>9, LineMeets
<1>11. /\ out \in Piece /\ left \in Piece /\ Len(out) \in Nat /\ Len(out) <= Len(h) + 2
       /\ avail[k] = Lf => out = h \o Eol /\ left \o w = y
       /\ avail[k] # Lf => NoLf(out) /\ out \o (left \o w) = (h \o Eol) \o y
    BY <1>10 DEF LineMet
<1> HIDE DEF k, out, left, x, w
<1>12. ASSUME Misfit(r) PROVE Closes
  <2>1. AsMade'
      BY <1>2, <1>4, <1>7, <1>12, MisfitClosed DEF r
  <2>2. QED BY <1>12, <2>1 DEF Misfit, Closes
<1>13. ASSUME KeepsOn(left \o w) PROVE Reading'
  <2>1. KeepsOn(avail' \o (net' \o gone))
      BY <1>2, <1>13 DEF w
  <2>2. QED BY <1>1, <1>2, <2>1, GoesOnReading
<1>14. CASE Len(out) > MaxLine
  <2>1. TooLong
      BY <1>2, <1>14
  <2>2. Len(h) + 2 > MaxLine
    <3>1. Len(h) \in Nat /\ MaxLine \in Nat
        BY InlineHas, PiecesAre, LenProperties, ReaderAssumption
    <3>2. QED BY <1>11, <1>14, <3>1
  <2>3. Misfit(r)
      BY <1>8, <1>9, <2>1, <2>2, LongLine
  <2>4. QED BY <1>12, <2>3
<1>15. CASE ~(Len(out) > MaxLine) /\ avail[k] = Lf
  <2>1. LineRead(h \o Eol) /\ left \o w = y
      BY <1>2, <1>11, <1>15
  <2>2. Misfit(r) \/ KeepsOn(y)
      BY <1>2, <1>4, <1>7, <1>8, <1>9, <2>1, WholeRead DEF r, z
  <2>3. QED BY <1>12, <1>13, <2>1, <2>2
<1>16. CASE ~(Len(out) > MaxLine) /\ avail[k] # Lf
  <2>1. line' = out /\ UNCHANGED <<calls, at, need, head, body, got, refusal>>
      BY <1>2, <1>16
  <2>2. NoLf(out) /\ out \o (left \o w) = line \o x
      BY <1>9, <1>11, <1>16
  <2>3. OnTrack(calls, got, at, out, need, head, body, left \o w)
      BY <1>2, <1>5, <2>2, WaitsOn
  <2>4. KeepsOn(left \o w)
      BY <1>4, <2>1, <2>3 DEF KeepsOn
  <2>5. QED BY <1>13, <2>4
<1>17. QED BY <1>14, <1>15, <1>16

LEMMA BytesKeep ==
    ASSUME ReaderTypes, Reading, TakeBytes
    PROVE  Reading'
<1>1. PICK gone \in Piece :
            /\ leaves = "no" => gone = <<>>
            /\ OnTrack(calls, got, at, line, need, head, body, avail \o (net \o gone))
    BY DEF Reading
<1> DEFINE w == net \o gone
           r == calls[Len(got) + 1]
           z == Later(calls, Len(got) + 1)
<1>2. AtBytes /\ UNCHANGED <<calls, leaves, net>>
    BY DEF TakeBytes
<1>3. w \in Piece
    BY ConcatIs DEF ReaderTypes
<1>4. /\ Exactly(calls, got) /\ Len(got) < Len(calls) /\ refusal = 0
      /\ Within(r, z, at, line, need, head, body, avail \o w)
    BY <1>1, <1>2 DEF OnTrack, Between2, AtBytes, Reading
<1>5. Formed(r) /\ z \in Piece
    BY <1>4, NowRead
<1> HIDE DEF w
<1>6. KeepsOn(avail' \o w)
    BY <1>3, <1>4, <1>5, <1>2, BytesRead
<1>7. KeepsOn(avail' \o (net' \o gone))
    BY <1>2, <1>6 DEF w
<1>8. QED BY <1>1, <1>2, <1>7, GoesOnReading

\* Of bytes that are waited for some are to come.
LEMMA BytesToCome ==
    ASSUME AtBytes, NEW r, RequestIs(r), NEW z \in Piece, NEW x, Within(r, z, at, line, need, head, body, x)
    PROVE  x # <<>>
<1>1. ASSUME NEW q \in Piece, Len(q) = need, need > 0, NEW y \in Piece, x = q \o y
      PROVE  x # <<>>
  <2>1. Len(x) = Len(q) + Len(y) /\ Len(q) \in Nat /\ Len(y) \in Nat
      BY <1>1, ConcatIs
  <2> DEFINE a == Len(x)
             b == Len(q)
             d == Len(y)
  <2>2. a = b + d /\ b \in Nat /\ d \in Nat /\ b > 0
      BY <1>1, <2>1
  <2> HIDE DEF a, b, d
  <2>3. a # 0
      BY <2>2
  <2>4. QED BY <2>3 DEF a
<1>2. ASSUME NEW c \in 1 .. Len(r.body)
      PROVE  ChunksAhead(r, z, c) \in Piece /\ Eol \o ChunksAhead(r, z, c) \in Piece
  <2>1. c \in 0 .. Len(r.body)
      OBVIOUS
  <2>2. QED BY <2>1, ChunksFollow, PiecesAre, ConcatIs
<1>3. CASE at = "data" /\ DataPlace(r, z, line, need, body, x)
  <2>1. PICK c \in 1 .. Len(r.body), q \in Piece :
              Len(q) = need /\ need > 0 /\ x = q \o (Eol \o ChunksAhead(r, z, c))
      BY <1>3 DEF DataPlace
  <2>2. QED BY <1>1, <1>2, <2>1
<1>4. CASE at = "ending" /\ EndingPlace(r, z, line, need, body, x)
  <2>1. PICK c \in 1 .. Len(r.body), q \in Piece :
              Len(q) = need /\ need > 0 /\ x = q \o ChunksAhead(r, z, c)
      BY <1>4 DEF EndingPlace
  <2>2. QED BY <1>1, <1>2, <2>1
<1>5. CASE at = "body" /\ BodyPlace(r, z, line, need, body, x)
  <2>1. PICK q \in Piece : Len(q) = need /\ need > 0 /\ x = q \o z
      BY <1>5 DEF BodyPlace
  <2>2. QED BY <1>1, <2>1
<1>6. QED BY <1>3, <1>4, <1>5 DEF Within, AtBytes

LEMMA GoesAwayLeaving ==
    ASSUME GoesAway, leaves' = "early", avail' = <<>>, net' = <<>>
    PROVE  Leaving'
BY DEF GoesAway, Leaving

LEMMA EofReading ==
    ASSUME ReaderTypes, Reading, MeetEof, leaves # "pause"
    PROVE  Closes \/ Leaving'
<1>1. PICK gone \in Piece :
            /\ leaves = "no" => gone = <<>>
            /\ OnTrack(calls, got, at, line, need, head, body, avail \o (net \o gone))
    BY DEF Reading
<1> DEFINE r == calls[Len(got) + 1]
           z == Later(calls, Len(got) + 1)
<1>2. /\ at # "closed" /\ avail = <<>> /\ net = <<>>
      /\ IF AtBytes THEN Refuses(0)
         ELSE IF line # <<>> THEN LineRead(line)
         ELSE CASE at = "header" -> Headed
                [] at = "trailer" -> Returns(body)
                [] OTHER -> Refuses(0)
      /\ UNCHANGED <<calls, leaves, net, avail>>
    BY DEF MeetEof
<1>3. OnTrack(calls, got, at, line, need, head, body, gone) /\ Exactly(calls, got) /\ refusal = 0
  <2>1. <<>> \o gone = gone
      BY AtEmpty
  <2>2. QED BY <1>1, <1>2, <2>1 DEF OnTrack, Reading
<1>4. gone # <<>> => leaves = "early"
    BY <1>1 DEF ReaderTypes
<1>5. ASSUME Refuses(0), leaves = "early" \/ Len(got) = Len(calls) PROVE Closes
  <2>1. at' = "closed" /\ refusal' = 0 /\ got' = got /\ calls' = calls /\ leaves' = leaves
      BY <1>2, <1>5 DEF Refuses
  <2>2. AsMade'
      BY <1>3, <1>5, <2>1, EarlyClosed
  <2>3. QED BY <2>1, <2>2 DEF Closes
<1>6. CASE AtBytes
  <2>1. Len(got) < Len(calls) /\ Within(r, z, at, line, need, head, body, gone)
      BY <1>3, <1>6 DEF OnTrack, Between2, AtBytes
  <2>2. RequestIs(r) /\ z \in Piece
      BY <2>1, NowRead
  <2>3. gone # <<>>
      BY <1>6, <2>1, <2>2, BytesToCome
  <2>4. QED BY <1>2, <1>4, <1>5, <1>6, <2>3
<1>7. CASE ~AtBytes
  <2>1. AtLine
      BY <1>2, <1>7 DEF AtLine, AtBytes, ReaderTypes, Places
  <2>2. \/ at = "request" /\ Len(got) = Len(calls) /\ line = <<>>
        \/ Len(got) < Len(calls) /\ Expecting(r, z, gone)
      BY <1>3, <2>1, LineExpected
  <2>3. CASE at = "request" /\ Len(got) = Len(calls) /\ line = <<>>
      BY <1>2, <1>5, <1>7, <2>3
  <2>4. CASE Len(got) < Len(calls) /\ Expecting(r, z, gone)
    <3>1. Formed(r) /\ z \in Piece
        BY <2>4, NowRead
    <3>2. PICK h \in Inline, y \in Piece :
                Expects(r, z, h, y) /\ line \o gone = (h \o Eol) \o y /\ NoLf(line)
        BY <2>4 DEF Expecting
    <3>3. calls' = calls /\ line \in Piece /\ r = calls[Len(got) + 1]
        BY <1>2 DEF ReaderTypes
    <3> HIDE DEF r, z
    <3>4. gone # <<>>
      <4>1. CASE line # <<>>
          BY <3>2, <3>3, <4>1, PartMet
      <4>2. CASE line = <<>>
        <5>1. gone = (h \o Eol) \o y
            BY <3>2, <4>2, AtEmpty
        <5>2. h \o Eol \in Piece /\ Len(h \o Eol) = Len(h) + 2 /\ Len(h) \in Nat
            BY EndedLine DEF EndedIs
        <5>3. Len(gone) = Len(h \o Eol) + Len(y) /\ Len(y) \in Nat
            BY <5>1, <5>2, ConcatIs
        <5>4. Len(gone) # 0
          <6> DEFINE a == Len(gone)
                     b == Len(h \o Eol)
                     c == Len(h)
                     d == Len(y)
          <6>1. a = b + d /\ b = c + 2 /\ c \in Nat /\ d \in Nat
              BY <5>2, <5>3
          <6> HIDE DEF a, b, c, d
          <6>2. a # 0
              BY <6>1
          <6>3. QED BY <6>2 DEF a
        <5>5. QED BY <5>4
      <4>3. QED BY <4>1, <4>2
    <3>5. leaves = "early" /\ leaves' = "early" /\ avail' = <<>> /\ net' = <<>>
        BY <1>2, <1>4, <3>4
    <3>6. ASSUME Misfit(r) \/ GoesAway PROVE Closes \/ Leaving'
      <4>1. CASE Misfit(r)
        <5>1. AsMade'
            BY <1>3, <2>4, <3>3, <4>1, MisfitClosed
        <5>2. QED BY <4>1, <5>1 DEF Misfit, Closes
      <4>2. CASE GoesAway
          BY <3>5, <4>2, GoesAwayLeaving
      <4>3. QED BY <3>6, <4>1, <4>2
    <3>7. CASE line # <<>>
      <4>1. PartOf(line, h)
          BY <3>2, <3>3, <3>7, PartMet
      <4>2. LineRead(line)
          BY <1>2, <1>7, <3>7
      <4>3. Misfit(r) \/ GoesAway
          BY <1>3, <2>1, <2>4, <3>1, <3>2, <3>3, <4>1, <4>2, PartRead
      <4>4. QED BY <3>6, <4>3
    <3>8. CASE line = <<>> /\ at = "header"
      <4>1. Headed
          BY <1>2, <1>7, <3>8
      <4>2. PICK j : HeadAt(r, j, head)
          BY <3>2, <3>8 DEF Expects, HeaderExpects
      <4>3. Sane(r, head)
          BY <3>1, <4>2, HeadIsSane
      <4>4. Misfit(r) \/ GoesAway
          BY <1>3, <2>4, <3>3, <4>1, <4>3, HeadedAway
      <4>5. QED BY <3>6, <4>4
    <3>9. CASE line = <<>> /\ at = "trailer"
      <4>1. Returns(body) /\ body \in Piece
          BY <1>2, <1>7, <3>9 DEF ReaderTypes
      <4>2. LeftOff(calls', got', at', head')
          BY <1>3, <2>4, <3>3, <4>1, ReturnedLeft
      <4>3. GoesAway
          BY <1>3, <4>1, <4>2 DEF GoesAway, Returns
      <4>4. QED BY <3>6, <4>3
    <3>10. CASE line = <<>> /\ at # "header" /\ at # "trailer"
      <4>1. Refuses(0)
          BY <1>2, <1>7, <3>10
      <4>2. QED BY <1>5, <3>5, <4>1
    <3>11. QED BY <3>7, <3>8, <3>9, <3>10
  <2>5. QED BY <2>2, <2>3, <2>4
<1>8. QED BY <1>6, <1>7

LEMMA EofLeaving ==
    ASSUME ReaderTypes, Leaving, MeetEof
    PROVE  Closes \/ Leaving'
<1> DEFINE r == calls[Len(got) + 1]
<1>1. /\ at # "closed" /\ refusal = 0 /\ leaves = "early" /\ line = <<>>
      /\ LeftOff(calls, got, at, head)
    BY DEF Leaving
<1>2. /\ avail' = <<>> /\ net' = <<>> /\ leaves' = "early" /\ calls' = calls
      /\ \/ Refuses(0)
         \/ at = "header" /\ Headed
         \/ at = "trailer" /\ Returns(body)
    BY <1>1 DEF MeetEof, Leaving, AtBytes
<1>3. CASE Refuses(0)
  <2>1. at' = "closed" /\ refusal' = 0 /\ got' = got
      BY <1>3 DEF Refuses
  <2>2. AsMade'
      BY <1>1, <1>2, <2>1, EarlyClosed
  <2>3. QED BY <2>1, <2>2 DEF Closes
<1>4. CASE at = "header" /\ Headed
  <2>1. Exactly(calls, got) /\ Len(got) < Len(calls) /\ Sane(r, head)
      BY <1>1, <1>4 DEF LeftOff
  <2>2. Misfit(r) \/ GoesAway
      BY <1>1, <1>2, <1>4, <2>1, HeadedAway
  <2>3. CASE Misfit(r)
    <3>1. AsMade'
        BY <1>2, <2>1, <2>3, MisfitClosed
    <3>2. QED BY <2>3, <3>1 DEF Misfit, Closes
  <2>4. CASE GoesAway
      BY <1>2, <2>4, GoesAwayLeaving
  <2>5. QED BY <2>2, <2>3, <2>4
<1>5. CASE at = "trailer" /\ Returns(body)
  <2>1. Exactly(calls, got) /\ Len(got) < Len(calls) /\ body \in Piece
      BY <1>1, <1>5 DEF LeftOff, ReaderTypes
  <2>2. LeftOff(calls', got', at', head')
      BY <1>2, <1>5, <2>1, ReturnedLeft
  <2>3. GoesAway
      BY <1>1, <1>5, <2>2 DEF GoesAway, Returns
  <2>4. QED BY <1>2, <2>3, GoesAwayLeaving
<1>6. QED BY <1>2, <1>3, <1>4, <1>5

LEMMA BreakCloses ==
    ASSUME ReaderTypes, Reading \/ Leaving, BreakOff, leaves' # "pause"
    PROVE  Closes
<1>1. /\ at # "trailer" /\ Refuses(0) /\ leaves' = "early" /\ calls' = calls
    BY DEF BreakOff
<1>2. at' = "closed" /\ refusal' = 0 /\ got' = got
    BY <1>1 DEF Refuses
<1>3. Exactly(calls, got) \/ LeftOff(calls, got, at, head)
    BY DEF Reading, Leaving, OnTrack
<1>4. AsMade'
    BY <1>1, <1>2, <1>3, EarlyClosed
<1>5. QED BY <1>2, <1>4 DEF Closes

LEMMA InitReads ==
    ASSUME ReaderInit
    PROVE  ReaderInv
<1>1. calls \in Seq(Requests)
  <2>1. PICK m \in 0 .. Calls : calls \in [1 .. m -> Requests]
      BY DEF ReaderInit, BoundedSeq, SeqOf
  <2>2. m \in Nat
      BY ReaderAssumption
  <2>3. QED BY <2>1, <2>2
<1> DEFINE all == FlattenSeq(Sents(calls))
<1>2. PICK k \in 0 .. Len(all) :
            net = SubSeq(all, 1, k) /\ leaves = IF k < Len(all) THEN "early" ELSE "no"
    BY DEF ReaderInit, Sents
<1>3. /\ avail = <<>> /\ at = "request" /\ line = <<>> /\ need = 0
      /\ head = NoHead /\ body = <<>> /\ got = <<>> /\ refusal = 0
    BY DEF ReaderInit
<1>4. all \in Piece /\ all = Later(calls, 0)
  <2>1. Len(calls) \in Nat /\ 0 \in 0 .. Len(calls)
      BY <1>1, LenProperties
  <2>2. LaterIs(calls, 0)
      BY <1>1, <2>1, LaterHas
  <2>3. Later(calls, 0) = Onward(Sents(calls), 1)
      BY DEF Later
  <2>4. Sents(calls) \in Seq(Seq(Units))
      BY <1>1, SentsAre
  <2>5. Onward(Sents(calls), 1) = all
      BY <2>4, AllAhead
  <2>6. QED BY <2>2, <2>3, <2>5 DEF LaterIs
<1> DEFINE gone == SubSeq(all, k + 1, Len(all))
<1>5. net \in Piece /\ gone \in Piece /\ net \o gone = all /\ Len(gone) = Len(all) - k
  <2>1. all \in Seq(Units) /\ k \in 0 .. Len(all)
      BY <1>4, PiecesAre
  <2>2. QED BY <1>2, <2>1, CutInTwo, PiecesAre
<1> HIDE DEF all, gone
<1>6. leaves \in {"no", "early"} /\ (leaves = "no" => gone = <<>>)
  <2>1. leaves \in {"no", "early"} /\ (leaves = "no" => ~(k < Len(all)))
      BY <1>2
  <2>2. Len(all) \in Nat /\ k \in 0 .. Len(all)
      BY <1>4, PiecesAre, LenProperties
  <2>3. leaves = "no" => Len(gone) = 0
      BY <1>5, <2>1, <2>2
  <2>4. gone \in Seq(Units)
      BY <1>5, PiecesAre
  <2>5. QED BY <2>1, <2>3, <2>4, EmptySeq
<1>7. ReaderTypes
  <2>1. NoHead \in HeadType
      BY PiecesAre DEF NoHead, HeadType
  <2>2. <<>> \in Piece /\ <<>> \in Seq(Read)
      BY PiecesAre
  <2>3. QED BY <1>1, <1>3, <1>5, <1>6, <2>1, <2>2 DEF ReaderTypes, Places
<1>8. OnTrack(calls, got, at, line, need, head, body, avail \o (net \o gone))
  <2>1. avail \o (net \o gone) = Later(calls, 0) /\ line \o Later(calls, 0) = Later(calls, 0) /\ NoLf(line)
      BY <1>3, <1>4, <1>5, AtEmpty
  <2>2. Len(got) = 0
      BY <1>3
  <2>3. Exactly(calls, got)
    <3>1. Len(calls) \in Nat
        BY <1>1, LenProperties
    <3>2. QED BY <2>2, <3>1 DEF Exactly
  <2>4. Between2(calls, got, at, line, head, body, avail \o (net \o gone))
      BY <1>3, <2>1, <2>2 DEF Between2
  <2>5. QED BY <2>3, <2>4 DEF OnTrack
<1>9. Reading
    BY <1>3, <1>5, <1>6, <1>8 DEF Reading
<1>10. QED BY <1>7, <1>9 DEF ReaderInv

LEMMA NextReads ==
    ASSUME ReaderInv, ReaderNext
    PROVE  ReaderInv'
<1>1. SUFFICES ASSUME leaves' # "pause" PROVE ReaderTypes' /\ (Closes \/ Reading' \/ Leaving')
    BY DEF ReaderInv, Closes
<1>2. leaves # "pause"
    BY <1>1 DEF ReaderNext, Arrive, TakePiece, TakeBytes, MeetEof, BreakOff
<1>3. ReaderTypes /\ ((at = "closed" /\ AsMade) \/ Reading \/ Leaving)
    BY <1>2 DEF ReaderInv
<1>4. ReaderTypes'
    BY <1>3, TypesKept
<1>5. at # "closed" /\ (Reading \/ Leaving)
    BY <1>3 DEF ReaderNext, Arrive, TakePiece, TakeBytes, MeetEof, BreakOff, AtLine, AtBytes
<1>6. CASE Arrive
  <2>1. Reading
    <3>1. SUFFICES ASSUME Leaving PROVE FALSE
        BY <1>5
    <3>2. net = <<>>
        BY <3>1 DEF Leaving
    <3>3. Len(net) = 0 /\ 1 .. 0 = {}
        BY <3>2
    <3>4. QED BY <1>6, <3>3 DEF Arrive
  <2>2. QED BY <1>3, <1>4, <1>6, <2>1, ArriveKeeps
<1>7. CASE TakePiece
  <2>1. Reading
      BY <1>5, <1>7 DEF Leaving, TakePiece
  <2>2. QED BY <1>3, <1>4, <1>7, <2>1, PieceKeeps
<1>8. CASE TakeBytes
  <2>1. Reading
      BY <1>5, <1>8 DEF Leaving, TakeBytes
  <2>2. QED BY <1>3, <1>4, <1>8, <2>1, BytesKeep
<1>9. CASE MeetEof
    BY <1>2, <1>3, <1>4, <1>5, <1>9, EofReading, EofLeaving
<1>10. CASE BreakOff
    BY <1>1, <1>3, <1>4, <1>5, <1>10, BreakCloses
<1>11. QED BY <1>6, <1>7, <1>8, <1>9, <1>10 DEF ReaderNext

\* For all requests that HTTP lets clients make, all limits and however the
\* network cuts what is sent: read_request has taken just what is its own.
THEOREM ReaderInvariant == ReaderSpec => []ReaderInv
<1>1. ReaderInit => ReaderInv
    BY InitReads
<1>2. ReaderInv /\ [ReaderNext]_readerVars => ReaderInv'
  <2>1. SUFFICES ASSUME ReaderInv, [ReaderNext]_readerVars PROVE ReaderInv'
      OBVIOUS
  <2>2. CASE ReaderNext
      BY <2>1, <2>2, NextReads
  <2>3. CASE UNCHANGED readerVars
      BY <2>1, <2>3 DEF readerVars, ReaderInv, ReaderTypes, AsMade, Reading, Leaving
  <2>4. QED BY <2>1, <2>2, <2>3
<1>3. QED BY <1>1, <1>2, PTL DEF ReaderSpec

\* Each request is read as it was made, none that keeps the limits is refused,
\* and the connection is not closed before all were read (read_request of
\* http.rs).
THEOREM RequestsAsMade == ReaderSpec => []ReadAsMade
<1>1. ReaderInv => ReadAsMade
    BY InvSays
<1>2. QED BY <1>1, ReaderInvariant, PTL
=============================================================================
