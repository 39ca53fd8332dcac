------------------------------ MODULE DataLemmas ------------------------------
(***************************************************************************)
(* Facts about numbers and sequences that the proofs of several components *)
(* need: the least and the greatest of a set of numbers, found by the      *)
(* well-founded order of the naturals, the first elements of sequences and *)
(* all of them but the last, quotients, sequences put together and cut in  *)
(* two, and what is computed step by step.                                 *)
(***************************************************************************)
EXTENDS Integers, Sequences, SequencesExt, FiniteSetsExt, FiniteSetTheorems,
        SequenceTheorems, WellFoundedInduction, TLAPS

(***************************************************************************)
(* The least of a set of numbers.                                          *)
(***************************************************************************)
LEMMA MinOfNats ==
  ASSUME NEW S \in SUBSET Nat, S # {}
  PROVE  Min(S) \in S /\ \A y \in S : Min(S) <= y
  <1> DEFINE R == {ss \in Nat \X Nat : ss[1] < ss[2]}
  <1>1. R = OpToRel(<, Nat)
    BY DEF OpToRel
  <1>2. IsWellFoundedOn(R, Nat)
    BY <1>1, NatLessThanWellFounded
  <1>3. \E x \in S : \A y \in S : ~ (<<y, x>> \in R)
    <2> HIDE DEF R
    <2> QED  BY <1>2, WFMin
  <1>4. PICK x \in S : \A y \in S : ~ (<<y, x>> \in R)
    BY <1>3
  <1>5. \A y \in S : x <= y
    <2> SUFFICES ASSUME NEW y \in S PROVE x <= y
      OBVIOUS
    <2>1. ~ (<<y, x>> \in R)
      BY <1>4
    <2> QED  BY <2>1
  <1> QED
    BY <1>4, <1>5 DEF Min

(***************************************************************************)
(* The greatest of a set of numbers with a bound.                          *)
(***************************************************************************)
LEMMA MaxUpTo ==
  ASSUME NEW n \in Nat, NEW S \in SUBSET (0 .. n), S # {}
  PROVE  Max(S) \in S /\ \A y \in S : y <= Max(S)
  <1> DEFINE T == {n - y : y \in S}
  <1>1. T \in SUBSET Nat /\ T # {}
    <2>1. \A y \in S : n - y \in Nat
      OBVIOUS
    <2> QED  BY <2>1
  <1>2. PICK m \in T : \A y \in T : m <= y
    <2> HIDE DEF T
    <2> QED  BY <1>1, MinOfNats
  <1>3. PICK x \in S : m = n - x
    BY <1>2
  <1>4. \A y \in S : x >= y
    <2> SUFFICES ASSUME NEW y \in S PROVE x >= y
      OBVIOUS
    <2>1. n - x <= n - y
      BY <1>2, <1>3
    <2>2. x \in Int /\ y \in Int
      OBVIOUS
    <2> QED  BY <2>1, <2>2
  <1> QED
    BY <1>3, <1>4 DEF Max

\* The least and the greatest of two.
LEMMA MinOfTwo ==
  ASSUME NEW a \in Int, NEW b \in Int
  PROVE  Min({a, b}) = IF a <= b THEN a ELSE b
  <1> DEFINE m == Min({a, b})
  <1>1. \E x \in {a, b} : \A y \in {a, b} : x <= y
    OBVIOUS
  <1>2. m \in {a, b} /\ \A y \in {a, b} : m <= y
    BY <1>1 DEF Min
  <1> HIDE DEF m
  <1>3. m = IF a <= b THEN a ELSE b
    BY <1>2
  <1> QED
    BY <1>3 DEF m

LEMMA MaxOfTwo ==
  ASSUME NEW a \in Int, NEW b \in Int
  PROVE  Max({a, b}) = IF a <= b THEN b ELSE a
  <1> DEFINE m == Max({a, b})
  <1>1. \E x \in {a, b} : \A y \in {a, b} : x >= y
    OBVIOUS
  <1>2. m \in {a, b} /\ \A y \in {a, b} : m >= y
    BY <1>1 DEF Max
  <1> HIDE DEF m
  <1>3. m = IF a <= b THEN b ELSE a
    BY <1>2
  <1> QED
    BY <1>3 DEF m

-----------------------------------------------------------------------------
(***************************************************************************)
(* All elements of a sequence but the last, and how a sequence goes on     *)
(* after them: what the caches of a decoder hold is what was emitted but   *)
(* for its last token, whatever is emitted at once.                        *)
(***************************************************************************)
LEMMA FrontIs ==
  ASSUME NEW S, NEW q \in Seq(S), q # <<>>
  PROVE  /\ Front(q) \in Seq(S) /\ Len(Front(q)) = Len(q) - 1 /\ Len(q) \in Nat \ {0}
         /\ \A i \in 1 .. Len(q) - 1 : Front(q)[i] = q[i]
         /\ Last(q) \in S /\ Last(q) = q[Len(q)]
  <1>1. Len(q) \in Nat \ {0}
    BY EmptySeq
  <1>2. \A i \in 1 .. Len(q) - 1 : q[i] \in S
    BY <1>1, ElementOfSeq
  <1>3. /\ SubSeq(q, 1, Len(q) - 1) \in Seq(S)
        /\ Len(SubSeq(q, 1, Len(q) - 1)) = IF 1 <= Len(q) - 1 THEN Len(q) - 1 - 1 + 1 ELSE 0
        /\ \A i \in 1 .. Len(q) - 1 - 1 + 1 : SubSeq(q, 1, Len(q) - 1)[i] = q[1 + i - 1]
    BY <1>1, <1>2, SubSeqProperties
  <1>4. q[Len(q)] \in S
    BY <1>1, ElementOfSeq
  <1>5. Len(q) - 1 - 1 + 1 = Len(q) - 1 /\ (IF 1 <= Len(q) - 1 THEN Len(q) - 1 - 1 + 1 ELSE 0) = Len(q) - 1
    <2> DEFINE n == Len(q)
    <2>1. n \in Int /\ n >= 1
      BY <1>1
    <2> HIDE DEF n
    <2>2. n - 1 - 1 + 1 = n - 1 /\ (IF 1 <= n - 1 THEN n - 1 - 1 + 1 ELSE 0) = n - 1
      BY <2>1
    <2> QED  BY <2>2 DEF n
  <1>6. \A i \in 1 .. Len(q) - 1 : 1 + i - 1 = i
    OBVIOUS
  <1>7. /\ Front(q) \in Seq(S) /\ Len(Front(q)) = Len(q) - 1
        /\ \A i \in 1 .. Len(q) - 1 : Front(q)[i] = q[i]
    BY <1>3, <1>5, <1>6 DEF Front
  <1> QED
    BY <1>1, <1>4, <1>7 DEF Last

LEMMA EmitsRows ==
  ASSUME NEW S, NEW e \in Seq(S), e # <<>>, NEW ts \in Seq(S), ts # <<>>
  PROVE  /\ Front(e) \o <<Last(e)>> = e
         /\ Front(e) \o (<<Last(e)>> \o Front(ts)) = Front(e \o ts)
         /\ e \o Front(ts) = Front(e \o ts)
  <1>1. /\ Front(e) \in Seq(S) /\ Len(Front(e)) = Len(e) - 1 /\ Len(e) \in Nat \ {0}
        /\ \A i \in 1 .. Len(e) - 1 : Front(e)[i] = e[i]
        /\ Last(e) \in S /\ Last(e) = e[Len(e)]
    BY FrontIs
  <1>2. /\ Front(ts) \in Seq(S) /\ Len(Front(ts)) = Len(ts) - 1 /\ Len(ts) \in Nat \ {0}
        /\ \A i \in 1 .. Len(ts) - 1 : Front(ts)[i] = ts[i]
    BY FrontIs
  <1>3. <<Last(e)>> \in Seq(S) /\ Len(<<Last(e)>>) = 1 /\ <<Last(e)>>[1] = Last(e)
    BY <1>1
  <1>4. Front(e) \o <<Last(e)>> = e
    <2> DEFINE c == Front(e) \o <<Last(e)>>
    <2>1. /\ c \in Seq(S) /\ Len(c) = Len(Front(e)) + Len(<<Last(e)>>)
          /\ \A i \in 1 .. Len(Front(e)) + Len(<<Last(e)>>) :
                c[i] = IF i <= Len(Front(e)) THEN Front(e)[i] ELSE <<Last(e)>>[i - Len(Front(e))]
      BY <1>1, <1>3, ConcatProperties
    <2>2. Len(c) = Len(e)
      BY <1>1, <1>3, <2>1
    <2>3. ASSUME NEW i \in 1 .. Len(c)
          PROVE  c[i] = e[i]
      <3>1. CASE i <= Len(e) - 1
        BY <1>1, <1>3, <2>1, <2>2, <3>1
      <3>2. CASE i = Len(e)
        <4>1. c[i] = <<Last(e)>>[1]
          BY <1>1, <1>3, <2>1, <2>2, <3>2
        <4> QED  BY <1>1, <1>3, <3>2, <4>1
      <3> QED  BY <1>1, <2>2, <3>1, <3>2
    <2> HIDE DEF c
    <2>4. c = e
      BY <2>1, <2>2, <2>3, SeqEqual
    <2> QED  BY <2>4 DEF c
  <1>5. Front(e) \o (<<Last(e)>> \o Front(ts)) = e \o Front(ts)
    <2> DEFINE f == Front(e)
               l == <<Last(e)>>
               g == Front(ts)
    <2>1. f \in Seq(S) /\ l \in Seq(S) /\ g \in Seq(S)
      BY <1>1, <1>2, <1>3
    <2> HIDE DEF f, l, g
    <2>2. (f \o l) \o g = f \o (l \o g)
      BY <2>1, ConcatAssociative
    <2> QED  BY <1>4, <2>2 DEF f, l, g
  <1>6. e \o Front(ts) = Front(e \o ts)
    <2> DEFINE c == e \o ts
               f == e \o Front(ts)
    <2>1. /\ c \in Seq(S) /\ Len(c) = Len(e) + Len(ts)
          /\ \A i \in 1 .. Len(e) + Len(ts) : c[i] = IF i <= Len(e) THEN e[i] ELSE ts[i - Len(e)]
      BY ConcatProperties
    <2>2. /\ f \in Seq(S) /\ Len(f) = Len(e) + Len(Front(ts))
          /\ \A i \in 1 .. Len(e) + Len(Front(ts)) :
                f[i] = IF i <= Len(e) THEN e[i] ELSE Front(ts)[i - Len(e)]
      BY <1>2, ConcatProperties
    <2>3. c # <<>>
      BY <1>1, <1>2, <2>1
    <2> HIDE DEF c, f
    <2>4. /\ Front(c) \in Seq(S) /\ Len(Front(c)) = Len(c) - 1
          /\ \A i \in 1 .. Len(c) - 1 : Front(c)[i] = c[i]
      BY <2>1, <2>3, FrontIs
    <2>5. Len(f) = Len(Front(c))
      BY <1>1, <1>2, <2>1, <2>2, <2>4
    <2>6. ASSUME NEW i \in 1 .. Len(f)
          PROVE  f[i] = Front(c)[i]
      <3>1. i \in 1 .. Len(e) + Len(ts) - 1
        BY <1>1, <1>2, <2>2
      <3>2. Front(c)[i] = IF i <= Len(e) THEN e[i] ELSE ts[i - Len(e)]
        BY <1>1, <1>2, <2>1, <2>4, <3>1
      <3>3. f[i] = IF i <= Len(e) THEN e[i] ELSE Front(ts)[i - Len(e)]
        BY <1>2, <2>2, <3>1
      <3>4. ~(i <= Len(e)) => Front(ts)[i - Len(e)] = ts[i - Len(e)]
        <4>1. ~(i <= Len(e)) => i - Len(e) \in 1 .. Len(ts) - 1
          BY <1>1, <1>2, <3>1
        <4> QED  BY <1>2, <4>1
      <3> QED  BY <3>2, <3>3, <3>4
    <2>7. f = Front(c)
      BY <2>2, <2>4, <2>5, <2>6, SeqEqual
    <2> QED  BY <2>7 DEF c, f
  <1> QED
    BY <1>4, <1>5, <1>6

LEMMA FirstOnes ==
  ASSUME NEW S, NEW q \in Seq(S), NEW n \in 0 .. Len(q)
  PROVE  /\ SubSeq(q, 1, n) \in Seq(S) /\ Len(SubSeq(q, 1, n)) = n
         /\ \A i \in 1 .. n : SubSeq(q, 1, n)[i] = q[i]
  <1>1. Len(q) \in Nat /\ n \in Nat
    OBVIOUS
  <1>2. \A i \in 1 .. n : q[i] \in S
    BY <1>1, ElementOfSeq
  <1>3. /\ SubSeq(q, 1, n) \in Seq(S)
        /\ Len(SubSeq(q, 1, n)) = IF 1 <= n THEN n - 1 + 1 ELSE 0
        /\ \A i \in 1 .. n - 1 + 1 : SubSeq(q, 1, n)[i] = q[1 + i - 1]
    BY <1>1, <1>2, SubSeqProperties
  <1>4. n - 1 + 1 = n /\ (IF 1 <= n THEN n - 1 + 1 ELSE 0) = n /\ \A i \in 1 .. n : 1 + i - 1 = i
    BY <1>1
  <1> QED
    BY <1>3, <1>4

\* The first tokens of the first tokens.
LEMMA FirstOfFirst ==
  ASSUME NEW S, NEW q \in Seq(S), NEW n \in 0 .. Len(q), NEW m \in 0 .. n
  PROVE  SubSeq(SubSeq(q, 1, n), 1, m) = SubSeq(q, 1, m)
  <1> DEFINE f == SubSeq(q, 1, n)
             a == SubSeq(f, 1, m)
             b == SubSeq(q, 1, m)
  <1>1. f \in Seq(S) /\ Len(f) = n /\ \A i \in 1 .. n : f[i] = q[i]
    BY FirstOnes
  <1>2. m \in 0 .. Len(q) /\ m \in 0 .. n
    OBVIOUS
  <1>3. b \in Seq(S) /\ Len(b) = m /\ \A i \in 1 .. m : b[i] = q[i]
    BY <1>2, FirstOnes
  <1> HIDE DEF f, b
  <1>4. a \in Seq(S) /\ Len(a) = m /\ \A i \in 1 .. m : a[i] = f[i]
    BY <1>1, FirstOnes
  <1> HIDE DEF a
  <1>5. \A i \in 1 .. Len(a) : a[i] = b[i]
    BY <1>1, <1>3, <1>4
  <1>6. a = b
    BY <1>3, <1>4, <1>5, SeqEqual
  <1> QED
    BY <1>6 DEF a, b, f

LEMMA FrontOfFirst ==
  ASSUME NEW S, NEW q \in Seq(S), NEW n \in 1 .. Len(q)
  PROVE  Front(SubSeq(q, 1, n)) = SubSeq(q, 1, n - 1) /\ SubSeq(q, 1, n) # <<>>
  <1>1. SubSeq(q, 1, n) \in Seq(S) /\ Len(SubSeq(q, 1, n)) = n
    BY FirstOnes
  <1>2. SubSeq(SubSeq(q, 1, n), 1, n - 1) = SubSeq(q, 1, n - 1)
    BY FirstOfFirst
  <1> QED
    BY <1>1, <1>2 DEF Front

LEMMA FrontOfAppend ==
  ASSUME NEW S, NEW q \in Seq(S), NEW x \in S
  PROVE  /\ Append(q, x) \in Seq(S) /\ Append(q, x) # <<>> /\ Front(Append(q, x)) = q
         /\ Len(Append(q, x)) = Len(q) + 1 /\ Append(q, x)[Len(q) + 1] = x
         /\ \A i \in 1 .. Len(q) : Append(q, x)[i] = q[i]
         /\ \A n \in 0 .. Len(q) : SubSeq(Append(q, x), 1, n) = SubSeq(q, 1, n)
  <1> DEFINE a == Append(q, x)
  <1>1. /\ a \in Seq(S) /\ Len(a) = Len(q) + 1 /\ a[Len(q) + 1] = x
        /\ \A i \in 1 .. Len(q) : a[i] = q[i]
    BY AppendProperties
  <1>2. Len(q) \in Nat
    OBVIOUS
  <1> HIDE DEF a
  <1>3. ASSUME NEW n \in 0 .. Len(q)
        PROVE  SubSeq(a, 1, n) = SubSeq(q, 1, n)
    <2>1. n \in 0 .. Len(a)
      BY <1>1, <1>2
    <2>2. SubSeq(a, 1, n) \in Seq(S) /\ Len(SubSeq(a, 1, n)) = n /\ \A i \in 1 .. n : SubSeq(a, 1, n)[i] = a[i]
      BY <1>1, <2>1, FirstOnes
    <2>3. SubSeq(q, 1, n) \in Seq(S) /\ Len(SubSeq(q, 1, n)) = n /\ \A i \in 1 .. n : SubSeq(q, 1, n)[i] = q[i]
      BY FirstOnes
    <2>4. \A i \in 1 .. n : SubSeq(a, 1, n)[i] = SubSeq(q, 1, n)[i]
      BY <1>1, <1>2, <2>2, <2>3
    <2> QED  BY <2>2, <2>3, <2>4, SeqEqual
  <1>4. Front(a) = q
    <2>1. SubSeq(a, 1, Len(q)) = SubSeq(q, 1, Len(q)) /\ SubSeq(q, 1, Len(q)) = q
      BY <1>2, <1>3, SubSeqFull
    <2> QED  BY <1>1, <1>2, <2>1 DEF Front
  <1>5. a # <<>>
    BY <1>1, <1>2
  <1> QED
    BY <1>1, <1>3, <1>4, <1>5 DEF a

\* What a concatenation begins with.
LEMMA FirstOfConcat ==
  ASSUME NEW S, NEW a \in Seq(S), NEW b \in Seq(S)
  PROVE  SubSeq(a \o b, 1, Len(a)) = a
  <1> DEFINE c == a \o b
  <1>1. /\ c \in Seq(S) /\ Len(c) = Len(a) + Len(b)
        /\ \A i \in 1 .. Len(a) + Len(b) : c[i] = IF i <= Len(a) THEN a[i] ELSE b[i - Len(a)]
    BY ConcatProperties
  <1>2. Len(a) \in Nat /\ Len(b) \in Nat
    OBVIOUS
  <1> HIDE DEF c
  <1>3. Len(a) \in 0 .. Len(c)
    BY <1>1, <1>2
  <1>4. SubSeq(c, 1, Len(a)) \in Seq(S) /\ Len(SubSeq(c, 1, Len(a))) = Len(a)
        /\ \A i \in 1 .. Len(a) : SubSeq(c, 1, Len(a))[i] = c[i]
    BY <1>1, <1>3, FirstOnes
  <1>5. \A i \in 1 .. Len(a) : c[i] = a[i]
    BY <1>1, <1>2
  <1>6. SubSeq(c, 1, Len(a)) = a
    BY <1>4, <1>5, SeqEqual
  <1> QED
    BY <1>6 DEF c

\* The first elements of a sequence, and the next ones.
LEMMA FirstAndNext ==
  ASSUME NEW S, NEW q \in Seq(S), NEW n \in Nat, NEW c \in Nat, n + c <= Len(q)
  PROVE  SubSeq(q, 1, n) \o SubSeq(q, n + 1, n + c) = SubSeq(q, 1, n + c)
  <1> DEFINE a == SubSeq(q, 1, n)
             b == SubSeq(q, n + 1, n + c)
             f == SubSeq(q, 1, n + c)
  <1>1. Len(q) \in Nat /\ n \in 0 .. Len(q) /\ n + c \in 0 .. Len(q) /\ n + 1 \in Int /\ n + c \in Int
    OBVIOUS
  <1>2. a \in Seq(S) /\ Len(a) = n /\ \A i \in 1 .. n : a[i] = q[i]
    BY <1>1, FirstOnes
  <1>3. f \in Seq(S) /\ Len(f) = n + c /\ \A i \in 1 .. n + c : f[i] = q[i]
    BY <1>1, FirstOnes
  <1>4. \A i \in n + 1 .. n + c : q[i] \in S
    BY <1>1, ElementOfSeq
  <1>5. /\ b \in Seq(S)
        /\ Len(b) = IF n + 1 <= n + c THEN n + c - (n + 1) + 1 ELSE 0
        /\ \A i \in 1 .. n + c - (n + 1) + 1 : b[i] = q[n + 1 + i - 1]
    BY <1>1, <1>4, SubSeqProperties
  <1> HIDE DEF a, b, f
  <1>6. Len(b) = c /\ \A i \in 1 .. c : b[i] = q[n + i]
    <2>1. n + c - (n + 1) + 1 = c /\ (IF n + 1 <= n + c THEN n + c - (n + 1) + 1 ELSE 0) = c
      OBVIOUS
    <2>2. \A i \in 1 .. c : n + 1 + i - 1 = n + i
      OBVIOUS
    <2> QED  BY <1>5, <2>1, <2>2
  <1>7. /\ a \o b \in Seq(S) /\ Len(a \o b) = n + c
        /\ \A i \in 1 .. n + c : (a \o b)[i] = IF i <= n THEN a[i] ELSE b[i - n]
    BY <1>2, <1>5, <1>6, ConcatProperties
  <1>8. ASSUME NEW i \in 1 .. n + c
        PROVE  (a \o b)[i] = f[i]
    <2>1. CASE i <= n
      BY <1>2, <1>3, <1>7, <2>1
    <2>2. CASE ~(i <= n)
      <3>1. i - n \in 1 .. c /\ n + (i - n) = i
        BY <2>2
      <3> QED  BY <1>3, <1>6, <1>7, <2>2, <3>1
    <2> QED  BY <2>1, <2>2
  <1>9. a \o b = f
    BY <1>3, <1>7, <1>8, SeqEqual
  <1> QED
    BY <1>9 DEF a, b, f

(***************************************************************************)
(* The longest common prefix of two sequences is a prefix of both.         *)
(***************************************************************************)
LEMMA CommonPrefix ==
  ASSUME NEW S, NEW c \in Seq(S), NEW p \in Seq(S)
  PROVE  /\ Len(LongestCommonPrefix({c, p})) \in Nat
         /\ Len(LongestCommonPrefix({c, p})) <= Len(c)
         /\ \A n \in 0 .. Len(LongestCommonPrefix({c, p})) : SubSeq(c, 1, n) = SubSeq(p, 1, n)
  <1> DEFINE P == CommonPrefixes({c, p})
             L == {Len(x) : x \in P}
             m == LongestCommonPrefix({c, p})
  <1>1. \A x \in P : IsPrefix(x, c) /\ IsPrefix(x, p) /\ (x \in Prefixes(c) \/ x \in Prefixes(p))
    BY DEF CommonPrefixes
  <1>2. ASSUME NEW q \in Seq(S), NEW x \in Prefixes(q)
        PROVE  x \in Seq(S)
    <2>1. PICK l \in 0 .. Len(q) : x = SubSeq(q, 1, l)
      BY DEF Prefixes
    <2> QED  BY <2>1, FirstOnes
  <1>3. \A x \in P : x \in Seq(S) /\ Len(x) \in Nat /\ Len(x) <= Len(c)
    <2>1. \A x \in P : x \in Seq(S)
      BY <1>1, <1>2
    <2>2. \A x \in P : Len(x) <= Len(c)
      BY <1>1 DEF IsPrefix
    <2> HIDE DEF P
    <2>3. ASSUME NEW x \in P
          PROVE  Len(x) \in Nat
      <3>1. x \in Seq(S)
        BY <2>1
      <3> QED  BY <3>1
    <2> QED  BY <2>1, <2>2, <2>3
  <1>4. <<>> \in P
    <2>1. SubSeq(c, 1, 0) = <<>> /\ SubSeq(p, 1, 0) = <<>> /\ SubSeq(<<>>, 1, 0) = <<>>
      BY SubSeqEmpty
    <2>2. 0 \in 0 .. Len(c) /\ Len(<<>>) = 0 /\ 0 <= Len(c) /\ 0 <= Len(p)
      OBVIOUS
    <2>3. <<>> \in Prefixes(c)
      BY <2>1, <2>2 DEF Prefixes
    <2>4. IsPrefix(<<>>, c) /\ IsPrefix(<<>>, p)
      BY <2>1, <2>2 DEF IsPrefix
    <2> QED  BY <2>3, <2>4 DEF CommonPrefixes
  <1> HIDE DEF P
  <1>5. L \in SUBSET (0 .. Len(c)) /\ L # {} /\ Len(c) \in Nat
    <2>1. Len(c) \in Nat
      OBVIOUS
    <2>2. ASSUME NEW y \in L
          PROVE  y \in 0 .. Len(c)
      <3>1. PICK x \in P : y = Len(x)
        OBVIOUS
      <3>2. Len(x) \in Nat /\ Len(x) <= Len(c)
        BY <1>3
      <3> QED  BY <2>1, <3>1, <3>2
    <2>3. L # {}
      BY <1>4
    <2> QED  BY <2>1, <2>2, <2>3
  <1>6. Max(L) \in L /\ \A y \in L : y <= Max(L)
    <2> HIDE DEF L
    <2> QED  BY <1>5, MaxUpTo
  <1>7. \E x \in P : \A y \in P : Len(y) <= Len(x)
    BY <1>6
  <1>8. m \in P
    BY <1>7 DEF LongestCommonPrefix, P
  <1> HIDE DEF m
  <1>9. ASSUME NEW n \in 0 .. Len(m)
        PROVE  SubSeq(c, 1, n) = SubSeq(p, 1, n)
    <2>1. Len(m) <= Len(c) /\ Len(m) <= Len(p) /\ SubSeq(c, 1, Len(m)) = SubSeq(p, 1, Len(m)) /\ Len(m) \in Nat
      BY <1>1, <1>3, <1>8 DEF IsPrefix
    <2>2. Len(m) \in 0 .. Len(c) /\ Len(m) \in 0 .. Len(p)
      BY <2>1
    <2> QED  BY <2>1, <2>2, FirstOfFirst
  <1>10. Len(m) \in Nat /\ Len(m) <= Len(c)
    BY <1>3, <1>8
  <1> QED
    BY <1>9, <1>10 DEF m

-----------------------------------------------------------------------------
(***************************************************************************)
(* Sequences one after the other hold what each of them holds, and one     *)
(* more goes behind them.                                                  *)
(***************************************************************************)
OneByOneIs(ss, n, u) == u = [k \in 1 .. n |-> IF k = 1 THEN ss[k] ELSE u[k - 1] \o ss[k]]

LEMMA OneByOneIsThere ==
    ASSUME NEW ss, NEW n \in Nat \ {0}
    PROVE  \E u : OneByOneIs(ss, n, u)
<1> DEFINE Bad == {k \in 1 .. n : ~ \E u : OneByOneIs(ss, k, u)}
<1> SUFFICES ASSUME Bad # {} PROVE FALSE
    OBVIOUS
<1>1. Bad \in SUBSET Nat
    OBVIOUS
<1>2. PICK m \in Bad : \A k \in Bad : m <= k
  <2> HIDE DEF Bad
  <2>1. QED BY <1>1, MinOfNats
<1>3. CASE m = 1
  <2> DEFINE u == [k \in 1 .. 1 |-> ss[k]]
  <2>1. OneByOneIs(ss, 1, u)
      BY DEF OneByOneIs
  <2>2. QED BY <1>2, <1>3, <2>1
<1>4. CASE m # 1
  <2>1. m \in 2 .. n /\ m - 1 \in 1 .. n
      BY <1>2, <1>4
  <2>2. PICK v : OneByOneIs(ss, m - 1, v)
      BY <1>2, <2>1
  <2> DEFINE u == [k \in 1 .. m |-> IF k < m THEN v[k] ELSE v[m - 1] \o ss[m]]
  <2>3. \A k \in 1 .. m - 1 : u[k] = v[k]
      BY <2>1
  <2>4. ASSUME NEW k \in 1 .. m
        PROVE  u[k] = IF k = 1 THEN ss[k] ELSE u[k - 1] \o ss[k]
    <3>1. CASE k = m
        BY <2>1, <2>3, <3>1
    <3>2. CASE k # m
      <4>1. k \in 1 .. m - 1 /\ (k # 1 => k - 1 \in 1 .. m - 1)
          BY <2>1, <3>2
      <4>2. v[k] = IF k = 1 THEN ss[k] ELSE v[k - 1] \o ss[k]
          BY <2>2, <4>1 DEF OneByOneIs
      <4> HIDE DEF u
      <4>3. QED BY <2>3, <4>1, <4>2
    <3>3. QED BY <3>1, <3>2
  <2>5. OneByOneIs(ss, m, u)
    <3>1. DOMAIN u = 1 .. m /\ u = [k \in 1 .. m |-> u[k]]
        OBVIOUS
    <3> HIDE DEF u
    <3>2. QED BY <2>4, <3>1 DEF OneByOneIs
  <2>6. QED BY <1>2, <2>5
<1>5. QED BY <1>3, <1>4

LEMMA FlattenHas ==
    ASSUME NEW S, NEW ss \in Seq(Seq(S))
    PROVE  /\ FlattenSeq(ss) \in Seq(S)
           /\ \A j \in 1 .. Len(ss) : \A l \in 1 .. Len(ss[j]) :
                 \E i \in 1 .. Len(FlattenSeq(ss)) : FlattenSeq(ss)[i] = ss[j][l]
<1> DEFINE n == Len(ss)
           U == CHOOSE u : OneByOneIs(ss, n, u)
           Holds(k) == /\ U[k] \in Seq(S)
                       /\ \A j \in 1 .. k : \A l \in 1 .. Len(ss[j]) :
                             \E i \in 1 .. Len(U[k]) : U[k][i] = ss[j][l]
           Bad == {k \in 1 .. n : ~Holds(k)}
<1>1. n \in Nat /\ \A k \in 1 .. n : ss[k] \in Seq(S)
    OBVIOUS
<1>2. CASE n = 0
  <2>1. FlattenSeq(ss) = ss /\ ss = <<>>
      BY <1>2 DEF FlattenSeq
  <2>2. <<>> \in Seq(S) /\ 1 .. Len(ss) = {}
      BY <1>2
  <2>3. QED BY <2>1, <2>2
<1>3. CASE n # 0
  <2>1. n \in Nat \ {0} /\ FlattenSeq(ss) = U[n]
      BY <1>1, <1>3 DEF FlattenSeq, OneByOneIs
  <2>2. OneByOneIs(ss, n, U)
      BY <2>1, OneByOneIsThere
  <2> HIDE DEF U, n
  <2>3. \A k \in 1 .. n : U[k] = IF k = 1 THEN ss[k] ELSE U[k - 1] \o ss[k]
      BY <2>2 DEF OneByOneIs
  <2>4. \A k \in 1 .. n : Holds(k)
    <3>0. Bad = {} => \A k \in 1 .. n : Holds(k)
      <4> HIDE DEF Holds
      <4>1. QED OBVIOUS
    <3> SUFFICES ASSUME Bad # {} PROVE FALSE
        BY <3>0
    <3>1. Bad \in SUBSET Nat
        BY <1>1
    <3>2. PICK m \in Bad : \A k \in Bad : m <= k
      <4> HIDE DEF Bad
      <4>1. QED BY <3>1, MinOfNats
    <3>3. m \in 1 .. n /\ ~Holds(m)
        BY <3>2
    <3>4. m # 1
      <4>1. CASE m = 1
        <5>1. U[1] = ss[1] /\ ss[1] \in Seq(S)
            BY <1>1, <2>3, <3>3, <4>1
        <5>2. \A j \in 1 .. 1 : j = 1
            OBVIOUS
        <5>3. Holds(1)
            BY <5>1, <5>2
        <5>4. QED BY <3>3, <4>1, <5>3
      <4>2. QED BY <4>1
    <3>5. m - 1 \in 1 .. n /\ m - 1 < m
        BY <1>1, <3>3, <3>4
    <3>6. m - 1 \notin Bad
      <4> HIDE DEF Bad
      <4>1. QED BY <1>1, <3>1, <3>2, <3>5
    <3>7. Holds(m - 1)
        BY <3>5, <3>6
    <3> DEFINE a == U[m - 1]
               b == ss[m]
    <3>8. /\ a \in Seq(S) /\ b \in Seq(S) /\ U[m] = a \o b
          /\ \A j \in 1 .. m - 1 : \A l \in 1 .. Len(ss[j]) : \E i \in 1 .. Len(a) : a[i] = ss[j][l]
        BY <1>1, <2>3, <3>3, <3>4, <3>7
    <3>9. \A j \in 1 .. m : j \in 1 .. m - 1 \/ j = m
        BY <3>5
    <3> HIDE DEF a
    <3> DEFINE c == a \o b
    <3>10. /\ c \in Seq(S) /\ Len(c) = Len(a) + Len(b)
           /\ \A i \in 1 .. Len(a) + Len(b) : c[i] = IF i <= Len(a) THEN a[i] ELSE b[i - Len(a)]
        BY <3>8, ConcatProperties
    <3>11. Len(a) \in Nat /\ Len(b) \in Nat /\ U[m] = c
        BY <3>8
    <3> HIDE DEF c
    <3>12. ASSUME NEW i \in 1 .. Len(a)
           PROVE  i \in 1 .. Len(c) /\ c[i] = a[i]
      <4>1. i \in 1 .. Len(a) + Len(b) /\ i <= Len(a)
          BY <3>11
      <4>2. QED BY <3>10, <4>1
    <3>13. ASSUME NEW l \in 1 .. Len(b)
           PROVE  Len(a) + l \in 1 .. Len(c) /\ c[Len(a) + l] = b[l]
      <4>1. Len(a) + l \in 1 .. Len(a) + Len(b) /\ ~(Len(a) + l <= Len(a)) /\ Len(a) + l - Len(a) = l
          BY <3>11
      <4>2. QED BY <3>10, <4>1
    <3>14. ASSUME NEW j \in 1 .. m, NEW l \in 1 .. Len(ss[j])
           PROVE  \E i \in 1 .. Len(c) : c[i] = ss[j][l]
      <4>1. CASE j = m
          BY <3>13, <4>1
      <4>2. CASE j \in 1 .. m - 1
          BY <3>8, <3>12, <4>2
      <4>3. QED BY <3>9, <4>1, <4>2
    <3>15. QED BY <3>3, <3>10, <3>11, <3>14
  <2>5. Holds(n)
    <3>1. n \in 1 .. n
        BY <2>1
    <3>2. QED BY <2>4, <3>1
  <2>6. QED BY <2>1, <2>5 DEF n
<1>4. QED BY <1>2, <1>3

LEMMA FlattenAppend ==
    ASSUME NEW S, NEW ss \in Seq(Seq(S)), NEW x \in Seq(S)
    PROVE  FlattenSeq(Append(ss, x)) = FlattenSeq(ss) \o x
<1> DEFINE n == Len(ss)
           c == Append(ss, x)
           V == CHOOSE u : OneByOneIs(c, Len(c), u)
           U == CHOOSE u : OneByOneIs(ss, n, u)
           Bad == {k \in 1 .. n : V[k] # U[k]}
<1>1. n \in Nat
    OBVIOUS
<1>2. /\ c \in Seq(Seq(S)) /\ Len(c) = n + 1 /\ c[n + 1] = x
      /\ \A k \in 1 .. n : c[k] = ss[k]
    BY AppendProperties
<1> HIDE DEF c
<1>3. FlattenSeq(c) = V[n + 1]
  <2>1. Len(c) # 0 /\ FlattenSeq(c) = V[Len(c)]
      BY <1>1, <1>2 DEF FlattenSeq, OneByOneIs
  <2>2. QED BY <1>2, <2>1
<1>4. OneByOneIs(c, n + 1, V)
  <2>1. Len(c) \in Nat \ {0}
      BY <1>1, <1>2
  <2>2. OneByOneIs(c, Len(c), V)
      BY <2>1, OneByOneIsThere
  <2>3. QED BY <1>2, <2>2
<1> HIDE DEF V
<1>5. \A k \in 1 .. n + 1 : V[k] = IF k = 1 THEN c[k] ELSE V[k - 1] \o c[k]
    BY <1>4 DEF OneByOneIs
<1>6. CASE n = 0
  <2>1. FlattenSeq(ss) = <<>>
      BY <1>6 DEF FlattenSeq
  <2>2. V[1] = x
      BY <1>2, <1>5, <1>6
  <2>3. <<>> \o x = x
      BY ConcatEmptySeq
  <2>4. QED BY <1>3, <1>6, <2>1, <2>2, <2>3 DEF c
<1>7. CASE n # 0
  <2>1. n \in Nat \ {0} /\ FlattenSeq(ss) = U[n]
      BY <1>1, <1>7 DEF FlattenSeq, OneByOneIs
  <2>2. OneByOneIs(ss, n, U)
      BY <2>1, OneByOneIsThere
  <2> HIDE DEF U, n
  <2>3. \A k \in 1 .. n : U[k] = IF k = 1 THEN ss[k] ELSE U[k - 1] \o ss[k]
      BY <2>2 DEF OneByOneIs
  <2>4. \A k \in 1 .. n : V[k] = U[k]
    <3> SUFFICES ASSUME Bad # {} PROVE FALSE
        OBVIOUS
    <3>1. Bad \in SUBSET Nat
        BY <1>1
    <3>2. PICK m \in Bad : \A k \in Bad : m <= k
      <4> HIDE DEF Bad
      <4>1. QED BY <3>1, MinOfNats
    <3>3. m \in 1 .. n /\ m \in 1 .. n + 1 /\ V[m] # U[m] /\ c[m] = ss[m]
        BY <1>1, <1>2, <3>2
    <3>4. m # 1
        BY <1>5, <2>3, <3>3
    <3>5. m - 1 \in 1 .. n /\ m - 1 < m
        BY <1>1, <3>3, <3>4
    <3>6. m - 1 \notin Bad
      <4> HIDE DEF Bad
      <4>1. QED BY <1>1, <3>1, <3>2, <3>5
    <3>7. V[m - 1] = U[m - 1]
        BY <3>5, <3>6
    <3>8. QED BY <1>5, <2>3, <3>3, <3>4, <3>7
  <2>5. n \in 1 .. n /\ n + 1 \in 1 .. n + 1 /\ n + 1 # 1 /\ n + 1 - 1 = n
      BY <2>1
  <2>6. V[n + 1] = V[n] \o x
    <3> DEFINE k == n + 1
    <3>1. k \in 1 .. n + 1 /\ k # 1 /\ k - 1 = n /\ c[k] = x
        BY <1>2, <2>5
    <3> HIDE DEF k
    <3>2. V[k] = V[k - 1] \o c[k]
        BY <1>5, <3>1
    <3>3. QED BY <3>1, <3>2 DEF k
  <2>7. QED BY <1>3, <2>1, <2>4, <2>5, <2>6 DEF c
<1>8. QED BY <1>6, <1>7

-----------------------------------------------------------------------------
\* A quotient reaches k exactly when the dividend reaches k times the divisor.
LEMMA QuotientReaches ==
    ASSUME NEW a \in Int, NEW b \in Nat \ {0}
    PROVE  a \div b \in Int /\ \A k \in Int : k <= a \div b <=> k * b <= a
<1> DEFINE q == a \div b
           r == a % b
<1>1. q \in Int /\ a = b * q + r /\ r \in 0 .. b - 1
    OBVIOUS
<1>2. QED BY <1>1

\* Quotient and remainder.
LEMMA Euclid ==
    ASSUME NEW a \in Int, NEW b \in Nat \ {0}
    PROVE  a \div b \in Int /\ a = b * (a \div b) + (a % b) /\ a % b \in 0 .. b - 1
OBVIOUS

\* What holds at 0 and goes on from each number to the next holds up to n.
LEMMA Upwards ==
    ASSUME NEW n \in Nat, NEW P, 0 \in P, \A k \in 1 .. n : k - 1 \in P => k \in P
    PROVE  0 .. n \subseteq P
<1> DEFINE Bad == {k \in 0 .. n : k \notin P}
<1> SUFFICES ASSUME Bad # {} PROVE FALSE
    OBVIOUS
<1>1. Bad \in SUBSET Nat
    OBVIOUS
<1>2. PICK m \in Bad : \A k \in Bad : m <= k
  <2> HIDE DEF Bad
  <2>1. QED BY <1>1, MinOfNats
<1>3. m \in 0 .. n /\ m \notin P /\ m # 0
    BY <1>2
<1>4. m \in 1 .. n /\ m - 1 \in 0 .. n /\ ~(m <= m - 1)
    BY <1>3
<1>5. m - 1 \notin Bad
    BY <1>2, <1>4
<1>6. QED BY <1>3, <1>4, <1>5

\* Numbers have a bound, and the greatest of them and 0 is one.
LEMMA Bounded ==
    ASSUME NEW n \in Nat, NEW f, \A k \in 1 .. n : f[k] \in Nat
    PROVE  \E b \in Nat : \A k \in 1 .. n : f[k] <= b
<1> DEFINE P == {m \in 0 .. n : \E b \in Nat : \A k \in 1 .. m : f[k] <= b}
<1>1. 0 \in P
    OBVIOUS
<1>2. ASSUME NEW m \in 1 .. n, m - 1 \in P
      PROVE  m \in P
  <2>1. PICK b \in Nat : \A k \in 1 .. m - 1 : f[k] <= b
      BY <1>2
  <2>2. f[m] \in Nat
      OBVIOUS
  <2> DEFINE c == b + f[m]
  <2>3. c \in Nat /\ b <= c /\ f[m] <= c
      BY <2>2
  <2> HIDE DEF c
  <2>4. ASSUME NEW k \in 1 .. m
        PROVE  f[k] <= c
    <3>1. CASE k = m
        BY <2>3, <3>1
    <3>2. CASE k # m
      <4>1. k \in 1 .. m - 1 /\ k \in 1 .. n
          BY <3>2
      <4>2. f[k] <= b /\ f[k] \in Nat
          BY <2>1, <4>1
      <4>3. QED BY <2>3, <4>2
    <3>3. QED BY <3>1, <3>2
  <2>5. QED BY <2>3, <2>4
<1> HIDE DEF P
<1>3. n \in P
    BY <1>1, <1>2, Upwards
<1>4. QED BY <1>3 DEF P

LEMMA MaxWithZero ==
    ASSUME NEW n \in Nat, NEW f, \A k \in 1 .. n : f[k] \in Nat
    PROVE  /\ Max({0} \cup {f[k] : k \in 1 .. n}) \in Nat
           /\ \A k \in 1 .. n : f[k] <= Max({0} \cup {f[j] : j \in 1 .. n})
<1> DEFINE T == {0} \cup {f[k] : k \in 1 .. n}
<1>1. PICK b \in Nat : \A k \in 1 .. n : f[k] <= b
    BY Bounded
<1>2. T \in SUBSET (0 .. b) /\ T # {} /\ T \subseteq Nat
    BY <1>1
<1>3. \A k \in 1 .. n : f[k] \in T
    OBVIOUS
<1> HIDE DEF T
<1>4. Max(T) \in T /\ \A y \in T : y <= Max(T)
    BY <1>2, MaxUpTo
<1>5. Max(T) \in Nat /\ \A k \in 1 .. n : f[k] <= Max(T)
    BY <1>2, <1>3, <1>4
<1>6. QED BY <1>5 DEF T

\* One more sequence.
LEMMA FlattenNext ==
    ASSUME NEW S, NEW ss \in Seq(Seq(S))
    PROVE  /\ FlattenSeq(SubSeq(ss, 1, 0)) = <<>>
           /\ FlattenSeq(SubSeq(ss, 1, Len(ss))) = FlattenSeq(ss)
           /\ \A k \in 1 .. Len(ss) :
                /\ ss[k] \in Seq(S)
                /\ FlattenSeq(SubSeq(ss, 1, k)) = FlattenSeq(SubSeq(ss, 1, k - 1)) \o ss[k]
                /\ FlattenSeq(SubSeq(ss, 1, k - 1)) \in Seq(S)
<1>1. FlattenSeq(SubSeq(ss, 1, 0)) = <<>>
  <2>1. SubSeq(ss, 1, 0) = <<>>
      OBVIOUS
  <2>2. QED BY <2>1 DEF FlattenSeq
<1>2. SubSeq(ss, 1, Len(ss)) = ss
    BY SubSeqFull
<1>3. ASSUME NEW k \in 1 .. Len(ss)
      PROVE  /\ ss[k] \in Seq(S)
             /\ FlattenSeq(SubSeq(ss, 1, k)) = FlattenSeq(SubSeq(ss, 1, k - 1)) \o ss[k]
             /\ FlattenSeq(SubSeq(ss, 1, k - 1)) \in Seq(S)
  <2> DEFINE a == SubSeq(ss, 1, k - 1)
             b == SubSeq(ss, 1, k)
             c == Append(a, ss[k])
  <2>1. ss[k] \in Seq(S) /\ k - 1 \in 0 .. Len(ss) /\ k \in 0 .. Len(ss)
      OBVIOUS
  <2>2. a \in Seq(Seq(S)) /\ Len(a) = k - 1 /\ \A i \in 1 .. k - 1 : a[i] = ss[i]
      BY <2>1, FirstOnes
  <2>3. b \in Seq(Seq(S)) /\ Len(b) = k /\ \A i \in 1 .. k : b[i] = ss[i]
      BY <2>1, FirstOnes
  <2> HIDE DEF a, b
  <2>4. /\ c \in Seq(Seq(S)) /\ Len(c) = k - 1 + 1 /\ c[k - 1 + 1] = ss[k]
        /\ \A i \in 1 .. k - 1 : c[i] = a[i]
      BY <2>1, <2>2, AppendProperties
  <2>5. k - 1 + 1 = k /\ \A i \in 1 .. k : i = k \/ i \in 1 .. k - 1
      OBVIOUS
  <2>6. \A i \in 1 .. k : c[i] = ss[i]
      BY <2>2, <2>4, <2>5
  <2> HIDE DEF c
  <2>7. b = c
      BY <2>3, <2>4, <2>5, <2>6, SeqEqual
  <2>8. FlattenSeq(c) = FlattenSeq(a) \o ss[k]
      BY <2>1, <2>2, FlattenAppend DEF c
  <2>9. FlattenSeq(a) \in Seq(S)
      BY <2>2, FlattenHas
  <2>10. QED BY <2>1, <2>7, <2>8, <2>9 DEF a, b
<1>4. QED BY <1>1, <1>2, <1>3

\* Sequences one after the other hold nothing else.
LEMMA FlattenWithin ==
    ASSUME NEW S, NEW ss \in Seq(Seq(S)), NEW i \in 1 .. Len(FlattenSeq(ss))
    PROVE  \E j \in 1 .. Len(ss) : \E l \in 1 .. Len(ss[j]) : FlattenSeq(ss)[i] = ss[j][l]
<1> DEFINE n == Len(ss)
           F(k) == FlattenSeq(SubSeq(ss, 1, k))
           In(k) == /\ F(k) \in Seq(S)
                    /\ \A h \in 1 .. Len(F(k)) :
                          \E j \in 1 .. k : \E l \in 1 .. Len(ss[j]) : F(k)[h] = ss[j][l]
           P == {k \in 0 .. n : In(k)}
<1>1. n \in Nat /\ F(0) = <<>> /\ F(n) = FlattenSeq(ss)
  <2>1. /\ FlattenSeq(SubSeq(ss, 1, 0)) = <<>>
        /\ FlattenSeq(SubSeq(ss, 1, Len(ss))) = FlattenSeq(ss)
      BY FlattenNext, Zenon
  <2>2. QED BY <2>1
<1>2. \A k \in 1 .. n : ss[k] \in Seq(S) /\ F(k) = F(k - 1) \o ss[k]
    BY FlattenNext
<1> HIDE DEF F
<1>3. 0 \in P
  <2>1. F(0) \in Seq(S) /\ 1 .. Len(F(0)) = {}
    <3>1. <<>> \in Seq(S) /\ 1 .. Len(<<>>) = {}
        OBVIOUS
    <3>2. F(0) = <<>>
        BY <1>1
    <3>3. QED BY <3>1, <3>2, Zenon
  <2>2. 0 \in 0 .. n
      BY <1>1
  <2>3. QED BY <2>1, <2>2
<1>4. ASSUME NEW k \in 1 .. n, k - 1 \in P
      PROVE  k \in P
  <2> DEFINE a == F(k - 1)
             b == ss[k]
  <2>1. /\ a \in Seq(S) /\ b \in Seq(S)
        /\ \A h \in 1 .. Len(a) : \E j \in 1 .. k - 1 : \E l \in 1 .. Len(ss[j]) : a[h] = ss[j][l]
      BY <1>2, <1>4
  <2> HIDE DEF a
  <2> DEFINE c == a \o b
  <2>2. /\ c \in Seq(S) /\ Len(c) = Len(a) + Len(b)
        /\ \A h \in 1 .. Len(a) + Len(b) : c[h] = IF h <= Len(a) THEN a[h] ELSE b[h - Len(a)]
      BY <2>1, ConcatProperties
  <2>3. Len(a) \in Nat /\ Len(b) \in Nat
      BY <2>1
  <2> HIDE DEF c
  <2>4. ASSUME NEW h \in 1 .. Len(c)
        PROVE  \E j \in 1 .. k : \E l \in 1 .. Len(ss[j]) : c[h] = ss[j][l]
    <3>1. CASE h <= Len(a)
      <4>1. h \in 1 .. Len(a) /\ c[h] = a[h]
          BY <2>2, <2>3, <3>1
      <4>2. PICK j \in 1 .. k - 1 : \E l \in 1 .. Len(ss[j]) : a[h] = ss[j][l]
          BY <2>1, <4>1
      <4>3. j \in 1 .. k
          BY <1>4
      <4>4. QED BY <4>1, <4>2, <4>3
    <3>2. CASE ~(h <= Len(a))
      <4>1. h - Len(a) \in 1 .. Len(b) /\ c[h] = b[h - Len(a)]
          BY <2>2, <2>3, <3>2
      <4>2. k \in 1 .. k
          OBVIOUS
      <4>3. QED BY <4>1, <4>2
    <3>3. QED BY <3>1, <3>2
  <2>5. F(k) = c
      BY <1>2 DEF a, c
  <2>6. In(k)
      BY <2>2, <2>4, <2>5
  <2>7. k \in 0 .. n
      BY <1>1
  <2>8. QED BY <2>6, <2>7
<1> HIDE DEF P
<1>5. n \in P
  <2>1. 0 .. n \subseteq P
      BY <1>1, <1>3, <1>4, Upwards
  <2>2. n \in 0 .. n
      BY <1>1
  <2>3. QED BY <2>1, <2>2
<1>6. In(n)
    BY <1>5 DEF P
<1>7. QED BY <1>1, <1>6

\* Sequences of one length one after the other, as a table row by row.
LEMMA FlattenEven ==
    ASSUME NEW S, NEW ss \in Seq(Seq(S)), NEW w \in Nat, \A j \in 1 .. Len(ss) : Len(ss[j]) = w
    PROVE  /\ FlattenSeq(ss) \in Seq(S) /\ Len(FlattenSeq(ss)) = Len(ss) * w
           /\ \A j \in 1 .. Len(ss) : \A l \in 1 .. w : FlattenSeq(ss)[(j - 1) * w + l] = ss[j][l]
<1> DEFINE n == Len(ss)
           F(k) == FlattenSeq(SubSeq(ss, 1, k))
           Table(k) == /\ F(k) \in Seq(S) /\ Len(F(k)) = k * w
                       /\ \A j \in 1 .. k : \A l \in 1 .. w : F(k)[(j - 1) * w + l] = ss[j][l]
           P == {k \in 0 .. n : Table(k)}
<1>1. n \in Nat /\ F(0) = <<>> /\ F(n) = FlattenSeq(ss)
  <2>1. /\ FlattenSeq(SubSeq(ss, 1, 0)) = <<>>
        /\ FlattenSeq(SubSeq(ss, 1, Len(ss))) = FlattenSeq(ss)
      BY FlattenNext, Zenon
  <2>2. QED BY <2>1
<1>2. \A k \in 1 .. n : ss[k] \in Seq(S) /\ F(k) = F(k - 1) \o ss[k]
    BY FlattenNext
<1> HIDE DEF F
<1>3. 0 \in P
  <2>1. F(0) \in Seq(S) /\ Len(F(0)) = 0
    <3>1. <<>> \in Seq(S) /\ Len(<<>>) = 0
        OBVIOUS
    <3>2. F(0) = <<>>
        BY <1>1
    <3>3. QED BY <3>1, <3>2, Zenon
  <2>2. 0 \in 0 .. n /\ 0 * w = 0 /\ 1 .. 0 = {}
      BY <1>1
  <2>3. Table(0)
      BY <2>1, <2>2
  <2>4. QED BY <2>2, <2>3
<1>4. ASSUME NEW k \in 1 .. n, k - 1 \in P
      PROVE  k \in P
  <2> DEFINE a == F(k - 1)
             b == ss[k]
             m == (k - 1) * w
  <2>1. /\ a \in Seq(S) /\ b \in Seq(S) /\ Len(a) = m /\ Len(b) = w
        /\ \A j \in 1 .. k - 1 : \A l \in 1 .. w : a[(j - 1) * w + l] = ss[j][l]
      BY <1>2, <1>4
  <2>2. k - 1 \in Nat /\ m \in Nat /\ k * w = m + w
    <3>1. k - 1 \in Nat /\ k = (k - 1) + 1
        BY <1>4
    <3>2. QED BY <3>1
  <2>3. \A j \in 1 .. k - 1 : \A l \in 1 .. w : (j - 1) * w + l \in 1 .. m
    <3> SUFFICES ASSUME NEW j \in 1 .. k - 1, NEW l \in 1 .. w
                 PROVE  (j - 1) * w + l \in 1 .. m
        OBVIOUS
    <3> DEFINE e == (k - 1) - j
    <3>1. e \in Nat /\ k - 1 = (j - 1) + 1 + e
        BY <2>2
    <3> HIDE DEF e
    <3> DEFINE i == j - 1
    <3>2. i \in Nat /\ k - 1 = i + 1 + e
        BY <3>1
    <3> HIDE DEF i
    <3>3. m = i * w + w + e * w /\ i * w \in Nat /\ e * w \in Nat
        BY <3>1, <3>2
    <3>4. i * w + l \in 1 .. m
        BY <3>3
    <3>5. QED BY <3>4 DEF i
  <2> HIDE DEF a, m
  <2> DEFINE c == a \o b
  <2>4. /\ c \in Seq(S) /\ Len(c) = m + w
        /\ \A h \in 1 .. m + w : c[h] = IF h <= m THEN a[h] ELSE b[h - m]
      BY <2>1, ConcatProperties
  <2> HIDE DEF c
  <2>5. ASSUME NEW j \in 1 .. k, NEW l \in 1 .. w
        PROVE  c[(j - 1) * w + l] = ss[j][l]
    <3> DEFINE h == (j - 1) * w + l
    <3>1. CASE j = k
      <4>1. h = m + l
          BY <3>1 DEF m
      <4> HIDE DEF h
      <4>2. h \in 1 .. m + w /\ ~(h <= m) /\ h - m = l
          BY <2>2, <4>1
      <4>3. QED BY <2>4, <3>1, <4>2 DEF h
    <3>2. CASE j # k
      <4>1. j \in 1 .. k - 1
          BY <3>2
      <4>2. h \in 1 .. m
          BY <2>3, <4>1
      <4>3. a[h] = ss[j][l]
          BY <2>1, <4>1
      <4> HIDE DEF h
      <4>4. h \in 1 .. m + w /\ h <= m
          BY <2>2, <4>2
      <4>5. QED BY <2>4, <4>3, <4>4 DEF h
    <3>3. QED BY <3>1, <3>2
  <2>6. F(k) = c
      BY <1>2 DEF a, c
  <2>7. Table(k)
      BY <2>2, <2>4, <2>5, <2>6
  <2>8. k \in 0 .. n
      BY <1>1
  <2>9. QED BY <2>7, <2>8
<1> HIDE DEF P
<1>5. n \in P
  <2>1. 0 .. n \subseteq P
      BY <1>1, <1>3, <1>4, Upwards
  <2>2. n \in 0 .. n
      BY <1>1
  <2>3. QED BY <2>1, <2>2
<1>6. Table(n)
    BY <1>5 DEF P
<1>7. QED BY <1>1, <1>6

\* What is computed step by step is known from its first value and one step.
LEMMA StepByStep ==
    ASSUME NEW n \in Nat, NEW u, NEW v, u[0] = v[0], \A i \in 1 .. n : u[i - 1] = v[i - 1] => u[i] = v[i]
    PROVE  u[n] = v[n]
<1> DEFINE P == {i \in 0 .. n : u[i] = v[i]}
<1>1. 0 \in P
    OBVIOUS
<1>2. \A i \in 1 .. n : i - 1 \in P => i \in P
    OBVIOUS
<1> HIDE DEF P
<1>3. 0 .. n \subseteq P
    BY <1>1, <1>2, Upwards
<1>4. n \in P
    BY <1>3
<1>5. QED BY <1>4 DEF P

-----------------------------------------------------------------------------
\* A sequence that is cut in two and put together.
LEMMA Joined ==
    ASSUME NEW a \in Nat, NEW n \in Nat, NEW f
    PROVE  [i \in 1 .. a |-> f[i]] \o [i \in 1 .. n |-> f[a + i]] = [i \in 1 .. (a + n) |-> f[i]]
<1> DEFINE S == {f[i] : i \in 1 .. (a + n)}
           x == [i \in 1 .. a |-> f[i]]
           y == [i \in 1 .. n |-> f[a + i]]
           z == [i \in 1 .. (a + n) |-> f[i]]
<1>1. \A i \in 1 .. a : i \in 1 .. (a + n)
    OBVIOUS
<1>2. \A i \in 1 .. n : a + i \in 1 .. (a + n) /\ ~(a + i <= a) /\ (a + i) - a = i
    OBVIOUS
<1>3. \A i \in 1 .. (a + n) : i \in 1 .. a \/ (i - a \in 1 .. n /\ a + (i - a) = i /\ ~(i <= a))
    OBVIOUS
<1>4. \A i \in 1 .. (a + n) : f[i] \in S
    OBVIOUS
<1>5. a + n \in Nat
    OBVIOUS
<1> HIDE DEF S
<1>6. x \in Seq(S) /\ Len(x) = a /\ \A i \in 1 .. a : x[i] = f[i]
    BY <1>1, <1>4
<1>7. y \in Seq(S) /\ Len(y) = n /\ \A i \in 1 .. n : y[i] = f[a + i]
    BY <1>2, <1>4
<1>8. z \in Seq(S) /\ Len(z) = a + n /\ \A i \in 1 .. (a + n) : z[i] = f[i]
    BY <1>4, <1>5
<1> HIDE DEF x, y, z
<1>9. /\ x \o y \in Seq(S) /\ Len(x \o y) = a + n
      /\ \A i \in 1 .. (a + n) : (x \o y)[i] = IF i <= a THEN x[i] ELSE y[i - a]
    BY <1>6, <1>7, ConcatProperties
<1>10. \A i \in 1 .. (a + n) : (x \o y)[i] = z[i]
  <2> SUFFICES ASSUME NEW i \in 1 .. (a + n) PROVE (x \o y)[i] = f[i]
      BY <1>8
  <2>1. CASE i \in 1 .. a
      BY <1>6, <1>9, <2>1
  <2>2. CASE i - a \in 1 .. n /\ a + (i - a) = i /\ ~(i <= a)
      BY <1>7, <1>9, <2>2
  <2>3. QED BY <1>3, <2>1, <2>2
<1>11. x \o y = z
    BY <1>8, <1>9, <1>10, SeqEqual
<1>12. QED BY <1>11 DEF x, y, z

\* Sequences of sequences one behind the other.
Regrouped(a, b, c) == (a \o b) \o c = a \o (b \o c)

LEMMA Regrouping ==
    ASSUME NEW S, NEW a \in Seq(S), NEW b \in Seq(S), NEW c \in Seq(S)
    PROVE  Regrouped(a, b, c)
<1>1. (a \o b) \o c = a \o (b \o c)
    BY ConcatAssociative, SMTT(30)
<1>2. QED BY <1>1 DEF Regrouped

LEMMA FlattenConcatNext ==
    ASSUME NEW S, NEW a \in Seq(Seq(S)), NEW d \in Seq(Seq(S)), NEW x \in Seq(S),
           FlattenSeq(a \o d) = FlattenSeq(a) \o FlattenSeq(d)
    PROVE  FlattenSeq(a \o (d \o << x >>)) = FlattenSeq(a) \o FlattenSeq(d \o << x >>)
<1> DEFINE e == << x >>
           c == a \o d
           fa == FlattenSeq(a)
           fd == FlattenSeq(d)
<1>1. e \in Seq(Seq(S)) /\ c \in Seq(Seq(S))
    OBVIOUS
<1>2. a \o (d \o e) = c \o e
  <2> DEFINE T == Seq(S)
  <2>1. a \in Seq(T) /\ d \in Seq(T) /\ e \in Seq(T)
      BY <1>1
  <2> HIDE DEF T, e
  <2>2. Regrouped(a, d, e)
      BY <2>1, Regrouping
  <2>3. QED BY <2>2 DEF Regrouped
<1>3. c \o e = Append(c, x) /\ d \o e = Append(d, x)
  <2> HIDE DEF c
  <2>1. QED BY <1>1, AppendIsConcat
<1>4. FlattenSeq(Append(c, x)) = FlattenSeq(c) \o x /\ FlattenSeq(Append(d, x)) = fd \o x
  <2> HIDE DEF c
  <2>1. QED BY <1>1, FlattenAppend
<1>5. fa \in Seq(S) /\ fd \in Seq(S)
    BY FlattenHas
<1>6. FlattenSeq(c) = fa \o fd
    OBVIOUS
<1> HIDE DEF c, e, fa, fd
<1>7. (fa \o fd) \o x = fa \o (fd \o x)
  <2>1. Regrouped(fa, fd, x)
      BY <1>5, Regrouping
  <2>2. QED BY <2>1 DEF Regrouped
<1>8. FlattenSeq(a \o (d \o e)) = fa \o FlattenSeq(d \o e)
    BY <1>2, <1>3, <1>4, <1>6, <1>7, Zenon
<1>9. QED BY <1>8 DEF e, fa

LEMMA FlattenConcat ==
    ASSUME NEW S, NEW a \in Seq(Seq(S)), NEW b \in Seq(Seq(S))
    PROVE  FlattenSeq(a \o b) = FlattenSeq(a) \o FlattenSeq(b)
<1> DEFINE n == Len(b)
           B(k) == SubSeq(b, 1, k)
           P == {k \in 0 .. n : FlattenSeq(a \o B(k)) = FlattenSeq(a) \o FlattenSeq(B(k))}
<1>1. n \in Nat /\ FlattenSeq(a) \in Seq(S)
    BY FlattenHas
<1>2. 0 \in P
  <2>1. B(0) = <<>>
      OBVIOUS
  <2>2. FlattenSeq(B(0)) = <<>>
    <3>1. FlattenSeq(SubSeq(b, 1, 0)) = <<>>
        BY FlattenNext, Zenon
    <3>2. QED BY <3>1
  <2>3. a \o <<>> = a
      BY ConcatEmptySeq
  <2>4. FlattenSeq(a) \o <<>> = FlattenSeq(a)
      BY <1>1, ConcatEmptySeq
  <2> HIDE DEF B
  <2>5. FlattenSeq(a \o B(0)) = FlattenSeq(a) \o FlattenSeq(B(0))
      BY <2>1, <2>2, <2>3, <2>4, Zenon
  <2>6. QED BY <1>1, <2>5
<1>3. ASSUME NEW k \in 1 .. n, k - 1 \in P
      PROVE  k \in P
  <2>1. k - 1 \in 0 .. Len(b) /\ k \in 0 .. Len(b) /\ b[k] \in Seq(S)
      BY <1>1
  <2>2. B(k - 1) \in Seq(Seq(S))
      BY <2>1, FirstOnes
  <2>3. B(k) = B(k - 1) \o << b[k] >>
    <3>1. 1 \in 1 .. Len(b) /\ k \in 1 .. Len(b)
        BY <1>1
    <3>2. SubSeq(b, 1, k) = SubSeq(b, 1, k - 1) \o << b[k] >>
        BY <3>1, SubSeqRecursiveSecond
    <3>3. QED BY <3>2
  <2>4. FlattenSeq(a \o B(k - 1)) = FlattenSeq(a) \o FlattenSeq(B(k - 1))
      BY <1>3
  <2> HIDE DEF B
  <2>5. FlattenSeq(a \o (B(k - 1) \o << b[k] >>)) = FlattenSeq(a) \o FlattenSeq(B(k - 1) \o << b[k] >>)
      BY <2>1, <2>2, <2>4, FlattenConcatNext, Zenon
  <2>6. FlattenSeq(a \o B(k)) = FlattenSeq(a) \o FlattenSeq(B(k))
      BY <2>3, <2>5, Zenon
  <2>7. QED BY <2>1, <2>6
<1> HIDE DEF P
<1>4. n \in P
  <2>1. 0 .. n \subseteq P
      BY <1>1, <1>2, <1>3, Upwards
  <2>2. QED BY <1>1, <2>1
<1>5. B(n) = b
    BY SubSeqFull
<1>6. FlattenSeq(a \o B(n)) = FlattenSeq(a) \o FlattenSeq(B(n))
    BY <1>4 DEF P
<1> HIDE DEF B
<1>7. QED BY <1>5, <1>6, Zenon

LEMMA FlattenNone == FlattenSeq(<<>>) = <<>>
BY DEF FlattenSeq

LEMMA FlattenOne ==
    ASSUME NEW S, NEW x \in Seq(S)
    PROVE  FlattenSeq(<< x >>) = x
<1>1. <<>> \in Seq(Seq(S)) /\ Append(<<>>, x) = << x >>
    OBVIOUS
<1>2. FlattenSeq(Append(<<>>, x)) = FlattenSeq(<<>>) \o x
    BY <1>1, FlattenAppend
<1>3. <<>> \o x = x
    BY ConcatEmptySeq
<1>4. QED BY <1>1, <1>2, <1>3, FlattenNone
=============================================================================
