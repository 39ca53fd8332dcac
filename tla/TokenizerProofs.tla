--------------------------- MODULE TokenizerProofs ---------------------------
(***************************************************************************)
(* For every text, vocabulary, table of merges and set of special tokens:  *)
(* the tokens of a text spell it, byte for byte, and the heap of pairs     *)
(* merges a word the way merging is defined.  First what sequences one     *)
(* behind the other spell, then merging (the pairs of the texts of the     *)
(* symbols and those of the heap), then the parts of a text (special       *)
(* tokens, words, units, tokens), and at the end the invariant.            *)
(***************************************************************************)
EXTENDS Tokenizer, DataLemmas

-----------------------------------------------------------------------------
(***************************************************************************)
(* Sequences one behind the other, each of them made of one element of     *)
(* another sequence: what a text is spelt with, what symbols are made of.  *)
(***************************************************************************)
\* Sequences of one element each.
OnesFlat(n, f) == FlattenSeq([i \in 1 .. n |-> << f[i] >>]) = [i \in 1 .. n |-> f[i]]

LEMMA FlattenOnes ==
    ASSUME NEW S, NEW n \in Nat, NEW f, \A i \in 1 .. n : f[i] \in S
    PROVE  OnesFlat(n, f)
<1> DEFINE ss == [i \in 1 .. n |-> << f[i] >>]
           t == [i \in 1 .. n |-> f[i]]
<1>1. ss \in Seq(Seq(S)) /\ Len(ss) = n /\ \A j \in 1 .. n : ss[j] = << f[j] >> /\ Len(ss[j]) = 1
    OBVIOUS
<1>2. t \in Seq(S) /\ Len(t) = n /\ \A j \in 1 .. n : t[j] = f[j]
    OBVIOUS
<1> HIDE DEF ss, t
<1> DEFINE w == 1
<1>0. w \in Nat /\ w = 1 /\ \A j \in 1 .. Len(ss) : Len(ss[j]) = w
    BY <1>1
<1> HIDE DEF w
<1>3. /\ FlattenSeq(ss) \in Seq(S) /\ Len(FlattenSeq(ss)) = Len(ss) * w
      /\ \A j \in 1 .. Len(ss) : \A l \in 1 .. w : FlattenSeq(ss)[(j - 1) * w + l] = ss[j][l]
  <2>1. w \in Nat /\ ss \in Seq(Seq(S)) /\ \A j \in 1 .. Len(ss) : Len(ss[j]) = w
      BY <1>0, <1>1
  <2>2. \A S1 : \A s1 \in Seq(Seq(S1)), w1 \in Nat :
           (\A j \in 1 .. Len(s1) : Len(s1[j]) = w1)
           => /\ FlattenSeq(s1) \in Seq(S1) /\ Len(FlattenSeq(s1)) = Len(s1) * w1
              /\ \A j \in 1 .. Len(s1) : \A l \in 1 .. w1 : FlattenSeq(s1)[(j - 1) * w1 + l] = s1[j][l]
      BY FlattenEven, Zenon
  <2>3. QED BY <2>1, <2>2, Zenon
<1>4. ASSUME NEW j \in 1 .. n
      PROVE  FlattenSeq(ss)[j] = t[j]
  <2>1. 1 \in 1 .. w /\ (j - 1) * w + 1 = j
      BY <1>0
  <2>2. FlattenSeq(ss)[(j - 1) * w + 1] = ss[j][1]
      BY <1>1, <1>3, <2>1
  <2>3. QED BY <1>1, <1>2, <2>1, <2>2
<1>5. Len(FlattenSeq(ss)) = n
    BY <1>0, <1>1, <1>3
<1>6. FlattenSeq(ss) = t
    BY <1>2, <1>3, <1>4, <1>5, SeqEqual
<1>7. QED BY <1>6 DEF ss, t, OnesFlat

FlatOf(g, s) == FlattenSeq([i \in DOMAIN s |-> g[s[i]]])
Splits(g, s, t) == FlatOf(g, s \o t) = FlatOf(g, s) \o FlatOf(g, t)
Spells(g, X, S) == \A x \in X : g[x] \in Seq(S)

LEMMA FlatOfIn ==
    ASSUME NEW S, NEW X, NEW g, Spells(g, X, S), NEW s \in Seq(X)
    PROVE  /\ [i \in DOMAIN s |-> g[s[i]]] \in Seq(Seq(S))
           /\ FlatOf(g, s) \in Seq(S)
<1> DEFINE m == [i \in DOMAIN s |-> g[s[i]]]
<1>1. m \in Seq(Seq(S))
  <2>1. DOMAIN s = 1 .. Len(s) /\ Len(s) \in Nat /\ \A i \in 1 .. Len(s) : g[s[i]] \in Seq(S)
      BY DEF Spells
  <2>2. QED BY <2>1
<1> HIDE DEF m
<1>2. FlattenSeq(m) \in Seq(S)
    BY <1>1, FlattenHas
<1>3. QED BY <1>1, <1>2 DEF m, FlatOf

LEMMA FlatOfNone ==
    ASSUME NEW g
    PROVE  FlatOf(g, <<>>) = <<>>
<1>1. [i \in DOMAIN <<>> |-> g[<<>>[i]]] = <<>>
    OBVIOUS
<1>2. QED BY <1>1, FlattenNone DEF FlatOf

LEMMA FlatOfOne ==
    ASSUME NEW S, NEW g, NEW x, g[x] \in Seq(S)
    PROVE  FlatOf(g, << x >>) = g[x]
<1>1. [i \in DOMAIN << x >> |-> g[<< x >>[i]]] = << g[x] >>
    OBVIOUS
<1>2. QED BY <1>1, FlattenOne DEF FlatOf

LEMMA FlatOfConcat ==
    ASSUME NEW S, NEW X, NEW g, Spells(g, X, S), NEW s \in Seq(X), NEW t \in Seq(X)
    PROVE  s \o t \in Seq(X) /\ Splits(g, s, t)
<1> DEFINE u == s \o t
           ms == [i \in DOMAIN s |-> g[s[i]]]
           mt == [i \in DOMAIN t |-> g[t[i]]]
           mu == [i \in DOMAIN u |-> g[u[i]]]
           mc == ms \o mt
<1>1. /\ u \in Seq(X) /\ Len(u) = Len(s) + Len(t)
      /\ \A i \in 1 .. Len(s) + Len(t) : u[i] = IF i <= Len(s) THEN s[i] ELSE t[i - Len(s)]
    BY ConcatProperties
<1>2. Len(s) \in Nat /\ Len(t) \in Nat
    OBVIOUS
<1> HIDE DEF u
<1>3. ms \in Seq(Seq(S)) /\ Len(ms) = Len(s) /\ \A i \in 1 .. Len(s) : ms[i] = g[s[i]]
    BY FlatOfIn
<1>4. mt \in Seq(Seq(S)) /\ Len(mt) = Len(t) /\ \A i \in 1 .. Len(t) : mt[i] = g[t[i]]
    BY FlatOfIn
<1>5. mu \in Seq(Seq(S)) /\ Len(mu) = Len(u) /\ \A i \in 1 .. Len(u) : mu[i] = g[u[i]]
  <2>1. DOMAIN u = 1 .. Len(u) /\ Len(u) \in Nat
      BY <1>1
  <2>2. mu \in Seq(Seq(S))
    <3>1. u \in Seq(X)
        BY <1>1
    <3> HIDE DEF mc, ms, mt
    <3>2. QED BY <3>1, FlatOfIn
  <2>3. Len(mu) = Len(u) /\ \A i \in 1 .. Len(u) : mu[i] = g[u[i]]
      BY <2>1
  <2>4. QED BY <2>2, <2>3
<1> HIDE DEF ms, mt, mu
<1>6. /\ mc \in Seq(Seq(S)) /\ Len(mc) = Len(ms) + Len(mt)
      /\ \A i \in 1 .. Len(ms) + Len(mt) : mc[i] = IF i <= Len(ms) THEN ms[i] ELSE mt[i - Len(ms)]
  <2>1. ms \in Seq(Seq(S)) /\ mt \in Seq(Seq(S))
      BY <1>3, <1>4
  <2>2. mc \in Seq(Seq(S))
      BY <2>1
  <2>3. QED BY <2>1, <2>2, ConcatProperties
<1>7. ASSUME NEW i \in 1 .. Len(s) + Len(t)
      PROVE  mc[i] = mu[i]
  <2> HIDE DEF mc
  <2>1. CASE i <= Len(s)
    <3>1. i \in 1 .. Len(s)
        BY <1>2, <2>1
    <3>2. mc[i] = ms[i] /\ ms[i] = g[s[i]]
        BY <1>3, <1>4, <1>6, <2>1, <3>1
    <3>3. u[i] = s[i] /\ mu[i] = g[u[i]]
        BY <1>1, <1>2, <1>5, <2>1, <3>1
    <3>4. QED BY <3>2, <3>3
  <2>2. CASE ~(i <= Len(s))
    <3>1. i - Len(s) \in 1 .. Len(t)
        BY <1>2, <2>2
    <3>2. mc[i] = mt[i - Len(s)] /\ mu[i] = g[t[i - Len(s)]]
        BY <1>1, <1>3, <1>4, <1>5, <1>6, <2>2
    <3>3. QED BY <1>4, <3>1, <3>2
  <2>3. QED BY <2>1, <2>2
<1> HIDE DEF mc
<1>8. mc = mu
    BY <1>1, <1>3, <1>4, <1>5, <1>6, <1>7, SeqEqual
<1>9. FlattenSeq(ms \o mt) = FlattenSeq(ms) \o FlattenSeq(mt)
    BY <1>3, <1>4, FlattenConcat
<1>10. u \in Seq(X) /\ FlattenSeq(mu) = FlattenSeq(ms) \o FlattenSeq(mt)
    BY <1>1, <1>8, <1>9 DEF mc
<1>11. QED BY <1>10 DEF u, mu, ms, mt, FlatOf, Splits

\* One element at a time.
FlatOfAll(g, h, ss) == FlatOf(g, FlattenSeq(ss)) = FlattenSeq(h)

LEMMA FlatOfFlatten ==
    ASSUME NEW S, NEW X, NEW g, Spells(g, X, S), NEW ss \in Seq(Seq(X)),
           NEW h, \A i \in 1 .. Len(ss) : h[i] = FlatOf(g, ss[i]), h \in Seq(Seq(S)), Len(h) = Len(ss)
    PROVE  FlatOfAll(g, h, ss)
<1> DEFINE n == Len(ss)
           P == {k \in 0 .. n : FlatOf(g, FlattenSeq(SubSeq(ss, 1, k))) = FlattenSeq(SubSeq(h, 1, k))}
<1>1. n \in Nat
    OBVIOUS
<1>2. /\ FlattenSeq(SubSeq(ss, 1, 0)) = <<>>
      /\ FlattenSeq(SubSeq(ss, 1, Len(ss))) = FlattenSeq(ss)
      /\ \A k \in 1 .. Len(ss) :
                /\ ss[k] \in Seq(X)
                /\ FlattenSeq(SubSeq(ss, 1, k)) = FlattenSeq(SubSeq(ss, 1, k - 1)) \o ss[k]
                /\ FlattenSeq(SubSeq(ss, 1, k - 1)) \in Seq(X)
    BY FlattenNext
<1>3. /\ FlattenSeq(SubSeq(h, 1, 0)) = <<>>
      /\ FlattenSeq(SubSeq(h, 1, Len(h))) = FlattenSeq(h)
      /\ \A k \in 1 .. Len(h) :
                /\ h[k] \in Seq(S)
                /\ FlattenSeq(SubSeq(h, 1, k)) = FlattenSeq(SubSeq(h, 1, k - 1)) \o h[k]
                /\ FlattenSeq(SubSeq(h, 1, k - 1)) \in Seq(S)
    BY FlattenNext
<1>4. 0 \in P
    BY <1>1, <1>2, <1>3, FlatOfNone
<1>5. ASSUME NEW k \in 1 .. n, k - 1 \in P
      PROVE  k \in P
  <2> DEFINE a == FlattenSeq(SubSeq(ss, 1, k - 1))
             b == FlattenSeq(SubSeq(h, 1, k - 1))
  <2>1. a \in Seq(X) /\ ss[k] \in Seq(X) /\ FlattenSeq(SubSeq(ss, 1, k)) = a \o ss[k]
      BY <1>2
  <2>2. FlattenSeq(SubSeq(h, 1, k)) = b \o h[k]
      BY <1>3
  <2>3. FlatOf(g, a) = b
      BY <1>5
  <2> HIDE DEF a, b
  <2>4. FlatOf(g, a \o ss[k]) = FlatOf(g, a) \o FlatOf(g, ss[k])
    <3> DEFINE c == ss[k]
    <3>1. a \in Seq(X) /\ c \in Seq(X)
        BY <2>1
    <3> HIDE DEF P, c
    <3>2. FlatOf(g, a \o c) = FlatOf(g, a) \o FlatOf(g, c)
      <4>1. Splits(g, a, c)
          BY <3>1, FlatOfConcat, Zenon
      <4>2. QED BY <4>1 DEF Splits
    <3>3. QED BY <3>2 DEF c
  <2>5. k \in 0 .. n
      BY <1>1
  <2>6. QED BY <2>1, <2>2, <2>3, <2>4, <2>5
<1> HIDE DEF P
<1>6. n \in P
  <2>1. 0 .. n \subseteq P
      BY <1>1, <1>4, <1>5, Upwards
  <2>2. QED BY <1>1, <2>1
<1>7. QED BY <1>2, <1>3, <1>6 DEF P, FlatOfAll

LEMMA FlatOfFlat ==
    ASSUME NEW S, NEW X, NEW Y, NEW g, Spells(g, X, S),
           NEW h, Spells(h, Y, X), NEW s \in Seq(Y),
           NEW f, \A y \in Y : f[y] = FlatOf(g, h[y])
    PROVE  FlatOf(g, FlatOf(h, s)) = FlatOf(f, s)
<1> DEFINE hs == [i \in DOMAIN s |-> h[s[i]]]
           fs == [i \in DOMAIN s |-> f[s[i]]]
<1>1. hs \in Seq(Seq(X)) /\ Len(hs) = Len(s) /\ \A i \in 1 .. Len(s) : hs[i] = h[s[i]]
    BY FlatOfIn
<1>2. Spells(f, Y, S)
  <2> SUFFICES ASSUME NEW y \in Y PROVE f[y] \in Seq(S)
      BY DEF Spells
  <2>1. h[y] \in Seq(X)
      BY DEF Spells
  <2>2. FlatOf(g, h[y]) \in Seq(S)
      BY <2>1, FlatOfIn
  <2>3. QED BY <2>2
<1>3. fs \in Seq(Seq(S)) /\ Len(fs) = Len(s) /\ \A i \in 1 .. Len(s) : fs[i] = f[s[i]]
    BY <1>2, FlatOfIn
<1>4. \A i \in 1 .. Len(hs) : fs[i] = FlatOf(g, hs[i])
    BY <1>1, <1>3
<1> HIDE DEF hs, fs
<1>5. FlatOfAll(g, fs, hs)
    BY <1>1, <1>3, <1>4, FlatOfFlatten
<1>6. QED BY <1>5 DEF hs, fs, FlatOf, FlatOfAll

\* Two ways to make the same of each element.
LEMMA FlatOfSame ==
    ASSUME NEW X, NEW s \in Seq(X), NEW f, NEW g, \A x \in X : f[x] = g[x]
    PROVE  FlatOf(f, s) = FlatOf(g, s)
<1>1. [i \in DOMAIN s |-> f[s[i]]] = [i \in DOMAIN s |-> g[s[i]]]
    OBVIOUS
<1>2. QED BY <1>1 DEF FlatOf

-----------------------------------------------------------------------------
(***************************************************************************)
(* Sequences of no or one element each, one behind the other: where the    *)
(* element of each of them is.                                             *)
(***************************************************************************)
Places(ss, c) ==
    /\ c \in [0 .. Len(ss) -> Nat]
    /\ c[0] = 0 /\ c[Len(ss)] = Len(FlattenSeq(ss))
    /\ \A k \in 1 .. Len(ss) : c[k] = c[k - 1] + Len(ss[k])
    /\ \A k \in 1 .. Len(ss) : Len(ss[k]) = 1 => FlattenSeq(ss)[c[k]] = ss[k][1]

LEMMA RisingPlaces ==
    ASSUME NEW n \in Nat, NEW c \in [0 .. n -> Nat], NEW w \in [1 .. n -> {0, 1}],
           c[0] = 0, \A k \in 1 .. n : c[k] = c[k - 1] + w[k]
    PROVE  /\ \A b \in 0 .. n : \A a \in 0 .. b : c[a] <= c[b]
           /\ \A j \in 1 .. c[n] : \E k \in 1 .. n : w[k] = 1 /\ c[k] = j
           /\ \A b \in 0 .. n : \A a \in 0 .. b : c[a] = c[b] => \A k \in a + 1 .. b : w[k] = 0
           /\ \A b \in 0 .. n : \A a \in 0 .. b : (\A k \in a + 1 .. b : w[k] = 0) => c[a] = c[b]
<1>1. \A k \in 0 .. n : c[k] \in Nat
    OBVIOUS
<1>2. \A k \in 1 .. n : w[k] \in {0, 1} /\ k - 1 \in 0 .. n
    OBVIOUS
<1>3. \A b \in 0 .. n : \A a \in 0 .. b : c[a] <= c[b]
  <2> DEFINE P == {b \in 0 .. n : \A a \in 0 .. b : c[a] <= c[b]}
  <2>1. 0 \in P
      BY <1>1
  <2>2. ASSUME NEW k \in 1 .. n, k - 1 \in P
        PROVE  k \in P
    <3>1. k \in 0 .. n /\ \A a \in 0 .. k - 1 : c[a] <= c[k - 1]
        BY <2>2
    <3>2. ASSUME NEW a \in 0 .. k
          PROVE  c[a] <= c[k]
      <4>1. CASE a = k
          BY <1>1, <3>1, <4>1
      <4>2. CASE a # k
        <5>1. a \in 0 .. k - 1 /\ a \in 0 .. n
            BY <4>2
        <5>2. c[a] <= c[k - 1] /\ c[a] \in Nat /\ c[k - 1] \in Nat /\ w[k] \in {0, 1} /\ c[k] = c[k - 1] + w[k]
            BY <1>1, <1>2, <3>1, <5>1
        <5>3. QED BY <5>2
      <4>3. QED BY <4>1, <4>2
    <3>3. QED BY <3>1, <3>2
  <2> HIDE DEF P
  <2>3. 0 .. n \subseteq P
      BY <2>1, <2>2, Upwards
  <2>4. QED BY <2>3 DEF P
<1>4. ASSUME NEW j \in 1 .. c[n]
      PROVE  \E k \in 1 .. n : w[k] = 1 /\ c[k] = j
  <2> DEFINE R == {k \in 0 .. n : c[k] >= j}
  <2>1. R \in SUBSET Nat /\ n \in R
      BY <1>1
  <2>2. PICK m \in R : \A k \in R : m <= k
    <3> HIDE DEF R
    <3>1. QED BY <2>1, MinOfNats
  <2>3. m \in 0 .. n /\ c[m] >= j /\ j >= 1
      BY <2>2
  <2>4. m \in 1 .. n
      BY <1>1, <2>3
  <2>5. m - 1 \in 0 .. n /\ ~(m <= m - 1)
      BY <2>4
  <2>6. m - 1 \notin R
    <3> HIDE DEF R
    <3>1. QED BY <2>2, <2>5
  <2>7. c[m - 1] < j
      BY <1>1, <2>5, <2>6
  <2>8. c[m] = c[m - 1] + w[m] /\ w[m] \in {0, 1} /\ c[m] \in Nat /\ c[m - 1] \in Nat
      BY <1>1, <1>2, <2>3, <2>4
  <2>9. w[m] = 1 /\ c[m] = j
      BY <2>3, <2>7, <2>8
  <2>10. QED BY <2>4, <2>9
<1>5. ASSUME NEW b \in 0 .. n, NEW a \in 0 .. b, c[a] = c[b], NEW k \in a + 1 .. b
      PROVE  w[k] = 0
  <2>1. k \in 1 .. n /\ k - 1 \in 0 .. n /\ a \in 0 .. k - 1 /\ k \in 0 .. b /\ k \in 0 .. n /\ a \in 0 .. n
      OBVIOUS
  <2>2. c[a] <= c[k - 1] /\ c[k] <= c[b]
      BY <1>3, <2>1
  <2>3. c[k] = c[k - 1] + w[k] /\ w[k] \in {0, 1} /\ c[k] \in Nat /\ c[k - 1] \in Nat /\ c[a] \in Nat
      BY <1>1, <1>2, <2>1
  <2>4. QED BY <1>5, <2>2, <2>3
<1>6. ASSUME NEW b \in 0 .. n, NEW a \in 0 .. b, \A k \in a + 1 .. b : w[k] = 0
      PROVE  c[a] = c[b]
  <2> DEFINE P == {d \in 0 .. b - a : c[a + d] = c[a]}
  <2>1. 0 \in P /\ b - a \in Nat
      BY <1>1
  <2>2. ASSUME NEW d \in 1 .. b - a, d - 1 \in P
        PROVE  d \in P
    <3>1. a + d \in 1 .. n /\ a + d \in a + 1 .. b /\ a + d - 1 = a + (d - 1)
        OBVIOUS
    <3>2. c[a + d] = c[a + d - 1] + w[a + d] /\ w[a + d] = 0 /\ c[a + (d - 1)] = c[a]
        BY <1>6, <2>2, <3>1
    <3>3. a \in 0 .. n /\ c[a] \in Nat
        BY <1>1
    <3>4. QED BY <3>1, <3>2, <3>3
  <2> HIDE DEF P
  <2>3. 0 .. b - a \subseteq P
      BY <2>1, <2>2, Upwards
  <2>4. b - a \in P /\ a + (b - a) = b
      BY <2>1, <2>3
  <2>5. QED BY <2>4 DEF P
<1>7. QED BY <1>3, <1>4, <1>5, <1>6

LEMMA PlacesAre ==
    ASSUME NEW S, NEW ss \in Seq(Seq(S)), \A k \in 1 .. Len(ss) : Len(ss[k]) \in {0, 1}
    PROVE  \E c : Places(ss, c)
<1> DEFINE n == Len(ss)
           F(k) == FlattenSeq(SubSeq(ss, 1, k))
           c == [k \in 0 .. n |-> Len(F(k))]
<1>1. n \in Nat
    OBVIOUS
<1>2. F(0) = <<>> /\ F(n) = FlattenSeq(ss)
  <2>1. /\ FlattenSeq(SubSeq(ss, 1, 0)) = <<>>
        /\ FlattenSeq(SubSeq(ss, 1, Len(ss))) = FlattenSeq(ss)
      BY FlattenNext, Zenon
  <2>2. QED BY <2>1
<1>3. \A k \in 1 .. n : ss[k] \in Seq(S) /\ F(k) = F(k - 1) \o ss[k] /\ F(k - 1) \in Seq(S)
    BY FlattenNext
<1>4. FlattenSeq(ss) \in Seq(S)
    BY FlattenHas
<1> HIDE DEF F
<1>5. \A k \in 0 .. n : F(k) \in Seq(S)
  <2> SUFFICES ASSUME NEW k \in 0 .. n PROVE F(k) \in Seq(S)
      OBVIOUS
  <2>1. CASE k = n
      BY <1>2, <1>4, <2>1
  <2>2. CASE k # n
    <3> DEFINE j == k + 1
    <3>1. j \in 1 .. n /\ j - 1 = k
        BY <1>1, <2>2
    <3> HIDE DEF j
    <3>2. F(j - 1) \in Seq(S)
        BY <1>3, <3>1
    <3>3. QED BY <3>1, <3>2
  <2>3. QED BY <2>1, <2>2
<1>6. \A k \in 0 .. n : c[k] = Len(F(k)) /\ c[k] \in Nat
    BY <1>5
<1>7. c \in [0 .. n -> Nat] /\ c[0] = 0 /\ c[n] = Len(FlattenSeq(ss))
  <2>1. 0 \in 0 .. n /\ n \in 0 .. n
      BY <1>1
  <2>2. Len(F(0)) = 0
      BY <1>2
  <2>3. QED BY <1>2, <1>6, <2>1, <2>2
<1>8. ASSUME NEW k \in 1 .. n
      PROVE  /\ c[k] = c[k - 1] + Len(ss[k])
             /\ \A i \in 1 .. c[k - 1] : F(k)[i] = F(k - 1)[i]
             /\ Len(ss[k]) = 1 => F(k)[c[k]] = ss[k][1]
  <2> DEFINE a == F(k - 1)
             b == ss[k]
  <2>1. k \in 0 .. n /\ k - 1 \in 0 .. n
      BY <1>1
  <2>2. a \in Seq(S) /\ b \in Seq(S) /\ F(k) = a \o b /\ c[k] = Len(F(k)) /\ c[k - 1] = Len(a)
      BY <1>3, <1>6, <2>1
  <2> HIDE DEF a, c
  <2> DEFINE d == a \o b
  <2>3. /\ d \in Seq(S) /\ Len(d) = Len(a) + Len(b)
        /\ \A i \in 1 .. Len(a) + Len(b) : d[i] = IF i <= Len(a) THEN a[i] ELSE b[i - Len(a)]
      BY <2>2, ConcatProperties
  <2>4. Len(a) \in Nat /\ Len(b) \in Nat
      BY <2>2
  <2>5. F(k) = d
      BY <2>2
  <2> HIDE DEF d, b
  <2>6. c[k] = c[k - 1] + Len(b)
      BY <2>2, <2>3, <2>5
  <2>7. \A i \in 1 .. Len(a) : d[i] = a[i]
      BY <2>3, <2>4
  <2>8. Len(b) = 1 => d[Len(a) + 1] = b[1]
    <3> SUFFICES ASSUME Len(b) = 1 PROVE d[Len(a) + 1] = b[1]
        OBVIOUS
    <3>1. Len(a) + 1 \in 1 .. Len(a) + Len(b) /\ ~(Len(a) + 1 <= Len(a)) /\ Len(a) + 1 - Len(a) = 1
        BY <2>4
    <3>2. QED BY <2>3, <3>1
  <2>9. Len(b) = 1 => c[k] = Len(a) + 1
      BY <2>2, <2>6
  <2>10. QED BY <2>2, <2>5, <2>6, <2>7, <2>8, <2>9 DEF a, b
<1>9. ASSUME NEW k \in 1 .. n, Len(ss[k]) = 1
      PROVE  FlattenSeq(ss)[c[k]] = ss[k][1]
  <2> DEFINE p == c[k]
             z == ss[k][1]
             P == {j \in 0 .. n : j < k \/ (p <= c[j] /\ F(j)[p] = z)}
  <2>1. p \in Nat \ {0} /\ F(k)[p] = z
    <3>1. k - 1 \in 0 .. n /\ k \in 0 .. n
        BY <1>1
    <3>2. c[k - 1] \in Nat /\ c[k] \in Nat /\ c[k] = c[k - 1] + Len(ss[k]) /\ F(k)[c[k]] = ss[k][1]
        BY <1>6, <1>8, <1>9, <3>1
    <3> HIDE DEF c
    <3>3. QED BY <1>9, <3>2
  <2> HIDE DEF c
  <2>2. 0 \in P
      BY <1>1
  <2>3. ASSUME NEW j \in 1 .. n, j - 1 \in P
        PROVE  j \in P
    <3>1. j \in 0 .. n /\ j - 1 \in 0 .. n
        BY <1>1
    <3>2. /\ c[j] = c[j - 1] + Len(ss[j]) /\ Len(ss[j]) \in {0, 1}
          /\ \A i \in 1 .. c[j - 1] : F(j)[i] = F(j - 1)[i]
        BY <1>8
    <3>3. c[j] \in Nat /\ c[j - 1] \in Nat
        BY <1>6, <3>1
    <3>4. CASE j < k
        BY <3>1, <3>4
    <3>5. CASE j = k
      <4>1. p <= c[j] /\ F(j)[p] = z
        <5>1. F(j) = F(k) /\ c[j] = p
            BY <3>5
        <5> HIDE DEF p
        <5>2. QED BY <2>1, <5>1
      <4>2. QED BY <3>1, <4>1
    <3>6. CASE j > k
      <4>1. ~(j - 1 < k)
          BY <3>6
      <4>2. p <= c[j - 1] /\ F(j - 1)[p] = z
          BY <2>3, <4>1
      <4> HIDE DEF p, z
      <4>3. p \in 1 .. c[j - 1] /\ p <= c[j]
          BY <2>1, <3>2, <3>3, <4>2
      <4>4. F(j)[p] = z
          BY <3>2, <4>2, <4>3
      <4>5. QED BY <3>1, <4>3, <4>4
    <3>7. QED BY <3>4, <3>5, <3>6
  <2> HIDE DEF P
  <2>4. 0 .. n \subseteq P
      BY <1>1, <2>2, <2>3, Upwards
  <2>5. n \in P /\ ~(n < k)
      BY <1>1, <2>4
  <2>6. F(n)[p] = z
      BY <2>5 DEF P
  <2>7. QED BY <1>2, <2>6
<1> HIDE DEF c
<1>10. Places(ss, c)
    BY <1>7, <1>8, <1>9 DEF Places
<1>11. QED BY <1>10

(***************************************************************************)
(* Two neighbours of a sequence made one.                                  *)
(***************************************************************************)
MergedAt(ps, i, z) == SubSeq(ps, 1, i - 1) \o << z >> \o SubSeq(ps, i + 2, Len(ps))

MergesOne(S, ps, i, z) ==
    /\ MergedAt(ps, i, z) \in Seq(S) /\ Len(MergedAt(ps, i, z)) = Len(ps) - 1
    /\ \A j \in 1 .. Len(ps) - 1 :
          MergedAt(ps, i, z)[j] = IF j < i THEN ps[j] ELSE IF j = i THEN z ELSE ps[j + 1]

LEMMA MergedAtIs ==
    ASSUME NEW S, NEW ps \in Seq(S), NEW i \in 1 .. Len(ps) - 1, NEW z \in S
    PROVE  MergesOne(S, ps, i, z)
<1> DEFINE n == Len(ps)
           a == SubSeq(ps, 1, i - 1)
           b == << z >>
           c == SubSeq(ps, i + 2, n)
           d == a \o b
           e == d \o c
<1>1. n \in Nat /\ i \in 1 .. n - 1 /\ i - 1 \in 0 .. n
    OBVIOUS
<1>2. a \in Seq(S) /\ Len(a) = i - 1 /\ \A j \in 1 .. i - 1 : a[j] = ps[j]
    BY <1>1, FirstOnes
<1>3. c \in Seq(S) /\ Len(c) = n - i - 1 /\ \A j \in 1 .. n - i - 1 : c[j] = ps[i + 1 + j]
  <2>1. \A j \in i + 2 .. n : ps[j] \in S
      BY <1>1, ElementOfSeq
  <2>2. /\ c \in Seq(S)
        /\ Len(c) = IF i + 2 <= n THEN n - (i + 2) + 1 ELSE 0
        /\ \A j \in 1 .. n - (i + 2) + 1 : c[j] = ps[i + 2 + j - 1]
    <3>1. i + 2 \in Int /\ n \in Int
        BY <1>1
    <3>2. QED BY <2>1, <3>1, SubSeqProperties
  <2>3. (IF i + 2 <= n THEN n - (i + 2) + 1 ELSE 0) = n - i - 1 /\ n - (i + 2) + 1 = n - i - 1
      BY <1>1
  <2>4. \A j \in 1 .. n - i - 1 : i + 2 + j - 1 = i + 1 + j
      BY <1>1
  <2>5. QED BY <2>2, <2>3, <2>4
<1>4. b \in Seq(S) /\ Len(b) = 1 /\ b[1] = z
    OBVIOUS
<1> HIDE DEF a, b, c, n
<1>5. /\ d \in Seq(S) /\ Len(d) = Len(a) + Len(b)
      /\ \A j \in 1 .. Len(a) + Len(b) : d[j] = IF j <= Len(a) THEN a[j] ELSE b[j - Len(a)]
    BY <1>2, <1>4, ConcatProperties
<1>6. Len(d) = i
    BY <1>1, <1>2, <1>4, <1>5
<1> HIDE DEF d
<1>7. /\ e \in Seq(S) /\ Len(e) = Len(d) + Len(c)
      /\ \A j \in 1 .. Len(d) + Len(c) : e[j] = IF j <= Len(d) THEN d[j] ELSE c[j - Len(d)]
  <2>1. d \in Seq(S) /\ c \in Seq(S)
      BY <1>3, <1>5
  <2>2. QED BY <2>1, ConcatProperties
<1>8. Len(e) = n - 1
    BY <1>1, <1>3, <1>6, <1>7
<1> HIDE DEF e
<1>9. ASSUME NEW j \in 1 .. n - 1
      PROVE  e[j] = IF j < i THEN ps[j] ELSE IF j = i THEN z ELSE ps[j + 1]
  <2>1. j \in 1 .. Len(d) + Len(c)
      BY <1>1, <1>3, <1>6
  <2>2. CASE j < i
    <3>1. j \in 1 .. i - 1 /\ j <= i /\ j \in 1 .. Len(a) + Len(b) /\ j <= Len(a)
        BY <1>1, <1>2, <1>4, <2>2
    <3>2. e[j] = d[j] /\ d[j] = a[j] /\ a[j] = ps[j]
        BY <1>2, <1>5, <1>6, <1>7, <2>1, <3>1
    <3>3. QED BY <2>2, <3>2
  <2>3. CASE j = i
    <3>1. j \in 1 .. Len(a) + Len(b) /\ ~(j <= Len(a)) /\ j - Len(a) = 1 /\ j <= i /\ ~(j < i)
        BY <1>1, <1>2, <1>4, <2>3
    <3>2. e[j] = d[j] /\ d[j] = b[1]
        BY <1>5, <1>6, <1>7, <2>1, <3>1
    <3>3. QED BY <1>4, <2>3, <3>1, <3>2
  <2>4. CASE j > i
    <3>1. ~(j <= i) /\ j - i \in 1 .. n - i - 1 /\ i + 1 + (j - i) = j + 1 /\ ~(j < i) /\ j # i
        BY <1>1, <2>4
    <3>2. e[j] = c[j - i] /\ c[j - i] = ps[i + 1 + (j - i)]
        BY <1>3, <1>6, <1>7, <2>1, <3>1
    <3>3. QED BY <3>1, <3>2
  <2>5. QED BY <1>1, <2>2, <2>3, <2>4
<1>10. QED BY <1>7, <1>8, <1>9 DEF e, d, a, b, c, n, MergedAt, MergesOne

-----------------------------------------------------------------------------
Sparse(ss) == \A k \in 1 .. Len(ss) : Len(ss[k]) \in {0, 1}

Rises(ss, c) ==
    /\ \A k \in 0 .. Len(ss) : c[k] \in Nat
    /\ \A k \in 1 .. Len(ss) : c[k] = c[k - 1] + Len(ss[k])
    /\ \A b \in 0 .. Len(ss) : \A a \in 0 .. b : c[a] <= c[b]
    /\ \A j \in 1 .. Len(FlattenSeq(ss)) : \E k \in 1 .. Len(ss) : Len(ss[k]) = 1 /\ c[k] = j
    /\ \A b \in 0 .. Len(ss) : \A a \in 0 .. b : c[a] = c[b] => \A k \in a + 1 .. b : Len(ss[k]) = 0
    /\ \A b \in 0 .. Len(ss) : \A a \in 0 .. b : (\A k \in a + 1 .. b : Len(ss[k]) = 0) => c[a] = c[b]

LEMMA PlacesRise ==
    ASSUME NEW S, NEW ss \in Seq(Seq(S)), Sparse(ss), NEW c, Places(ss, c)
    PROVE  Rises(ss, c)
<1> DEFINE n == Len(ss)
           w == [k \in 1 .. n |-> Len(ss[k])]
<1>1. n \in Nat
    OBVIOUS
<1>2. w \in [1 .. n -> {0, 1}] /\ \A k \in 1 .. n : w[k] = Len(ss[k])
    BY DEF Sparse
<1>3. /\ c \in [0 .. n -> Nat] /\ c[0] = 0 /\ c[n] = Len(FlattenSeq(ss))
      /\ \A k \in 1 .. n : c[k] = c[k - 1] + Len(ss[k])
    BY DEF Places
<1> HIDE DEF w
<1>4. \A k \in 1 .. n : c[k] = c[k - 1] + w[k]
    BY <1>2, <1>3
<1>5. /\ \A b \in 0 .. n : \A a \in 0 .. b : c[a] <= c[b]
      /\ \A j \in 1 .. c[n] : \E k \in 1 .. n : w[k] = 1 /\ c[k] = j
      /\ \A b \in 0 .. n : \A a \in 0 .. b : c[a] = c[b] => \A k \in a + 1 .. b : w[k] = 0
      /\ \A b \in 0 .. n : \A a \in 0 .. b : (\A k \in a + 1 .. b : w[k] = 0) => c[a] = c[b]
  <2> HIDE DEF n
  <2>1. QED BY <1>1, <1>2, <1>3, <1>4, RisingPlaces
<1>6. \A b \in 0 .. n : \A a \in 0 .. b : \A k \in a + 1 .. b : k \in 1 .. n
    BY <1>1
<1>7. ASSUME NEW b \in 0 .. n, NEW a \in 0 .. b
      PROVE  /\ c[a] = c[b] => \A k \in a + 1 .. b : Len(ss[k]) = 0
             /\ (\A k \in a + 1 .. b : Len(ss[k]) = 0) => c[a] = c[b]
  <2>1. \A k \in a + 1 .. b : w[k] = Len(ss[k])
      BY <1>2, <1>6
  <2>2. /\ c[a] = c[b] => \A k \in a + 1 .. b : w[k] = 0
        /\ (\A k \in a + 1 .. b : w[k] = 0) => c[a] = c[b]
      BY <1>5
  <2> HIDE DEF n
  <2>3. QED BY <2>1, <2>2
<1>8. \A k \in 0 .. n : c[k] \in Nat
    BY <1>3
<1>9. \A j \in 1 .. Len(FlattenSeq(ss)) : \E k \in 1 .. n : Len(ss[k]) = 1 /\ c[k] = j
  <2> HIDE DEF n
  <2>1. QED BY <1>2, <1>3, <1>5
<1>10. QED BY <1>3, <1>5, <1>7, <1>8, <1>9 DEF Rises

\* Neighbours among those of one element.
LEMMA BeforeNext ==
    ASSUME NEW x \in Nat, NEW y \in Nat, NEW z \in Nat, NEW n \in Nat, y = x + 1, x = z + 1, y <= n
    PROVE  x \in 1 .. n - 1
OBVIOUS

LEMMA PlacesNext ==
    ASSUME NEW S, NEW ss \in Seq(Seq(S)), Sparse(ss), NEW c, Places(ss, c),
           NEW l \in 1 .. Len(ss), NEW r \in l + 1 .. Len(ss), Len(ss[l]) = 1, Len(ss[r]) = 1,
           \A k \in l + 1 .. r - 1 : Len(ss[k]) = 0
    PROVE  c[r] = c[l] + 1 /\ c[l] \in 1 .. Len(FlattenSeq(ss)) - 1
<1> DEFINE n == Len(ss)
           N == Len(FlattenSeq(ss))
           b == r - 1
           a == l - 1
<1>1. n \in Nat /\ l \in 0 .. b /\ l \in 0 .. n /\ r \in 0 .. n /\ n \in 0 .. n /\ r \in 1 .. n /\ b \in 0 .. n /\ a \in 0 .. n
    OBVIOUS
<1>2. Rises(ss, c) /\ c[n] = N
    BY PlacesRise DEF Places
<1>3. \A k \in l + 1 .. b : Len(ss[k]) = 0
    OBVIOUS
<1>4. c[r] = c[b] + 1 /\ c[l] = c[a] + 1
    BY <1>1, <1>2 DEF Rises
<1> HIDE DEF a, b, n, N
<1>5. c[l] = c[b] /\ c[r] <= c[n]
    BY <1>1, <1>2, <1>3 DEF Rises, n
<1>6. c[l] \in Nat /\ c[a] \in Nat /\ c[r] \in Nat /\ c[n] \in Nat
    BY <1>1, <1>2 DEF Rises, n
<1>7. c[r] = c[l] + 1 /\ c[l] \in 1 .. N - 1
  <2> DEFINE x == c[l]
             y == c[r]
  <2>1. x \in Nat /\ y \in Nat /\ c[a] \in Nat /\ y = x + 1 /\ x = c[a] + 1
      BY <1>4, <1>5, <1>6
  <2>2. y <= N /\ N \in Nat
      BY <1>2, <1>5, <1>6
  <2> HIDE DEF x, y
  <2>3. x \in 1 .. N - 1
      BY <2>1, <2>2, BeforeNext, Zenon
  <2>4. QED BY <2>1, <2>3 DEF x, y
<1>8. QED BY <1>7 DEF N

NextTo(ss, c, p) ==
    \E l, r \in 1 .. Len(ss) :
       /\ l < r /\ Len(ss[l]) = 1 /\ Len(ss[r]) = 1 /\ c[l] = p /\ c[r] = p + 1
       /\ \A k \in l + 1 .. r - 1 : Len(ss[k]) = 0

LEMMA NextPlaces ==
    ASSUME NEW S, NEW ss \in Seq(Seq(S)), Sparse(ss), NEW c, Places(ss, c),
           NEW p \in 1 .. Len(FlattenSeq(ss)) - 1
    PROVE  NextTo(ss, c, p)
<1> DEFINE n == Len(ss)
           q == p + 1
<1>1. n \in Nat /\ Len(FlattenSeq(ss)) \in Nat
    BY FlattenHas
<1>2. p \in 1 .. Len(FlattenSeq(ss)) /\ q \in 1 .. Len(FlattenSeq(ss)) /\ q = p + 1
    BY <1>1
<1>r. Rises(ss, c)
    BY PlacesRise
<1> HIDE DEF q
<1>3. PICK l \in 1 .. n : Len(ss[l]) = 1 /\ c[l] = p
    BY <1>2, <1>r DEF Rises
<1>4. PICK r \in 1 .. n : Len(ss[r]) = 1 /\ c[r] = q
    BY <1>2, <1>r DEF Rises
<1>5. l < r
  <2>1. SUFFICES ASSUME r <= l PROVE FALSE
      BY <1>1
  <2>2. l \in 0 .. n /\ r \in 0 .. l
      BY <1>1, <2>1
  <2>3. c[r] <= c[l]
      BY <1>r, <2>2 DEF Rises
  <2>4. QED BY <1>2, <1>3, <1>4, <2>3
<1>6. c[r] = c[r - 1] + 1 /\ c[r - 1] \in Nat
  <2>1. r - 1 \in 0 .. n
      BY <1>1
  <2>2. QED BY <1>4, <1>r, <2>1 DEF Rises
<1>7. c[l] = c[r - 1]
    BY <1>2, <1>3, <1>4, <1>6
<1>8. \A k \in l + 1 .. r - 1 : Len(ss[k]) = 0
  <2> DEFINE b == r - 1
  <2>1. b \in 0 .. n /\ l \in 0 .. b
      BY <1>1, <1>5
  <2>2. c[l] = c[b]
      BY <1>7
  <2> HIDE DEF b
  <2>3. \A k \in l + 1 .. b : Len(ss[k]) = 0
      BY <1>r, <2>1, <2>2 DEF Rises
  <2>4. QED BY <2>3 DEF b
<1>9. QED BY <1>2, <1>3, <1>4, <1>5, <1>8 DEF NextTo

\* The element of one of them taken into that of the one before.
PlacesOf(n, l, r, w, v, c, d) ==
    /\ n \in Nat /\ l \in 1 .. n /\ r \in l + 1 .. n /\ w[r] = 1
    /\ \A k \in 1 .. n : w[k] \in {0, 1} /\ v[k] = (IF k = r THEN 0 ELSE w[k])
    /\ \A k \in 0 .. n : c[k] \in Nat /\ d[k] \in Nat
    /\ c[0] = 0 /\ d[0] = 0
    /\ \A k \in 1 .. n : c[k] = c[k - 1] + w[k] /\ d[k] = d[k - 1] + v[k]

PlacesMerged(n, r, c, d) == \A k \in 0 .. n : d[k] = IF k < r THEN c[k] ELSE c[k] - 1

LEMMA MergedPlaces ==
    ASSUME NEW n, NEW l, NEW r, NEW w, NEW v, NEW c, NEW d, PlacesOf(n, l, r, w, v, c, d)
    PROVE  PlacesMerged(n, r, c, d)
<1> USE DEF PlacesOf
<1> DEFINE P == {k \in 0 .. n : d[k] = IF k < r THEN c[k] ELSE c[k] - 1}
<1>1. 0 \in P
    OBVIOUS
<1>2. ASSUME NEW k \in 1 .. n, k - 1 \in P
      PROVE  k \in P
  <2> DEFINE dk == d[k]
             dj == d[k - 1]
             ck == c[k]
             cj == c[k - 1]
             x == w[k]
  <2>1. k \in 0 .. n /\ k - 1 \in 0 .. n
      OBVIOUS
  <2>2. /\ dk = dj + (IF k = r THEN 0 ELSE x) /\ ck = cj + x /\ x \in {0, 1} /\ (k = r => x = 1)
        /\ dj = (IF k - 1 < r THEN cj ELSE cj - 1) /\ cj \in Nat /\ ck \in Nat /\ k \in Int /\ r \in Int
      BY <1>2, <2>1
  <2> HIDE DEF dk, dj, ck, cj, x, P
  <2>3. dk = IF k < r THEN ck ELSE ck - 1
      BY <2>2
  <2>4. k \in 0 .. n /\ d[k] = IF k < r THEN c[k] ELSE c[k] - 1
      BY <2>1, <2>3 DEF dk, ck
  <2>5. QED BY <2>4 DEF P
<1> HIDE DEF P
<1>3. 0 .. n \subseteq P
    BY <1>1, <1>2, Upwards
<1>4. QED BY <1>3 DEF P, PlacesMerged

ElementsOf(n, l, r, N, p, z, v, c, d, e, f, ps, qs) ==
    /\ n \in Nat /\ l \in 1 .. n /\ r \in l + 1 .. n /\ N \in Nat /\ p \in 1 .. N - 1
    /\ \A k \in 0 .. n : c[k] \in Nat /\ d[k] = IF k < r THEN c[k] ELSE c[k] - 1
    /\ v[r] = 0 /\ c[l] = p /\ c[r] = p + 1
    /\ \A k \in l + 1 .. r - 1 : v[k] = 0
    /\ \A k \in 1 .. n : k < l => c[k] < p
    /\ \A k \in 1 .. n : k > r /\ v[k] = 1 => c[k] > p + 1
    /\ \A j \in 1 .. N - 1 : \E k \in 1 .. n : v[k] = 1 /\ d[k] = j
    /\ \A k \in 1 .. n : v[k] = 1 => qs[d[k]] = f[k]
    /\ \A k \in 1 .. n : k \notin {l, r} /\ v[k] = 1 => ps[c[k]] = e[k] /\ f[k] = e[k]
    /\ f[l] = z

LEMMA MergedElements ==
    ASSUME NEW n, NEW l, NEW r, NEW N, NEW p, NEW z, NEW v, NEW c, NEW d, NEW e, NEW f, NEW ps, NEW qs,
           ElementsOf(n, l, r, N, p, z, v, c, d, e, f, ps, qs)
    PROVE  \A j \in 1 .. N - 1 : qs[j] = IF j < p THEN ps[j] ELSE IF j = p THEN z ELSE ps[j + 1]
<1> USE DEF ElementsOf
<1> SUFFICES ASSUME NEW j \in 1 .. N - 1
             PROVE  qs[j] = IF j < p THEN ps[j] ELSE IF j = p THEN z ELSE ps[j + 1]
    OBVIOUS
<1>1. PICK k \in 1 .. n : v[k] = 1 /\ d[k] = j
    OBVIOUS
<1>2. k # r /\ k \in 0 .. n /\ qs[j] = f[k] /\ k \notin l + 1 .. r - 1
    BY <1>1
<1>3. CASE k = l
  <2>1. d[k] = c[k] /\ j = p
      BY <1>1, <1>2, <1>3
  <2>2. QED BY <1>2, <1>3, <2>1
<1>4. CASE k < l
  <2>1. d[k] = c[k] /\ c[k] < p /\ k \notin {l, r}
      BY <1>1, <1>2, <1>4
  <2>2. ps[j] = f[k] /\ j < p
      BY <1>1, <2>1
  <2>3. QED BY <1>2, <2>2
<1>5. CASE k > l
  <2>1. k > r
      BY <1>2, <1>5
  <2>2. d[k] = c[k] - 1 /\ c[k] > p + 1 /\ k \notin {l, r} /\ c[k] \in Nat
      BY <1>1, <1>2, <2>1
  <2>3. j + 1 = c[k] /\ ~(j < p) /\ j # p
      BY <1>1, <2>2
  <2>4. ps[j + 1] = f[k]
      BY <1>1, <2>2, <2>3
  <2>5. QED BY <1>2, <2>3, <2>4
<1>6. QED BY <1>3, <1>4, <1>5

Between(n, l, r) == r \in 1 .. n /\ l # r /\ \A k \in l + 1 .. r - 1 : k \in 1 .. n /\ k # l /\ k # r

LEMMA BetweenThem ==
    ASSUME NEW n \in Nat, NEW l \in 1 .. n, NEW r \in l + 1 .. n
    PROVE  Between(n, l, r)
BY DEF Between

MergesInto(ss, tt, i, z) == FlattenSeq(tt) = MergedAt(FlattenSeq(ss), i, z)

LEMMA UpToNext ==
    ASSUME NEW a \in Nat, NEW b \in Nat, a <= b, NEW q, q = b + 1
    PROVE  a < q
OBVIOUS

LEMMA SparseMerge ==
    ASSUME NEW S, NEW ss \in Seq(Seq(S)), NEW tt \in Seq(Seq(S)), Len(tt) = Len(ss), Sparse(ss),
           NEW l \in 1 .. Len(ss), NEW r \in l + 1 .. Len(ss), NEW z \in S,
           Len(ss[l]) = 1, Len(ss[r]) = 1, \A k \in l + 1 .. r - 1 : Len(ss[k]) = 0,
           tt[l] = << z >>, tt[r] = <<>>, \A k \in 1 .. Len(ss) : k \notin {l, r} => tt[k] = ss[k],
           NEW c, Places(ss, c)
    PROVE  MergesInto(ss, tt, c[l], z)
<1> DEFINE n == Len(ss)
           ps == FlattenSeq(ss)
           qs == FlattenSeq(tt)
           N == Len(ps)
           p == c[l]
           ms == MergedAt(ps, p, z)
           w == [k \in 1 .. n |-> Len(ss[k])]
           v == [k \in 1 .. n |-> Len(tt[k])]
           e == [k \in 1 .. n |-> ss[k][1]]
           f == [k \in 1 .. n |-> tt[k][1]]
<1>1. n \in Nat /\ ps \in Seq(S) /\ qs \in Seq(S) /\ N \in Nat
    BY FlattenHas
<1>2. p \in 1 .. N - 1 /\ c[r] = p + 1
  <2>1. c[r] = c[l] + 1 /\ c[l] \in 1 .. Len(FlattenSeq(ss)) - 1
      BY PlacesNext, Zenon
  <2>2. QED BY <2>1
<1>3. /\ MergedAt(ps, p, z) \in Seq(S) /\ Len(MergedAt(ps, p, z)) = Len(ps) - 1
      /\ \A j \in 1 .. Len(ps) - 1 :
            MergedAt(ps, p, z)[j] = IF j < p THEN ps[j] ELSE IF j = p THEN z ELSE ps[j + 1]
  <2>1. ps \in Seq(S) /\ p \in 1 .. Len(ps) - 1
      BY <1>1, <1>2
  <2> HIDE DEF p, ps
  <2>2. MergesOne(S, ps, p, z)
      BY <2>1, MergedAtIs
  <2>3. QED BY <2>2 DEF MergesOne
<1>4. \A k \in 1 .. n : w[k] \in {0, 1} /\ v[k] = (IF k = r THEN 0 ELSE w[k])
  <2> SUFFICES ASSUME NEW k \in 1 .. n
               PROVE w[k] \in {0, 1} /\ v[k] = (IF k = r THEN 0 ELSE w[k])
      OBVIOUS
  <2>0. Len(ss[k]) \in {0, 1} /\ r # l /\ w[k] = Len(ss[k]) /\ v[k] = Len(tt[k])
    <3>1. Len(ss[k]) \in {0, 1}
        BY DEF Sparse
    <3>2. r # l
        OBVIOUS
    <3>3. w[k] = Len(ss[k]) /\ v[k] = Len(tt[k])
        OBVIOUS
    <3>4. QED BY <3>1, <3>2, <3>3
  <2> HIDE DEF w, v, e, f
  <2>1. CASE k = l
      BY <2>0, <2>1
  <2>2. CASE k = r
      BY <2>0, <2>2
  <2>3. CASE k # l /\ k # r
      BY <2>0, <2>3
  <2>4. QED BY <2>1, <2>2, <2>3
<1>5. Sparse(tt)
  <2> SUFFICES ASSUME NEW k \in 1 .. Len(tt) PROVE Len(tt[k]) \in {0, 1}
      BY DEF Sparse
  <2>1. v[k] = Len(tt[k]) /\ k \in 1 .. n
      OBVIOUS
  <2> HIDE DEF w, v
  <2>2. QED BY <1>4, <2>1
<1>6. PICK d : Places(tt, d)
  <2>1. \A k \in 1 .. Len(tt) : Len(tt[k]) \in {0, 1}
      BY <1>5 DEF Sparse
  <2>2. QED BY <2>1, PlacesAre
<1>7. Rises(ss, c) /\ Rises(tt, d)
    BY <1>5, <1>6, PlacesRise
<1>8. \A k \in 1 .. n : w[k] = Len(ss[k]) /\ v[k] = Len(tt[k]) /\ e[k] = ss[k][1] /\ f[k] = tt[k][1]
    OBVIOUS
<1>9. r \in 1 .. n /\ w[l] = 1 /\ w[r] = 1 /\ l # r /\ f[l] = z /\ \A k \in l + 1 .. r - 1 : k \in 1 .. n /\ k # l /\ k # r
  <2> HIDE DEF w, v, e, f
  <2>1. r \in 1 .. n /\ l # r /\ \A k \in l + 1 .. r - 1 : k \in 1 .. n /\ k # l /\ k # r
    <3>1. n \in Nat /\ l \in 1 .. n /\ r \in l + 1 .. n
        BY <1>1
    <3> HIDE DEF n
    <3>2. Between(n, l, r)
        BY <3>1, BetweenThem
    <3>3. QED BY <3>2 DEF Between
  <2>2. w[l] = 1 /\ w[r] = 1
      BY <1>8, <2>1
  <2>3. f[l] = << z >>[1]
      BY <1>8
  <2>4. QED BY <2>1, <2>2, <2>3
<1> HIDE DEF w, v, e, f, ms, ps, qs, p
<1>10. \A k \in 0 .. n : c[k] \in Nat /\ d[k] \in Nat
    BY <1>7 DEF Rises
<1>11. c[0] = 0 /\ d[0] = 0 /\ c[n] = N /\ d[n] = Len(qs)
    BY <1>6 DEF Places, ps, qs
<1>12. \A k \in 1 .. n : c[k] = c[k - 1] + w[k] /\ d[k] = d[k - 1] + v[k]
    BY <1>7, <1>8 DEF Rises
<1>13. \A k \in 0 .. n : d[k] = IF k < r THEN c[k] ELSE c[k] - 1
  <2>1. l \in 1 .. n /\ r \in l + 1 .. n
      OBVIOUS
  <2> HIDE DEF n
  <2>2. PlacesOf(n, l, r, w, v, c, d)
      BY <1>1, <1>4, <1>9, <1>10, <1>11, <1>12, <2>1, Zenon DEF PlacesOf
  <2>3. PlacesMerged(n, r, c, d)
      BY <2>2, MergedPlaces
  <2>4. QED BY <2>3 DEF PlacesMerged
<1>14. Len(qs) = N - 1
  <2>1. n \in 0 .. n /\ ~(n < r)
      BY <1>1
  <2>2. d[n] = c[n] - 1
      BY <1>13, <2>1
  <2>3. QED BY <1>11, <2>2
<1>15. \A k \in 1 .. n : k < l => c[k] < p
  <2> SUFFICES ASSUME NEW k \in 1 .. n, k < l PROVE c[k] < p
      OBVIOUS
  <2> DEFINE m == l - 1
  <2>1. m \in 0 .. n /\ k \in 0 .. m
      BY <1>1
  <2>2. c[l] = c[m] + w[l]
      BY <1>12
  <2> HIDE DEF m, n
  <2>3. c[k] <= c[m]
      BY <1>7, <2>1 DEF Rises, n
  <2>4. c[k] \in Nat /\ c[m] \in Nat
      BY <1>10, <2>1 DEF n
  <2>5. p = c[m] + 1
      BY <1>9, <2>2 DEF p
  <2>6. QED BY <2>3, <2>4, <2>5, UpToNext, Zenon
<1>16. \A k \in 1 .. n : k > r /\ v[k] = 1 => c[k] > p + 1
  <2> SUFFICES ASSUME NEW k \in 1 .. n, k > r, v[k] = 1 PROVE c[k] > p + 1
      OBVIOUS
  <2> DEFINE m == k - 1
  <2>1. m \in 0 .. n /\ r \in 0 .. m /\ k # r
      BY <1>1, <1>9
  <2>2. c[k] = c[m] + w[k] /\ w[k] = 1
      BY <1>4, <1>12, <2>1
  <2> HIDE DEF m, n
  <2>3. c[r] <= c[m]
      BY <1>7, <2>1 DEF Rises, n
  <2>4. c[r] \in Nat /\ c[m] \in Nat
      BY <1>9, <1>10, <2>1 DEF n
  <2>5. QED BY <1>2, <2>2, <2>3, <2>4
<1>17. \A j \in 1 .. N - 1 : \E k \in 1 .. n : v[k] = 1 /\ d[k] = j
  <2> SUFFICES ASSUME NEW j \in 1 .. N - 1 PROVE \E k \in 1 .. n : v[k] = 1 /\ d[k] = j
      OBVIOUS
  <2>1. PICK k \in 1 .. Len(tt) : Len(tt[k]) = 1 /\ d[k] = j
      BY <1>7, <1>14 DEF Rises, qs
  <2>2. QED BY <1>8, <2>1
<1>18. \A k \in 1 .. n : v[k] = 1 => qs[d[k]] = f[k]
  <2> SUFFICES ASSUME NEW k \in 1 .. n, v[k] = 1 PROVE qs[d[k]] = f[k]
      OBVIOUS
  <2>1. Len(tt[k]) = 1 /\ f[k] = tt[k][1] /\ k \in 1 .. Len(tt)
      BY <1>8
  <2>2. qs[d[k]] = tt[k][1]
      BY <1>6, <2>1 DEF Places, qs
  <2>3. QED BY <2>1, <2>2, Zenon
<1>19. \A k \in 1 .. n : k \notin {l, r} /\ v[k] = 1 => ps[c[k]] = e[k] /\ f[k] = e[k]
  <2> SUFFICES ASSUME NEW k \in 1 .. n, k \notin {l, r}, v[k] = 1 PROVE ps[c[k]] = e[k] /\ f[k] = e[k]
      OBVIOUS
  <2>1. tt[k] = ss[k] /\ Len(tt[k]) = 1 /\ e[k] = ss[k][1] /\ f[k] = tt[k][1]
      BY <1>8
  <2>2. ps[c[k]] = ss[k][1]
      BY <2>1 DEF Places, ps
  <2>3. QED BY <2>1, <2>2, Zenon
<1>20. \A k \in l + 1 .. r - 1 : v[k] = 0
  <2> SUFFICES ASSUME NEW k \in l + 1 .. r - 1 PROVE v[k] = 0
      OBVIOUS
  <2>1. k \in 1 .. n /\ k # l /\ k # r /\ Len(ss[k]) = 0
      BY <1>9, Zenon
  <2>2. v[k] = w[k] /\ w[k] = 0
      BY <1>4, <1>8, <2>1
  <2>3. QED BY <2>2
<1>21. v[r] = 0 /\ c[l] = p
    BY <1>4, <1>9 DEF p
<1>22. \A j \in 1 .. N - 1 : qs[j] = IF j < p THEN ps[j] ELSE IF j = p THEN z ELSE ps[j + 1]
  <2>1. \A k \in 0 .. n : c[k] \in Nat /\ d[k] = IF k < r THEN c[k] ELSE c[k] - 1
      BY <1>10, <1>13, Zenon
  <2>2. l \in 1 .. n /\ r \in l + 1 .. n
      OBVIOUS
  <2> HIDE DEF n, N
  <2>3. ElementsOf(n, l, r, N, p, z, v, c, d, e, f, ps, qs)
      BY <1>1, <1>2, <1>9, <1>15, <1>16, <1>17, <1>18, <1>19, <1>20, <1>21, <2>1, <2>2, Zenon DEF ElementsOf
  <2>4. QED BY <2>3, MergedElements
<1>23. ms \in Seq(S) /\ Len(ms) = N - 1 /\ \A j \in 1 .. N - 1 : qs[j] = ms[j]
    BY <1>3, <1>22, Zenon DEF ms
<1> HIDE DEF N
<1>24. qs = ms
  <2>1. Len(qs) = Len(ms) /\ \A j \in 1 .. Len(qs) : qs[j] = ms[j]
      BY <1>14, <1>23, Zenon
  <2>2. QED BY <1>1, <1>23, <2>1, SeqEqual, Zenon
<1>25. QED BY <1>24 DEF qs, ms, ps, p, MergesInto

Regroups(a, x, y, b) == (a \o x) \o (y \o b) = (a \o (x \o y)) \o b

LEMMA Regroup ==
    ASSUME NEW S, NEW a \in Seq(S), NEW x \in Seq(S), NEW y \in Seq(S), NEW b \in Seq(S)
    PROVE  Regroups(a, x, y, b)
<1> DEFINE c == a \o x
           d == c \o y
           e == x \o y
<1>1. c \in Seq(S) /\ e \in Seq(S)
    BY ConcatProperties
<1>2. c \o y = a \o e
  <2>1. Regrouped(a, x, y)
      BY Regrouping
  <2>2. QED BY <2>1 DEF Regrouped
<1> HIDE DEF c, e
<1>3. (c \o y) \o b = c \o (y \o b)
  <2>1. Regrouped(c, y, b)
      BY <1>1, Regrouping
  <2>2. QED BY <2>1 DEF Regrouped
<1>4. c \o (y \o b) = (a \o e) \o b
    BY <1>2, <1>3, Zenon
<1>5. QED BY <1>4 DEF c, e, Regroups

\* What two neighbours are made of, made of the one they become.
LEMMA FlattenMerged ==
    ASSUME NEW S, NEW ps \in Seq(Seq(S)), NEW i \in 1 .. Len(ps) - 1
    PROVE  FlattenSeq(MergedAt(ps, i, ps[i] \o ps[i + 1])) = FlattenSeq(ps)
<1> DEFINE n == Len(ps)
           T == Seq(S)
           a == SubSeq(ps, 1, i - 1)
           x == ps[i]
           y == ps[i + 1]
           z == x \o y
           b == SubSeq(ps, i + 2, n)
<1>1. n \in Nat /\ i \in 1 .. n /\ i + 1 \in 1 .. n /\ x \in Seq(S) /\ y \in Seq(S) /\ z \in Seq(S)
    OBVIOUS
<1>2. ps \in Seq(T) /\ a \in Seq(T) /\ b \in Seq(T) /\ << x >> \in Seq(T) /\ << y >> \in Seq(T) /\ << z >> \in Seq(T)
    BY <1>1
<1>3. ps = (a \o << x >>) \o (<< y >> \o b)
  <2> DEFINE f == SubSeq(ps, i + 1, n)
             g == SubSeq(ps, 1, i)
  <2> HIDE DEF T
  <2>1. g = a \o << x >>
    <3>1. 1 \in 1 .. Len(ps) /\ i \in 1 .. Len(ps)
        BY <1>1
    <3>2. SubSeq(ps, 1, i) = SubSeq(ps, 1, i - 1) \o << ps[i] >>
        BY <1>2, <3>1, SubSeqRecursiveSecond
    <3>3. QED BY <3>2
  <2>2. f = << y >> \o b
    <3> DEFINE j == i + 1
    <3>1. j \in 1 .. Len(ps) /\ n \in j .. Len(ps) /\ j + 1 = i + 2
        BY <1>1
    <3> HIDE DEF j, n
    <3>2. SubSeq(ps, j, n) = << ps[j] >> \o SubSeq(ps, j + 1, n)
        BY <1>2, <3>1, SubSeqRecursiveFirst
    <3>3. QED BY <3>1, <3>2 DEF j
  <2>3. ps = g \o f
    <3> DEFINE m == n - i
    <3>1. m \in Nat /\ i + m = n /\ i \in Nat /\ i + m <= Len(ps)
        BY <1>1
    <3> HIDE DEF m
    <3>2. SubSeq(ps, 1, i) \o SubSeq(ps, i + 1, i + m) = SubSeq(ps, 1, i + m)
        BY <1>2, <3>1, FirstAndNext
    <3>3. SubSeq(ps, 1, n) = ps
        BY <1>2, SubSeqFull
    <3>4. QED BY <3>1, <3>2, <3>3
  <2> HIDE DEF f, g
  <2>4. QED BY <2>1, <2>2, <2>3
<1>4. MergedAt(ps, i, z) = (a \o << z >>) \o b
    BY DEF MergedAt
<1> HIDE DEF a, b, x, y, z
<1> DEFINE A == FlattenSeq(a)
           B == FlattenSeq(b)
<1>5. a \in Seq(Seq(S)) /\ b \in Seq(Seq(S)) /\ << x >> \in Seq(Seq(S)) /\ << y >> \in Seq(Seq(S)) /\ << z >> \in Seq(Seq(S))
    BY <1>2
<1>6. A \in Seq(S) /\ B \in Seq(S)
    BY <1>5, FlattenHas
<1>7. FlattenSeq(<< x >>) = x /\ FlattenSeq(<< y >>) = y /\ FlattenSeq(<< z >>) = z
    BY <1>1, FlattenOne
<1>8. FlattenSeq(a \o << x >>) = A \o x /\ FlattenSeq(a \o << z >>) = A \o z /\ FlattenSeq(<< y >> \o b) = y \o B
    BY <1>5, <1>7, FlattenConcat, Zenon
<1>9. /\ a \o << x >> \in Seq(Seq(S)) /\ a \o << z >> \in Seq(Seq(S)) /\ << y >> \o b \in Seq(Seq(S))
    BY <1>5, ConcatProperties
<1> DEFINE u == a \o << x >>
           v == << y >> \o b
           t == a \o << z >>
<1> HIDE DEF A, B, u, v, t
<1>10. FlattenSeq(u \o v) = (A \o x) \o (y \o B)
  <2>1. u \in Seq(Seq(S)) /\ v \in Seq(Seq(S))
      BY <1>9 DEF u, v
  <2>2. FlattenSeq(u \o v) = FlattenSeq(u) \o FlattenSeq(v)
      BY <2>1, FlattenConcat
  <2>3. QED BY <1>8, <2>2 DEF u, v
<1>11. FlattenSeq(t \o b) = (A \o z) \o B
  <2>1. t \in Seq(Seq(S))
      BY <1>9 DEF t
  <2>2. FlattenSeq(t \o b) = FlattenSeq(t) \o FlattenSeq(b)
      BY <1>5, <2>1, FlattenConcat
  <2>3. QED BY <1>8, <2>2 DEF t, B
<1>12. (A \o x) \o (y \o B) = (A \o z) \o B
  <2>1. Regroups(A, x, y, B)
      BY <1>1, <1>6, Regroup
  <2>2. QED BY <2>1 DEF Regroups, z
<1>13. FlattenSeq(MergedAt(ps, i, z)) = FlattenSeq(ps)
    BY <1>3, <1>4, <1>10, <1>11, <1>12, Zenon DEF u, v, t
<1>14. QED BY <1>13 DEF x, y, z

-----------------------------------------------------------------------------
(***************************************************************************)
(* Merging as it is defined, with the merges ms.                           *)
(***************************************************************************)
RankOf(ms, x, y) == {k \in DOMAIN ms : ms[k] = <<x, y>>}

PairsIn(ms, ps) ==
    {<<Min(RankOf(ms, ps[i], ps[i + 1])), i>> : i \in {j \in 1 .. Len(ps) - 1 : RankOf(ms, ps[j], ps[j + 1]) # {}}}

LeastPair(ms, ps, k, j) ==
    <<k, j>> \in PairsIn(ms, ps) /\ \A q \in PairsIn(ms, ps) : k < q[1] \/ (k = q[1] /\ j <= q[2])

OnceIn(ms, ps) ==
    LET i == CHOOSE j \in DOMAIN ps : \E k \in DOMAIN ms : LeastPair(ms, ps, k, j)
    IN  IF PairsIn(ms, ps) = {} THEN ps ELSE MergedAt(ps, i, ps[i] \o ps[i + 1])

StepsIn(ms, ps, n, u) == u = [k \in 0 .. n |-> IF k = 0 THEN ps ELSE OnceIn(ms, u[k - 1])]
MergedIn(ms, ps) == LET u == CHOOSE u : StepsIn(ms, ps, Len(ps), u) IN u[Len(ps)]

LEMMA PairIs ==
    ASSUME NEW ms, DOMAIN ms \subseteq Nat, NEW T, NEW ps \in Seq(T), NEW q \in PairsIn(ms, ps)
    PROVE  /\ q = <<q[1], q[2]>> /\ q[1] \in DOMAIN ms /\ q[1] \in Nat /\ q[2] \in 1 .. Len(ps) - 1
           /\ q[2] \in DOMAIN ps /\ RankOf(ms, ps[q[2]], ps[q[2] + 1]) # {}
           /\ q[1] = Min(RankOf(ms, ps[q[2]], ps[q[2] + 1]))
<1>1. PICK i \in 1 .. Len(ps) - 1 : RankOf(ms, ps[i], ps[i + 1]) # {} /\ q = <<Min(RankOf(ms, ps[i], ps[i + 1])), i>>
    BY DEF PairsIn
<1>2. RankOf(ms, ps[i], ps[i + 1]) \in SUBSET Nat /\ RankOf(ms, ps[i], ps[i + 1]) \subseteq DOMAIN ms
    BY DEF RankOf
<1>3. Min(RankOf(ms, ps[i], ps[i + 1])) \in RankOf(ms, ps[i], ps[i + 1])
    BY <1>1, <1>2, MinOfNats
<1>4. i \in DOMAIN ps
    OBVIOUS
<1>5. QED BY <1>1, <1>2, <1>3, <1>4

\* The pair of the least rank, of one rank the leftmost, is the one that is merged.
LEMMA LeastIsMerged ==
    ASSUME NEW ms, DOMAIN ms \subseteq Nat, NEW T, NEW ps \in Seq(T), NEW k, NEW i, LeastPair(ms, ps, k, i)
    PROVE  OnceIn(ms, ps) = MergedAt(ps, i, ps[i] \o ps[i + 1])
<1> DEFINE Good(j) == \E h \in DOMAIN ms : LeastPair(ms, ps, h, j)
           c == CHOOSE j \in DOMAIN ps : Good(j)
<1>1. <<k, i>> \in PairsIn(ms, ps)
    BY DEF LeastPair
<1>2. k \in DOMAIN ms /\ k \in Nat /\ i \in DOMAIN ps /\ i \in Nat
  <2>1. /\ <<k, i>>[1] \in DOMAIN ms /\ <<k, i>>[1] \in Nat /\ <<k, i>>[2] \in 1 .. Len(ps) - 1
        /\ <<k, i>>[2] \in DOMAIN ps
      BY <1>1, PairIs
  <2>2. QED BY <2>1
<1>3. Good(i)
    BY <1>2
<1> HIDE DEF Good
<1>4. c \in DOMAIN ps /\ Good(c)
    BY <1>2, <1>3
<1> HIDE DEF c
<1>5. PICK h \in DOMAIN ms : LeastPair(ms, ps, h, c)
    BY <1>4 DEF Good
<1>6. h \in Nat /\ c \in Nat
    BY <1>4, <1>5
<1>7. (k < h \/ (k = h /\ i <= c)) /\ (h < k \/ (h = k /\ c <= i))
  <2>1. <<h, c>> \in PairsIn(ms, ps)
      BY <1>5 DEF LeastPair
  <2>2. k < <<h, c>>[1] \/ (k = <<h, c>>[1] /\ i <= <<h, c>>[2])
      BY <2>1 DEF LeastPair
  <2>3. h < <<k, i>>[1] \/ (h = <<k, i>>[1] /\ c <= <<k, i>>[2])
      BY <1>1, <1>5 DEF LeastPair
  <2>4. QED BY <2>2, <2>3
<1>8. c = i
    BY <1>2, <1>6, <1>7
<1>9. OnceIn(ms, ps) = MergedAt(ps, c, ps[c] \o ps[c + 1])
    BY <1>1 DEF OnceIn, c, Good
<1>10. QED BY <1>8, <1>9

LEMMA LeastIsThere ==
    ASSUME NEW ms, DOMAIN ms \subseteq Nat, NEW T, NEW ps \in Seq(T), PairsIn(ms, ps) # {}
    PROVE  \E k \in DOMAIN ms : \E i \in 1 .. Len(ps) - 1 : LeastPair(ms, ps, k, i)
<1> DEFINE Q == PairsIn(ms, ps)
           A == {q[1] : q \in Q}
<1>1. \A q \in Q : q = <<q[1], q[2]>> /\ q[1] \in DOMAIN ms /\ q[1] \in Nat /\ q[2] \in 1 .. Len(ps) - 1
    BY PairIs
<1>2. A \in SUBSET Nat /\ A # {}
    BY <1>1
<1>3. PICK k \in A : \A x \in A : k <= x
    BY <1>2, MinOfNats
<1> DEFINE B == {i \in 1 .. Len(ps) - 1 : <<k, i>> \in Q}
<1>4. B \in SUBSET Nat /\ B # {}
  <2>1. PICK q \in Q : k = q[1]
      BY <1>3
  <2>2. q[2] \in B
      BY <1>1, <2>1
  <2>3. QED BY <2>2
<1>5. PICK i \in B : \A x \in B : i <= x
  <2> HIDE DEF B
  <2>1. QED BY <1>4, MinOfNats
<1>6. <<k, i>> \in Q /\ i \in 1 .. Len(ps) - 1 /\ k \in DOMAIN ms
  <2>1. <<k, i>> \in Q /\ i \in 1 .. Len(ps) - 1
      BY <1>5
  <2>2. <<k, i>>[1] \in DOMAIN ms
      BY <1>1, <2>1
  <2>3. QED BY <2>1, <2>2
<1>7. ASSUME NEW q \in Q PROVE k < q[1] \/ (k = q[1] /\ i <= q[2])
  <2>1. q[1] \in A /\ q[1] \in Nat /\ k \in Nat
      BY <1>1, <1>2
  <2>2. k <= q[1]
      BY <1>3, <2>1
  <2>3. CASE k = q[1]
    <3>1. q[2] \in B
        BY <1>1, <2>3
    <3>2. QED BY <1>5, <2>3, <3>1
  <2>4. QED BY <2>1, <2>2, <2>3
<1>8. QED BY <1>6, <1>7 DEF LeastPair

MergesSome(ms, ps) ==
    \E i \in 1 .. Len(ps) - 1 : OnceIn(ms, ps) = MergedAt(ps, i, ps[i] \o ps[i + 1])

LEMMA OnceIs ==
    ASSUME NEW ms, DOMAIN ms \subseteq Nat, NEW T, NEW ps \in Seq(T)
    PROVE  /\ PairsIn(ms, ps) = {} => OnceIn(ms, ps) = ps
           /\ PairsIn(ms, ps) # {} => MergesSome(ms, ps)
<1>1. CASE PairsIn(ms, ps) = {}
    BY <1>1 DEF OnceIn
<1>2. CASE PairsIn(ms, ps) # {}
  <2>1. PICK k \in DOMAIN ms : \E i \in 1 .. Len(ps) - 1 : LeastPair(ms, ps, k, i)
      BY <1>2, LeastIsThere
  <2>2. PICK i \in 1 .. Len(ps) - 1 : LeastPair(ms, ps, k, i)
      BY <2>1
  <2>3. OnceIn(ms, ps) = MergedAt(ps, i, ps[i] \o ps[i + 1])
      BY <2>2, LeastIsMerged
  <2>4. QED BY <1>2, <2>3 DEF MergesSome
<1>3. QED BY <1>1, <1>2

\* The steps of merging are there.
LEMMA StepsAreThere ==
    ASSUME NEW ms, NEW ps, NEW n \in Nat
    PROVE  \E u : StepsIn(ms, ps, n, u)
<1> DEFINE P == {j \in 0 .. n : \E u : StepsIn(ms, ps, j, u)}
<1>1. 0 \in P
  <2> DEFINE u == [k \in 0 .. 0 |-> ps]
  <2>1. StepsIn(ms, ps, 0, u)
    <3>1. \A k \in 0 .. 0 : k = 0
        OBVIOUS
    <3>2. u = [k \in 0 .. 0 |-> IF k = 0 THEN ps ELSE OnceIn(ms, u[k - 1])]
        BY <3>1
    <3>3. QED BY <3>2 DEF StepsIn
  <2>2. QED BY <2>1
<1>2. ASSUME NEW j \in 1 .. n, j - 1 \in P
      PROVE  j \in P
  <2>1. PICK u : StepsIn(ms, ps, j - 1, u)
      BY <1>2
  <2>2. u = [k \in 0 .. j - 1 |-> IF k = 0 THEN ps ELSE OnceIn(ms, u[k - 1])]
      BY <2>1 DEF StepsIn
  <2> DEFINE v == [k \in 0 .. j |-> IF k = j THEN OnceIn(ms, u[j - 1]) ELSE u[k]]
  <2>3. \A k \in 0 .. j : (k = j \/ k \in 0 .. j - 1) /\ (k # 0 => k - 1 \in 0 .. j /\ k - 1 # j)
      OBVIOUS
  <2>4. \A k \in 0 .. j : v[k] = IF k = j THEN OnceIn(ms, u[j - 1]) ELSE u[k]
      OBVIOUS
  <2> HIDE DEF P
  <2>5. ASSUME NEW k \in 0 .. j
        PROVE  v[k] = IF k = 0 THEN ps ELSE OnceIn(ms, v[k - 1])
    <3>1. CASE k = j
      <4>1. k # 0 /\ k - 1 \in 0 .. j /\ k - 1 # j
          BY <3>1
      <4>2. v[k - 1] = u[j - 1]
          BY <2>4, <3>1, <4>1
      <4> HIDE DEF v
      <4>3. QED BY <2>4, <3>1, <4>1, <4>2
    <3>2. CASE k # j
      <4>1. k \in 0 .. j - 1 /\ v[k] = u[k]
          BY <2>3, <2>4, <3>2
      <4>2. u[k] = IF k = 0 THEN ps ELSE OnceIn(ms, u[k - 1])
          BY <2>2, <4>1
      <4>3. k # 0 => v[k - 1] = u[k - 1]
          BY <2>3, <2>4
      <4> HIDE DEF v
      <4>4. QED BY <4>1, <4>2, <4>3
    <3>3. QED BY <3>1, <3>2
  <2>6. v = [k \in 0 .. j |-> IF k = 0 THEN ps ELSE OnceIn(ms, v[k - 1])]
      BY <2>5
  <2>7. StepsIn(ms, ps, j, v)
      BY <2>6 DEF StepsIn
  <2>8. j \in 0 .. n
      OBVIOUS
  <2>9. QED BY <2>7, <2>8 DEF P
<1> HIDE DEF P
<1>3. n \in P
  <2>1. 0 .. n \subseteq P
      BY <1>1, <1>2, Upwards
  <2>2. QED BY <2>1
<1>4. QED BY <1>3 DEF P

StepsRight(ms, ps, n, u) == u[0] = ps /\ \A k \in 1 .. n : u[k] = OnceIn(ms, u[k - 1])

LEMMA StepsAre ==
    ASSUME NEW ms, NEW ps, NEW n \in Nat, NEW u, StepsIn(ms, ps, n, u)
    PROVE  StepsRight(ms, ps, n, u)
<1>1. u = [k \in 0 .. n |-> IF k = 0 THEN ps ELSE OnceIn(ms, u[k - 1])]
    BY DEF StepsIn
<1>2. u[0] = ps
    BY <1>1
<1>3. ASSUME NEW k \in 1 .. n PROVE u[k] = OnceIn(ms, u[k - 1])
  <2>1. k \in 0 .. n /\ k # 0
      OBVIOUS
  <2>2. QED BY <1>1, <2>1
<1>4. QED BY <1>2, <1>3 DEF StepsRight

\* After a step the same is reached.
LEMMA MergedAfterOne ==
    ASSUME NEW ms, DOMAIN ms \subseteq Nat, NEW U, NEW ps \in Seq(Seq(U)), PairsIn(ms, ps) # {}
    PROVE  MergedIn(ms, OnceIn(ms, ps)) = MergedIn(ms, ps)
<1> DEFINE T == Seq(U)
           n == Len(ps)
           qs == OnceIn(ms, ps)
           u == CHOOSE f : StepsIn(ms, ps, Len(ps), f)
           v == CHOOSE f : StepsIn(ms, qs, Len(qs), f)
<1>1. ps \in Seq(T) /\ n \in Nat
    OBVIOUS
<1>2. PICK i \in 1 .. n - 1 : qs = MergedAt(ps, i, ps[i] \o ps[i + 1])
  <2>1. MergesSome(ms, ps)
      BY OnceIs
  <2>2. QED BY <2>1 DEF MergesSome
<1>3. Len(qs) = n - 1
  <2> DEFINE z == ps[i] \o ps[i + 1]
  <2>1. z \in T
    <3>1. i \in 1 .. n /\ i + 1 \in 1 .. n
        BY <1>1
    <3>2. QED BY <3>1
  <2> HIDE DEF z, T
  <2>2. MergesOne(T, ps, i, z)
      BY <1>1, <2>1, MergedAtIs
  <2>3. QED BY <1>2, <2>2 DEF MergesOne, z
<1>4. n - 1 \in Nat
    BY <1>1, <1>2
<1>5. StepsIn(ms, ps, n, u)
  <2>1. \E w : StepsIn(ms, ps, Len(ps), w)
      BY <1>1, StepsAreThere
  <2>2. QED BY <2>1
<1> HIDE DEF qs
<1>6. StepsIn(ms, qs, n - 1, v)
  <2>1. \E w : StepsIn(ms, qs, Len(qs), w)
      BY <1>3, <1>4, StepsAreThere
  <2>2. StepsIn(ms, qs, Len(qs), v)
      BY <2>1
  <2> HIDE DEF v
  <2>3. QED BY <1>3, <2>2
<1>7. MergedIn(ms, ps) = u[n] /\ MergedIn(ms, qs) = v[n - 1]
  <2>1. MergedIn(ms, qs) = v[Len(qs)]
      BY DEF MergedIn
  <2>2. MergedIn(ms, ps) = u[n]
      BY DEF MergedIn
  <2> HIDE DEF u, v
  <2>3. QED BY <1>3, <2>1, <2>2
<1> HIDE DEF u, v
<1>8. u[0] = ps /\ \A k \in 1 .. n : u[k] = OnceIn(ms, u[k - 1])
  <2> HIDE DEF n
  <2>1. StepsRight(ms, ps, n, u)
      BY <1>1, <1>5, StepsAre
  <2>2. QED BY <2>1 DEF StepsRight
<1>9. v[0] = qs /\ \A k \in 1 .. n - 1 : v[k] = OnceIn(ms, v[k - 1])
  <2> DEFINE m == n - 1
  <2>1. m \in Nat /\ StepsIn(ms, qs, m, v)
      BY <1>4, <1>6
  <2> HIDE DEF m
  <2>2. StepsRight(ms, qs, m, v)
      BY <2>1, StepsAre
  <2>3. QED BY <2>2 DEF StepsRight, m
<1> DEFINE N == n - 1
           P == {k \in 0 .. N : v[k] = u[k + 1]}
<1>10. 0 \in P
  <2>1. 1 \in 1 .. n /\ 1 - 1 = 0 /\ 0 + 1 = 1 /\ 0 \in 0 .. N
      BY <1>1, <1>2
  <2>2. u[1] = OnceIn(ms, ps)
      BY <1>8, <2>1
  <2>3. QED BY <1>9, <2>1, <2>2 DEF qs
<1>11. ASSUME NEW k \in 1 .. N, k - 1 \in P
       PROVE  k \in P
  <2> DEFINE j == k + 1
  <2>1. j \in 1 .. n /\ j - 1 = k /\ k - 1 + 1 = k /\ k \in 0 .. N /\ k \in 1 .. n - 1
      BY <1>1
  <2>2. v[k - 1] = u[k]
      BY <1>11, <2>1
  <2> HIDE DEF j, n, N
  <2>3. v[k] = OnceIn(ms, v[k - 1]) /\ u[j] = OnceIn(ms, u[j - 1])
      BY <1>8, <1>9, <2>1
  <2>4. v[k] = u[j]
      BY <2>1, <2>2, <2>3
  <2>5. QED BY <2>1, <2>4 DEF j
<1> HIDE DEF P
<1>12. N \in P
  <2>1. N \in Nat
      BY <1>4
  <2> HIDE DEF N
  <2>2. 0 .. N \subseteq P
      BY <1>10, <1>11, <2>1, Upwards
  <2>3. QED BY <2>1, <2>2
<1>13. v[n - 1] = u[n]
  <2>1. v[N] = u[N + 1] /\ N + 1 = n
      BY <1>1, <1>12 DEF P
  <2>2. QED BY <2>1
<1>14. QED BY <1>7, <1>13 DEF qs

-----------------------------------------------------------------------------
(***************************************************************************)
(* The symbols of a word of n units: where one is, there is none before    *)
(* its end, and behind it the next one or the end of the word.             *)
(***************************************************************************)
Tiles(n, sy) ==
    /\ sy \in [1 .. n -> Nat]
    /\ \A i \in 1 .. n : sy[i] > 0 =>
          /\ i + sy[i] - 1 <= n
          /\ \A k \in i + 1 .. i + sy[i] - 1 : sy[k] = 0
          /\ i + sy[i] <= n => sy[i + sy[i]] > 0

Follows(n, sy, l, r) == l \in 1 .. n /\ r \in 1 .. n /\ sy[l] > 0 /\ r = l + sy[l]
JoinedAt(sy, l, r) == [sy EXCEPT ![l] = sy[l] + sy[r], ![r] = 0]

\* Two symbols do not overlap.
LEMMA SymbolsApart ==
    ASSUME NEW n \in Nat, NEW sy, Tiles(n, sy), NEW i \in 1 .. n, NEW l \in 1 .. n,
           sy[i] > 0, sy[l] > 0, i < l
    PROVE  i + sy[i] <= l
<1>1. sy[i] \in Nat /\ sy[l] \in Nat
    BY DEF Tiles
<1>2. \A k \in i + 1 .. i + sy[i] - 1 : sy[k] = 0
    BY DEF Tiles
<1>3. l \notin i + 1 .. i + sy[i] - 1
    BY <1>1, <1>2
<1>4. QED BY <1>1, <1>3

LEMMA FollowsIs ==
    ASSUME NEW n \in Nat, NEW sy, Tiles(n, sy), NEW l, NEW r, Follows(n, sy, l, r)
    PROVE  /\ l < r /\ sy[l] \in Nat /\ sy[r] \in Nat /\ sy[r] > 0 /\ r + sy[r] - 1 <= n
           /\ \A k \in l + 1 .. r - 1 : sy[k] = 0
<1>1. l \in 1 .. n /\ r \in 1 .. n /\ sy[l] > 0 /\ r = l + sy[l]
    BY DEF Follows
<1>2. sy[l] \in Nat /\ sy[r] \in Nat
    BY <1>1 DEF Tiles
<1>3. sy[r] > 0 /\ \A k \in l + 1 .. l + sy[l] - 1 : sy[k] = 0
    BY <1>1, <1>2 DEF Tiles
<1>4. r + sy[r] - 1 <= n
    BY <1>1, <1>3 DEF Tiles
<1>5. QED BY <1>1, <1>2, <1>3, <1>4

JoinedRight(n, sy, l, r) ==
    /\ JoinedAt(sy, l, r) \in [1 .. n -> Nat]
    /\ JoinedAt(sy, l, r)[l] = sy[l] + sy[r] /\ JoinedAt(sy, l, r)[r] = 0
    /\ \A k \in 1 .. n : k \notin {l, r} => JoinedAt(sy, l, r)[k] = sy[k]

LEMMA JoinedIs ==
    ASSUME NEW n \in Nat, NEW sy \in [1 .. n -> Nat], NEW l \in 1 .. n, NEW r \in 1 .. n, l # r
    PROVE  JoinedRight(n, sy, l, r)
<1>1. sy[l] + sy[r] \in Nat
    OBVIOUS
<1>2. QED BY <1>1 DEF JoinedAt, JoinedRight

LEMMA TilesJoined ==
    ASSUME NEW n \in Nat, NEW sy, Tiles(n, sy), NEW l, NEW r, Follows(n, sy, l, r)
    PROVE  Tiles(n, JoinedAt(sy, l, r))
<1> DEFINE J == JoinedAt(sy, l, r)
<1>1. l \in 1 .. n /\ r \in 1 .. n /\ sy[l] > 0 /\ r = l + sy[l]
    BY DEF Follows
<1>2. /\ l < r /\ sy[l] \in Nat /\ sy[r] \in Nat /\ sy[r] > 0 /\ r + sy[r] - 1 <= n
      /\ \A k \in l + 1 .. r - 1 : sy[k] = 0
    BY FollowsIs
<1>3. sy \in [1 .. n -> Nat] /\ \A k \in 1 .. n : sy[k] \in Nat
    BY DEF Tiles
<1>4. /\ J \in [1 .. n -> Nat] /\ J[l] = sy[l] + sy[r] /\ J[r] = 0
      /\ \A k \in 1 .. n : k \notin {l, r} => J[k] = sy[k]
  <2>1. l # r
      BY <1>1, <1>2
  <2>2. JoinedRight(n, sy, l, r)
      BY <1>1, <1>3, <2>1, JoinedIs
  <2>3. QED BY <2>2 DEF JoinedRight
<1>5. \A k \in r + 1 .. r + sy[r] - 1 : sy[k] = 0
    BY <1>1, <1>2 DEF Tiles
<1>6. r + sy[r] <= n => sy[r + sy[r]] > 0
    BY <1>1, <1>2 DEF Tiles
<1> HIDE DEF J
<1>7. ASSUME NEW i \in 1 .. n, J[i] > 0
      PROVE  /\ i + J[i] - 1 <= n
             /\ \A k \in i + 1 .. i + J[i] - 1 : J[k] = 0
             /\ i + J[i] <= n => J[i + J[i]] > 0
  <2>1. i # r /\ J[i] \in Nat
      BY <1>4, <1>7
  <2>2. CASE i = l
    <3>1. i + J[i] = r + sy[r]
        BY <1>1, <1>2, <1>4, <2>2
    <3>2. ASSUME NEW k \in i + 1 .. i + J[i] - 1 PROVE J[k] = 0
      <4>1. k \in l + 1 .. r + sy[r] - 1 /\ k \in 1 .. n
        <5> DEFINE e == i + J[i]
                   s == r + sy[r]
        <5>1. e = s /\ i = l /\ k \in i + 1 .. e - 1 /\ s \in Int /\ s - 1 <= n
            BY <1>1, <1>2, <2>1, <2>2, <3>1
        <5>2. l \in Nat
            BY <1>1
        <5> HIDE DEF e, s
        <5>3. k \in l + 1 .. s - 1 /\ k \in 1 .. n
            BY <5>1, <5>2
        <5>4. k \in l + 1 .. (r + sy[r]) - 1 /\ k \in 1 .. n
            BY <5>3 DEF s
        <5>5. (r + sy[r]) - 1 = r + sy[r] - 1
            BY <1>1, <1>2
        <5>6. QED BY <5>4, <5>5
      <4>2. CASE k = r
          BY <1>4, <4>2
      <4>3. CASE k < r
        <5>1. k \in l + 1 .. r - 1 /\ k # l /\ k # r
            BY <1>1, <4>1, <4>3
        <5>2. QED BY <1>2, <1>4, <4>1, <5>1
      <4>4. CASE k > r
        <5>1. k \in r + 1 .. r + sy[r] - 1 /\ k # l /\ k # r
            BY <1>1, <1>2, <4>1, <4>4
        <5>2. QED BY <1>4, <1>5, <4>1, <5>1
      <4>5. QED BY <1>1, <4>1, <4>2, <4>3, <4>4
    <3>3. i + J[i] <= n => J[i + J[i]] > 0
      <4> DEFINE k == r + sy[r]
      <4>1. k \in Nat /\ k > r /\ k > l
          BY <1>1, <1>2
      <4>2. k <= n => k \in 1 .. n /\ k \notin {l, r}
          BY <1>1, <4>1
      <4>3. k <= n => sy[k] > 0
          BY <1>6
      <4>4. i + J[i] = k
          BY <3>1
      <4> HIDE DEF k
      <4>5. k <= n => J[k] > 0
          BY <1>4, <4>2, <4>3
      <4>6. QED BY <4>4, <4>5
    <3>4. i + J[i] - 1 <= n
      <4>1. i + J[i] - 1 = (i + J[i]) - 1 /\ r + sy[r] - 1 = (r + sy[r]) - 1
          BY <1>1, <1>2, <2>1
      <4>2. QED BY <1>2, <3>1, <4>1
    <3>5. QED BY <3>2, <3>3, <3>4
  <2>3. CASE i # l
    <3>1. J[i] = sy[i] /\ sy[i] > 0 /\ sy[i] \in Nat
        BY <1>3, <1>4, <1>7, <2>1, <2>3
    <3>2. /\ i + sy[i] - 1 <= n /\ (i + sy[i] <= n => sy[i + sy[i]] > 0)
          /\ \A k \in i + 1 .. i + sy[i] - 1 : sy[k] = 0
        BY <3>1 DEF Tiles
    <3>3. \A k \in i + 1 .. i + sy[i] - 1 : k \in 1 .. n /\ J[k] = 0
      <4> SUFFICES ASSUME NEW k \in i + 1 .. i + sy[i] - 1 PROVE k \in 1 .. n /\ J[k] = 0
          OBVIOUS
      <4>1. k \in 1 .. n /\ sy[k] = 0
          BY <3>1, <3>2
      <4>2. k # l /\ k # r
          BY <1>1, <1>2, <4>1
      <4>3. QED BY <1>4, <4>1, <4>2
    <3>4. ASSUME i + sy[i] <= n PROVE J[i + sy[i]] > 0
      <4> DEFINE k == i + sy[i]
      <4>1. k \in 1 .. n /\ sy[k] > 0
          BY <3>1, <3>2, <3>4
      <4>2. k # r
        <5>1. CASE i < l
          <6>1. k <= l
              BY <1>1, <3>1, <5>1, SymbolsApart
          <6>2. QED BY <1>1, <1>2, <6>1
        <5>2. CASE l < i
          <6>1. l + sy[l] <= i
              BY <1>1, <3>1, <5>2, SymbolsApart
          <6>2. QED BY <1>1, <3>1, <6>1
        <5>3. QED BY <1>1, <2>3, <5>1, <5>2
      <4> HIDE DEF k
      <4>3. CASE k = l
          BY <1>2, <1>4, <4>3 DEF k
      <4>4. CASE k # l
        <5>1. J[k] = sy[k]
            BY <1>4, <4>1, <4>2, <4>4
        <5>2. QED BY <4>1, <5>1 DEF k
      <4>5. QED BY <4>3, <4>4
    <3>5. QED BY <3>1, <3>2, <3>3, <3>4
  <2>4. QED BY <2>2, <2>3
<1>8. QED BY <1>4, <1>7 DEF Tiles, J

-----------------------------------------------------------------------------
\* Two stretches of a sequence that meet.
Meet(w, a, b, c) == SubSeq(w, a, b - 1) \o SubSeq(w, b, c) = SubSeq(w, a, c)

LEMMA Meeting ==
    ASSUME NEW U, NEW w \in Seq(U), NEW a \in 1 .. Len(w) + 1, NEW b \in a .. Len(w) + 1, NEW c \in b - 1 .. Len(w)
    PROVE  Meet(w, a, b, c)
<1> DEFINE k == b - 1
<1>1. k \in a - 1 .. Len(w) /\ c \in k .. Len(w) /\ k + 1 = b
    OBVIOUS
<1> HIDE DEF k
<1>2. SubSeq(w, a, k) \o SubSeq(w, k + 1, c) = SubSeq(w, a, c)
    BY <1>1, ConcatAdjacentSubSeq
<1>3. QED BY <1>1, <1>2 DEF Meet, k

-----------------------------------------------------------------------------
(***************************************************************************)
(* The texts of the symbols.                                               *)
(***************************************************************************)
SsOf(w, sy) == [i \in DOMAIN sy |-> IF sy[i] = 0 THEN <<>> ELSE << SymAt(w, sy, i) >>]
SymTextsOf(w, sy) == FlattenSeq(SsOf(w, sy))

SsRight(U, w, sy) ==
    /\ SsOf(w, sy) \in Seq(Seq(Seq(U))) /\ Len(SsOf(w, sy)) = Len(w) /\ Sparse(SsOf(w, sy))
    /\ \A i \in 1 .. Len(w) : sy[i] = 0 => SsOf(w, sy)[i] = <<>> /\ Len(SsOf(w, sy)[i]) = 0
    /\ \A i \in 1 .. Len(w) : sy[i] > 0 =>
          /\ SsOf(w, sy)[i] = << SymAt(w, sy, i) >> /\ Len(SsOf(w, sy)[i]) = 1 /\ SsOf(w, sy)[i][1] = SymAt(w, sy, i)
          /\ SymAt(w, sy, i) \in Seq(U)
          /\ SymAt(w, sy, i) = SubSeq(w, i, i + sy[i] - 1)

LEMMA SsIs ==
    ASSUME NEW U, NEW w \in Seq(U), NEW sy, Tiles(Len(w), sy)
    PROVE  SsRight(U, w, sy)
<1> DEFINE n == Len(w)
           ss == SsOf(w, sy)
<1>1. n \in Nat /\ sy \in [1 .. n -> Nat] /\ DOMAIN sy = 1 .. n
    BY DEF Tiles
<1>2. \A i \in 1 .. n : ss[i] = IF sy[i] = 0 THEN <<>> ELSE << SymAt(w, sy, i) >>
    BY <1>1 DEF SsOf
<1>3. ASSUME NEW i \in 1 .. n, sy[i] > 0
      PROVE  SymAt(w, sy, i) \in Seq(U) /\ SymAt(w, sy, i) = SubSeq(w, i, i + sy[i] - 1)
  <2>1. i + sy[i] - 1 <= n /\ sy[i] \in Nat
      BY <1>1, <1>3 DEF Tiles
  <2> DEFINE e == i + sy[i] - 1
  <2>2. e \in Int /\ i \in Int /\ \A k \in i .. e : w[k] \in U
      BY <1>1, <2>1, ElementOfSeq
  <2> HIDE DEF e
  <2>3. SubSeq(w, i, e) \in Seq(U)
      BY <2>2, SubSeqProperties
  <2>4. QED BY <2>3 DEF e, SymAt
<1> DEFINE T == Seq(U)
           R == Seq(T)
<1>4. ASSUME NEW i \in 1 .. n
      PROVE  /\ ss[i] \in Seq(T) /\ Len(ss[i]) \in {0, 1}
             /\ sy[i] = 0 => ss[i] = <<>> /\ Len(ss[i]) = 0
             /\ sy[i] > 0 => ss[i] = << SymAt(w, sy, i) >> /\ Len(ss[i]) = 1 /\ ss[i][1] = SymAt(w, sy, i)
  <2>1. sy[i] \in Nat
      BY <1>1
  <2>2. CASE sy[i] = 0
    <3>1. ss[i] = <<>>
        BY <1>2, <2>2
    <3> HIDE DEF ss, T
    <3>2. QED BY <2>2, <3>1
  <2>3. CASE sy[i] > 0
    <3> DEFINE x == SymAt(w, sy, i)
    <3>1. ss[i] = << x >> /\ x \in T
      <4>1. sy[i] # 0
          BY <2>1, <2>3
      <4>2. x \in T
          BY <1>3, <2>3
      <4> HIDE DEF ss, T, x
      <4>3. QED BY <1>2, <4>1, <4>2 DEF x
    <3> HIDE DEF ss, T, x
    <3>2. ss[i] \in Seq(T) /\ Len(ss[i]) = 1 /\ ss[i][1] = x
        BY <3>1
    <3>3. QED BY <2>3, <3>1, <3>2 DEF x
  <2>4. QED BY <2>1, <2>2, <2>3
<1>5. ss \in Seq(R) /\ Len(ss) = n
  <2>1. ss = [i \in 1 .. n |-> ss[i]]
      BY <1>1 DEF SsOf
  <2>2. \A i \in 1 .. n : ss[i] \in R
      BY <1>4
  <2> HIDE DEF ss, R
  <2>3. ss \in [1 .. n -> R]
      BY <2>1, <2>2, Zenon
  <2>4. QED BY <1>1, <2>3
<1>6. Sparse(ss)
    BY <1>4, <1>5 DEF Sparse
<1>7. QED BY <1>3, <1>4, <1>5, <1>6 DEF SsRight

SymbolJoined(w, sy, l, r) == SymAt(w, JoinedAt(sy, l, r), l) = SymAt(w, sy, l) \o SymAt(w, sy, r)

LEMMA SymbolJoins ==
    ASSUME NEW U, NEW w \in Seq(U), NEW sy, Tiles(Len(w), sy), NEW l, NEW r, Follows(Len(w), sy, l, r)
    PROVE  SymbolJoined(w, sy, l, r)
<1> DEFINE n == Len(w)
           J == JoinedAt(sy, l, r)
           e == r + sy[r] - 1
<1>1. n \in Nat /\ l \in 1 .. n /\ r \in 1 .. n /\ r = l + sy[l]
    BY DEF Follows
<1>2. l < r /\ sy[l] \in Nat /\ sy[r] \in Nat /\ sy[r] > 0 /\ r + sy[r] - 1 <= n
  <2> HIDE DEF n
  <2>1. Tiles(n, sy) /\ Follows(n, sy, l, r)
      BY DEF n
  <2>2. QED BY <1>1, <2>1, FollowsIs
<1>3. J[l] = sy[l] + sy[r]
  <2>1. sy \in [1 .. n -> Nat] /\ l # r
    <3>1. sy \in [1 .. n -> Nat]
        BY DEF Tiles
    <3>2. QED BY <1>1, <1>2, <3>1
  <2>2. JoinedRight(n, sy, l, r)
      BY <1>1, <2>1, JoinedIs
  <2>3. QED BY <2>2 DEF JoinedRight
<1>4. l + J[l] - 1 = e /\ l + sy[l] - 1 = r - 1
  <2> DEFINE a == sy[l]
             b == sy[r]
             j == J[l]
  <2>1. j = a + b /\ a \in Nat /\ b \in Nat /\ r = l + a /\ l \in Nat
      BY <1>1, <1>2, <1>3
  <2> HIDE DEF a, b, j, J
  <2>2. l + j - 1 = r + b - 1 /\ l + a - 1 = r - 1
      BY <2>1
  <2>3. QED BY <2>2 DEF a, b, j
<1>5. Meet(w, l, r, e)
  <2>1. l \in 1 .. Len(w) /\ r \in l .. Len(w) /\ e \in r - 1 .. Len(w)
      BY <1>1, <1>2
  <2> HIDE DEF e
  <2>2. QED BY <2>1, Meeting
<1> HIDE DEF J, e
<1>6. SymAt(w, J, l) = SubSeq(w, l, e)
    BY <1>4 DEF SymAt
<1>7. SymAt(w, sy, l) = SubSeq(w, l, r - 1)
    BY <1>4 DEF SymAt
<1>8. SymAt(w, sy, r) = SubSeq(w, r, e)
    BY DEF SymAt, e
<1>9. QED BY <1>5, <1>6, <1>7, <1>8 DEF Meet, SymbolJoined, J

-----------------------------------------------------------------------------
(***************************************************************************)
(* Neighbouring symbols are neighbours among the texts, and the other way  *)
(* round; c: where the text of each symbol is.                             *)
(***************************************************************************)
PairAt(w, sy, c, l, r) ==
    LET ps == SymTextsOf(w, sy)
    IN  /\ c[l] \in 1 .. Len(ps) - 1 /\ c[r] = c[l] + 1
        /\ ps[c[l]] = SymAt(w, sy, l) /\ ps[c[l] + 1] = SymAt(w, sy, r)

LEMMA SymbolsArePairs ==
    ASSUME NEW U, NEW w \in Seq(U), NEW sy, Tiles(Len(w), sy), NEW c, Places(SsOf(w, sy), c),
           NEW l, NEW r, Follows(Len(w), sy, l, r)
    PROVE  PairAt(w, sy, c, l, r)
<1> DEFINE n == Len(w)
           ss == SsOf(w, sy)
           T == Seq(U)
<1>1. n \in Nat /\ l \in 1 .. n /\ r \in 1 .. n /\ sy[l] > 0
    BY DEF Follows
<1>2. l < r /\ sy[r] > 0 /\ \A k \in l + 1 .. r - 1 : sy[k] = 0
  <2> HIDE DEF n
  <2>1. Tiles(n, sy) /\ Follows(n, sy, l, r)
      BY DEF n
  <2>2. QED BY <1>1, <2>1, FollowsIs
<1>3. SsRight(U, w, sy)
    BY SsIs
<1>4. /\ ss \in Seq(Seq(T)) /\ Len(ss) = n /\ Sparse(ss)
      /\ Len(ss[l]) = 1 /\ ss[l][1] = SymAt(w, sy, l) /\ Len(ss[r]) = 1 /\ ss[r][1] = SymAt(w, sy, r)
    BY <1>1, <1>2, <1>3 DEF SsRight
<1>5. \A k \in l + 1 .. r - 1 : Len(ss[k]) = 0
  <2> SUFFICES ASSUME NEW k \in l + 1 .. r - 1 PROVE Len(ss[k]) = 0
      OBVIOUS
  <2>1. k \in 1 .. n /\ sy[k] = 0
      BY <1>1, <1>2
  <2>2. QED BY <1>3, <2>1 DEF SsRight
<1> HIDE DEF ss, T
<1>6. Places(ss, c)
    BY DEF ss
<1>7. l \in 1 .. Len(ss) /\ r \in l + 1 .. Len(ss)
    BY <1>1, <1>2, <1>4
<1>8. c[r] = c[l] + 1 /\ c[l] \in 1 .. Len(FlattenSeq(ss)) - 1
    BY <1>4, <1>5, <1>6, <1>7, PlacesNext
<1>9. FlattenSeq(ss)[c[l]] = ss[l][1] /\ FlattenSeq(ss)[c[r]] = ss[r][1]
    BY <1>1, <1>4, <1>6 DEF Places
<1>10. QED BY <1>4, <1>8, <1>9 DEF PairAt, SymTextsOf, ss

PairOf(w, sy, c, p) == \E l, r \in 1 .. Len(w) : Follows(Len(w), sy, l, r) /\ c[l] = p

LEMMA PairsAreSymbols ==
    ASSUME NEW U, NEW w \in Seq(U), NEW sy, Tiles(Len(w), sy), NEW c, Places(SsOf(w, sy), c),
           NEW p \in 1 .. Len(SymTextsOf(w, sy)) - 1
    PROVE  PairOf(w, sy, c, p)
<1> DEFINE n == Len(w)
           ss == SsOf(w, sy)
           T == Seq(U)
<1>1. SsRight(U, w, sy)
    BY SsIs
<1>2. ss \in Seq(Seq(T)) /\ Len(ss) = n /\ Sparse(ss) /\ n \in Nat /\ Places(ss, c) /\ p \in 1 .. Len(FlattenSeq(ss)) - 1
    BY <1>1 DEF SsRight, SymTextsOf
<1> HIDE DEF ss, T
<1>0. n \in Nat /\ Len(ss) = n
    BY <1>2
<1>3. PICK l \in 1 .. n, r \in 1 .. n :
           /\ l < r /\ Len(ss[l]) = 1 /\ Len(ss[r]) = 1 /\ c[l] = p
           /\ \A k \in l + 1 .. r - 1 : Len(ss[k]) = 0
  <2>1. NextTo(ss, c, p)
      BY <1>2, NextPlaces
  <2>2. QED BY <1>0, <2>1 DEF NextTo
<1>4. \A k \in 1 .. n : sy[k] \in Nat /\ (sy[k] = 0 => Len(ss[k]) = 0) /\ (sy[k] > 0 => Len(ss[k]) = 1)
    BY <1>1 DEF SsRight, Tiles, ss
<1> HIDE DEF n
<1>5. sy[l] > 0 /\ sy[r] > 0 /\ sy[l] \in Nat /\ sy[r] \in Nat
  <2>1. sy[l] \in Nat /\ (sy[l] = 0 => Len(ss[l]) = 0) /\ Len(ss[l]) = 1
      BY <1>3, <1>4, Zenon
  <2>2. sy[r] \in Nat /\ (sy[r] = 0 => Len(ss[r]) = 0) /\ Len(ss[r]) = 1
      BY <1>3, <1>4, Zenon
  <2> DEFINE a == sy[l]
             b == sy[r]
             d == Len(ss[l])
             e == Len(ss[r])
  <2>3. a \in Nat /\ (a = 0 => d = 0) /\ d = 1 /\ b \in Nat /\ (b = 0 => e = 0) /\ e = 1
      BY <2>1, <2>2
  <2> HIDE DEF a, b, d, e
  <2>4. a > 0 /\ b > 0 /\ a \in Nat /\ b \in Nat
      BY <2>3
  <2>5. QED BY <2>4 DEF a, b
<1>6. Tiles(n, sy)
    BY DEF n
<1>7. l + sy[l] <= r
    BY <1>0, <1>3, <1>5, <1>6, SymbolsApart
<1>8. ~(l + sy[l] < r)
  <2> SUFFICES ASSUME l + sy[l] < r PROVE FALSE
      OBVIOUS
  <2> DEFINE k == l + sy[l]
  <2>1. k \in 1 .. n /\ k \in l + 1 .. r - 1 /\ k <= n
      BY <1>0, <1>5
  <2>2. sy[k] > 0
      BY <1>5, <1>6, <2>1 DEF Tiles
  <2> HIDE DEF k
  <2>3. Len(ss[k]) = 1 /\ Len(ss[k]) = 0
    <3>1. Len(ss[k]) = 0
        BY <1>3, <2>1, Zenon
    <3>2. Len(ss[k]) = 1
        BY <1>4, <2>1, <2>2, Zenon
    <3>3. QED BY <3>1, <3>2
  <2>4. 1 = 0
      BY <2>3, Zenon
  <2>5. QED BY <2>4
<1>9. r = l + sy[l]
    BY <1>0, <1>5, <1>7, <1>8
<1>10. QED BY <1>3, <1>5, <1>9 DEF PairOf, Follows, n

\* Two symbols made one.
LEMMA TextsJoined ==
    ASSUME NEW U, NEW w \in Seq(U), NEW sy, Tiles(Len(w), sy), NEW c, Places(SsOf(w, sy), c),
           NEW l, NEW r, Follows(Len(w), sy, l, r)
    PROVE  SymTextsOf(w, JoinedAt(sy, l, r))
               = MergedAt(SymTextsOf(w, sy), c[l], SymAt(w, sy, l) \o SymAt(w, sy, r))
<1> DEFINE n == Len(w)
           J == JoinedAt(sy, l, r)
           ss == SsOf(w, sy)
           tt == SsOf(w, J)
           T == Seq(U)
           z == SymAt(w, sy, l) \o SymAt(w, sy, r)
<1>1. n \in Nat /\ l \in 1 .. n /\ r \in 1 .. n /\ sy[l] > 0
    BY DEF Follows
<1>2. l < r /\ sy[l] \in Nat /\ sy[r] \in Nat /\ sy[r] > 0 /\ \A k \in l + 1 .. r - 1 : sy[k] = 0
  <2> HIDE DEF n
  <2>1. Tiles(n, sy) /\ Follows(n, sy, l, r)
      BY DEF n
  <2>2. QED BY <1>1, <2>1, FollowsIs
<1>3. /\ J \in [1 .. n -> Nat] /\ J[l] = sy[l] + sy[r] /\ J[r] = 0
      /\ \A k \in 1 .. n : k \notin {l, r} => J[k] = sy[k]
  <2>1. sy \in [1 .. n -> Nat]
      BY DEF Tiles
  <2>2. l # r
      BY <1>1, <1>2
  <2> HIDE DEF n
  <2>3. JoinedRight(n, sy, l, r)
      BY <1>1, <2>1, <2>2, JoinedIs
  <2>4. QED BY <2>3 DEF JoinedRight
<1>4. Tiles(n, J)
  <2> HIDE DEF n, J
  <2>1. Tiles(n, sy) /\ Follows(n, sy, l, r)
      BY DEF n
  <2>2. QED BY <1>1, <2>1, TilesJoined DEF J
<1>5. SsRight(U, w, sy)
    BY SsIs
<1>6. SsRight(U, w, J)
  <2> HIDE DEF J
  <2>1. QED BY <1>4, SsIs
<1>7. SymAt(w, J, l) = z
  <2>1. SymbolJoined(w, sy, l, r)
      BY SymbolJoins
  <2>2. QED BY <2>1 DEF SymbolJoined
<1> HIDE DEF J
<1>8. /\ ss \in Seq(Seq(T)) /\ tt \in Seq(Seq(T)) /\ Len(tt) = Len(ss) /\ Len(ss) = n /\ Sparse(ss)
      /\ Len(ss[l]) = 1 /\ Len(ss[r]) = 1
    BY <1>1, <1>2, <1>5, <1>6 DEF SsRight
<1>9. \A k \in l + 1 .. r - 1 : Len(ss[k]) = 0
  <2> SUFFICES ASSUME NEW k \in l + 1 .. r - 1 PROVE Len(ss[k]) = 0
      OBVIOUS
  <2>1. k \in 1 .. n /\ sy[k] = 0
      BY <1>1, <1>2
  <2>2. QED BY <1>5, <2>1 DEF SsRight
<1>10. tt[l] = << z >> /\ tt[r] = <<>> /\ z \in T
  <2>1. J[l] > 0
      BY <1>1, <1>2, <1>3
  <2>2. tt[l] = << SymAt(w, J, l) >> /\ SymAt(w, J, l) \in T
      BY <1>1, <1>6, <2>1 DEF SsRight
  <2>3. tt[r] = <<>>
      BY <1>1, <1>3, <1>6 DEF SsRight
  <2> HIDE DEF tt, z, T
  <2>4. QED BY <1>7, <2>2, <2>3
<1>11. ASSUME NEW k \in 1 .. Len(ss), k \notin {l, r}
       PROVE  tt[k] = ss[k]
  <2>1. k \in 1 .. n
      BY <1>8
  <2>2. J[k] = sy[k]
      BY <1>3, <1>11, <2>1
  <2>3. DOMAIN J = 1 .. n /\ DOMAIN sy = 1 .. n
      BY <1>3 DEF Tiles
  <2>4. SymAt(w, J, k) = SymAt(w, sy, k)
      BY <2>2 DEF SymAt
  <2>5. tt[k] = (IF J[k] = 0 THEN <<>> ELSE << SymAt(w, J, k) >>)
      BY <2>1, <2>3 DEF SsOf
  <2>6. ss[k] = (IF sy[k] = 0 THEN <<>> ELSE << SymAt(w, sy, k) >>)
      BY <2>1, <2>3 DEF SsOf
  <2> HIDE DEF ss, tt
  <2>7. QED BY <2>2, <2>4, <2>5, <2>6
<1>12. l \in 1 .. Len(ss) /\ r \in l + 1 .. Len(ss) /\ Places(ss, c)
    BY <1>1, <1>2, <1>8
<1> HIDE DEF ss, tt, z, T
<1>13. MergesInto(ss, tt, c[l], z)
    BY <1>8, <1>9, <1>10, <1>11, <1>12, SparseMerge
<1>14. QED BY <1>13 DEF MergesInto, SymTextsOf, ss, tt, z, J

LEMMA PlacesThere ==
    ASSUME NEW U, NEW w \in Seq(U), NEW sy, Tiles(Len(w), sy)
    PROVE  \E c : Places(SsOf(w, sy), c)
<1> DEFINE ss == SsOf(w, sy)
           T == Seq(U)
<1>1. ss \in Seq(Seq(T)) /\ Sparse(ss)
    BY SsIs DEF SsRight
<1> HIDE DEF ss, T
<1>2. \E c : Places(ss, c)
    BY <1>1, PlacesAre DEF Sparse
<1>3. QED BY <1>2 DEF ss

-----------------------------------------------------------------------------
(***************************************************************************)
(* The heap: each pair in it was one of neighbours, with the least rank of *)
(* their texts, and the pairs that are neighbours now are in it.           *)
(***************************************************************************)
HeapPair(ms, w, b) ==
    /\ b \in [rank : Nat, li : Nat, ri : Nat, ln : Nat, rn : Nat]
    /\ b.li > 0 /\ b.ln > 0 /\ b.ri = b.li + b.ln /\ b.rn > 0 /\ b.ri + b.rn - 1 <= Len(w)
    /\ LET R == RankOf(ms, SubSeq(w, b.li, b.li + b.ln - 1), SubSeq(w, b.ri, b.ri + b.rn - 1))
       IN  R # {} /\ b.rank = Min(R)

BigramIn(ms, w, sy, l, r) ==
    LET R == RankOf(ms, SymAt(w, sy, l), SymAt(w, sy, r))
    IN  IF R = {} THEN {}
        ELSE {[rank |-> Min(R), li |-> l, ri |-> r, ln |-> sy[l], rn |-> sy[r]]}

HeapOk(ms, w, sy, hp) ==
    /\ \A b \in hp : HeapPair(ms, w, b)
    /\ \A l, r \in 1 .. Len(w) : Follows(Len(w), sy, l, r) => BigramIn(ms, w, sy, l, r) \subseteq hp

FreshIn(sy, b) == sy[b.li] = b.ln /\ sy[b.ri] = b.rn

PushedRight(ms, w, sy, l, r) ==
    \A b \in BigramIn(ms, w, sy, l, r) :
       HeapPair(ms, w, b) /\ b.li = l /\ b.ri = r /\ b.ln = sy[l] /\ b.rn = sy[r]

LEMMA PushedIs ==
    ASSUME NEW ms, DOMAIN ms \subseteq Nat, NEW U, NEW w \in Seq(U), NEW sy, Tiles(Len(w), sy),
           NEW l, NEW r, Follows(Len(w), sy, l, r)
    PROVE  PushedRight(ms, w, sy, l, r)
<1> DEFINE n == Len(w)
           R == RankOf(ms, SymAt(w, sy, l), SymAt(w, sy, r))
<1>1. n \in Nat /\ l \in 1 .. n /\ r \in 1 .. n /\ sy[l] > 0 /\ r = l + sy[l]
    BY DEF Follows
<1>2. l < r /\ sy[l] \in Nat /\ sy[r] \in Nat /\ sy[r] > 0 /\ r + sy[r] - 1 <= n
  <2> HIDE DEF n
  <2>1. Tiles(n, sy) /\ Follows(n, sy, l, r)
      BY DEF n
  <2>2. QED BY <1>1, <2>1, FollowsIs
<1>3. R \in SUBSET Nat
    BY DEF RankOf
<1> SUFFICES ASSUME NEW b \in BigramIn(ms, w, sy, l, r)
             PROVE  HeapPair(ms, w, b) /\ b.li = l /\ b.ri = r /\ b.ln = sy[l] /\ b.rn = sy[r]
    BY DEF PushedRight
<1>4. R # {} /\ b = [rank |-> Min(R), li |-> l, ri |-> r, ln |-> sy[l], rn |-> sy[r]]
    BY DEF BigramIn
<1>5. R = RankOf(ms, SubSeq(w, l, l + sy[l] - 1), SubSeq(w, r, r + sy[r] - 1))
    BY DEF SymAt
<1> HIDE DEF R, n
<1>6. Min(R) \in Nat
    BY <1>3, <1>4, MinOfNats
<1>7. b.rank = Min(R) /\ b.li = l /\ b.ri = r /\ b.ln = sy[l] /\ b.rn = sy[r]
    BY <1>4
<1>8. b \in [rank : Nat, li : Nat, ri : Nat, ln : Nat, rn : Nat]
  <2>1. l \in Nat /\ r \in Nat
      BY <1>1
  <2>2. QED BY <1>2, <1>4, <1>6, <2>1
<1>9. RankOf(ms, SubSeq(w, b.li, b.li + b.ln - 1), SubSeq(w, b.ri, b.ri + b.rn - 1)) = R
    BY <1>5, <1>7
<1>10. b.li > 0 /\ b.ln > 0 /\ b.ri = b.li + b.ln /\ b.rn > 0 /\ b.ri + b.rn - 1 <= n
    BY <1>1, <1>2, <1>7
<1>11. HeapPair(ms, w, b)
    BY <1>4, <1>7, <1>8, <1>9, <1>10 DEF HeapPair, n
<1>12. QED BY <1>7, <1>11

\* A pair whose symbols are as long as they were: it is one of neighbours.
FreshRight(ms, w, sy, b) == Follows(Len(w), sy, b.li, b.ri) /\ BigramIn(ms, w, sy, b.li, b.ri) = {b}

LEMMA FreshIs ==
    ASSUME NEW ms, NEW U, NEW w \in Seq(U), NEW sy, Tiles(Len(w), sy), NEW b, HeapPair(ms, w, b), FreshIn(sy, b)
    PROVE  FreshRight(ms, w, sy, b)
<1> DEFINE n == Len(w)
           l == b.li
           r == b.ri
           R == RankOf(ms, SymAt(w, sy, l), SymAt(w, sy, r))
           Q == RankOf(ms, SubSeq(w, b.li, b.li + b.ln - 1), SubSeq(w, b.ri, b.ri + b.rn - 1))
<1>1. /\ b \in [rank : Nat, li : Nat, ri : Nat, ln : Nat, rn : Nat]
      /\ l > 0 /\ b.ln > 0 /\ r = l + b.ln /\ b.rn > 0 /\ r + b.rn - 1 <= n /\ Q # {} /\ b.rank = Min(Q)
    BY DEF HeapPair
<1>2. sy[l] = b.ln /\ sy[r] = b.rn
    BY DEF FreshIn
<1>3. n \in Nat /\ l \in Nat /\ r \in Nat /\ b.ln \in Nat /\ b.rn \in Nat
    BY <1>1
<1>4. Follows(n, sy, l, r)
    BY <1>1, <1>2, <1>3 DEF Follows
<1>5. R = Q
    BY <1>2 DEF SymAt
<1>6. b = [rank |-> Min(R), li |-> l, ri |-> r, ln |-> sy[l], rn |-> sy[r]]
    BY <1>1, <1>2, <1>5
<1>7. BigramIn(ms, w, sy, l, r) = {b}
    BY <1>1, <1>5, <1>6 DEF BigramIn
<1>8. QED BY <1>4, <1>7 DEF FreshRight

LEMMA StaleGoes ==
    ASSUME NEW ms, DOMAIN ms \subseteq Nat, NEW U, NEW w \in Seq(U), NEW sy, Tiles(Len(w), sy),
           NEW hp, HeapOk(ms, w, sy, hp), NEW b \in hp, ~FreshIn(sy, b)
    PROVE  HeapOk(ms, w, sy, hp \ {b})
<1>1. \A a \in hp \ {b} : HeapPair(ms, w, a)
    BY DEF HeapOk
<1>2. ASSUME NEW l \in 1 .. Len(w), NEW r \in 1 .. Len(w), Follows(Len(w), sy, l, r)
      PROVE  BigramIn(ms, w, sy, l, r) \subseteq hp \ {b}
  <2>1. BigramIn(ms, w, sy, l, r) \subseteq hp
      BY <1>2 DEF HeapOk
  <2>2. PushedRight(ms, w, sy, l, r)
      BY <1>2, PushedIs
  <2>3. b \notin BigramIn(ms, w, sy, l, r)
      BY <2>2 DEF PushedRight, FreshIn
  <2>4. QED BY <2>1, <2>3
<1>3. QED BY <1>1, <1>2 DEF HeapOk

-----------------------------------------------------------------------------
(***************************************************************************)
(* The neighbours of a symbol.                                             *)
(***************************************************************************)
LastRight(n, sy, l) ==
    LET before == {i \in 1 .. l - 1 : sy[i] > 0}
    IN  /\ before # {} => Follows(n, sy, Max(before), l)
        /\ \A i : Follows(n, sy, i, l) => before # {} /\ i = Max(before)

LEMMA LastBefore ==
    ASSUME NEW n \in Nat, NEW sy, Tiles(n, sy), NEW l \in 1 .. n, sy[l] > 0
    PROVE  LastRight(n, sy, l)
<1> DEFINE before == {i \in 1 .. l - 1 : sy[i] > 0}
<1>1. ASSUME before # {}
      PROVE  Max(before) \in before /\ \A y \in before : y <= Max(before)
  <2>1. before \in SUBSET (0 .. n)
      OBVIOUS
  <2> HIDE DEF before
  <2>2. QED BY <1>1, <2>1, MaxUpTo
<1>2. ASSUME before # {}
      PROVE  Follows(n, sy, Max(before), l)
  <2> DEFINE m == Max(before)
  <2>1. m \in before /\ \A y \in before : y <= m
      BY <1>1, <1>2
  <2> HIDE DEF m
  <2>2. m \in 1 .. n /\ m < l /\ sy[m] > 0
      BY <2>1
  <2>3. sy[m] \in Nat
      BY <2>2 DEF Tiles
  <2>4. m + sy[m] <= l
      BY <2>2, SymbolsApart
  <2>5. ~(m + sy[m] < l)
    <3> SUFFICES ASSUME m + sy[m] < l PROVE FALSE
        OBVIOUS
    <3> DEFINE k == m + sy[m]
    <3>1. k \in 1 .. l - 1 /\ k <= n /\ ~(k <= m)
        BY <2>2, <2>3
    <3>2. sy[k] > 0
        BY <2>2, <3>1 DEF Tiles
    <3>3. k \in before
        BY <3>1, <3>2
    <3> HIDE DEF k, before
    <3>4. QED BY <2>1, <3>1, <3>3
  <2>6. l = m + sy[m]
      BY <2>2, <2>3, <2>4, <2>5
  <2>7. QED BY <2>2, <2>6 DEF Follows, m
<1>3. ASSUME NEW i, Follows(n, sy, i, l)
      PROVE  before # {} /\ i = Max(before)
  <2>1. i \in 1 .. n /\ sy[i] > 0 /\ l = i + sy[i] /\ i < l
      BY <1>3, FollowsIs DEF Follows
  <2>2. i \in before
      BY <2>1
  <2>3. before # {}
      BY <2>2
  <2> DEFINE m == Max(before)
  <2>4. m \in before /\ \A y \in before : y <= m
      BY <1>1, <2>3
  <2> HIDE DEF m
  <2>5. m \in 1 .. n /\ m < l /\ sy[m] > 0 /\ i <= m
      BY <2>2, <2>4
  <2>6. ~(i < m)
    <3> SUFFICES ASSUME i < m PROVE FALSE
        OBVIOUS
    <3>1. i + sy[i] <= m
        BY <2>1, <2>5, SymbolsApart
    <3>2. QED BY <2>1, <2>5, <3>1
  <2>7. QED BY <2>1, <2>3, <2>5, <2>6 DEF m
<1>4. QED BY <1>2, <1>3 DEF LastRight

FirstRight(n, sy, l, r) ==
    LET after == {i \in r + 1 .. n : sy[i] > 0}
    IN  /\ after # {} => Follows(n, sy, l, Min(after))
        /\ \A j : Follows(n, sy, l, j) => after # {} /\ j = Min(after)

LEMMA FirstAfter ==
    ASSUME NEW n \in Nat, NEW sy, Tiles(n, sy), NEW l \in 1 .. n, sy[l] > 0,
           NEW r \in l .. l + sy[l] - 1
    PROVE  FirstRight(n, sy, l, r)
<1> DEFINE after == {i \in r + 1 .. n : sy[i] > 0}
           e == l + sy[l]
<1>1. /\ sy[l] \in Nat /\ e \in Nat /\ e > l /\ r < e /\ r \in Nat /\ l <= r
      /\ e <= n => sy[e] > 0
  <2>1. sy[l] \in Nat
      BY DEF Tiles
  <2>2. e <= n => sy[e] > 0
      BY DEF Tiles
  <2>3. QED BY <2>1, <2>2
<1>2. \A i \in after : e <= i
  <2> SUFFICES ASSUME NEW i \in after PROVE e <= i
      OBVIOUS
  <2>1. i \in 1 .. n /\ sy[i] > 0 /\ l < i
      BY <1>1
  <2>2. QED BY <2>1, SymbolsApart
<1>3. e <= n => e \in after
    BY <1>1
<1>4. ASSUME after # {} PROVE e <= n /\ Min(after) = e
  <2>1. PICK i \in after : TRUE
      BY <1>4
  <2>2. e <= i /\ i <= n
      BY <1>1, <1>2
  <2>3. e <= n /\ e \in after
      BY <1>1, <1>3, <2>2
  <2>4. after \in SUBSET Nat
      BY <1>1
  <2> HIDE DEF after, e
  <2>5. Min(after) \in after /\ \A y \in after : Min(after) <= y
      BY <1>4, <2>4, MinOfNats
  <2>6. Min(after) <= e /\ e <= Min(after) /\ Min(after) \in Nat
      BY <1>2, <2>3, <2>4, <2>5
  <2>7. QED BY <1>1, <2>3, <2>6
<1>5. ASSUME after # {} PROVE Follows(n, sy, l, Min(after))
  <2>1. e \in 1 .. n
      BY <1>1, <1>4, <1>5
  <2>2. Follows(n, sy, l, e)
      BY <2>1 DEF Follows
  <2>3. QED BY <1>4, <1>5, <2>2
<1>6. ASSUME NEW j, Follows(n, sy, l, j) PROVE after # {} /\ j = Min(after)
  <2>1. j = e /\ e <= n
      BY <1>6 DEF Follows
  <2>2. after # {}
      BY <1>3, <2>1
  <2>3. QED BY <1>4, <2>1, <2>2
<1>7. QED BY <1>5, <1>6 DEF FirstRight

-----------------------------------------------------------------------------
\* The pairs a joined symbol makes with its neighbours.
NewIn(ms, w, J, l, r) ==
    LET before == {i \in 1 .. l - 1 : J[i] > 0}
        after == {i \in r + 1 .. Len(w) : J[i] > 0}
    IN  (IF before = {} THEN {} ELSE BigramIn(ms, w, J, Max(before), l))
            \cup (IF after = {} THEN {} ELSE BigramIn(ms, w, J, l, Min(after)))

\* Neighbours after a join: the new pairs, or neighbours that were there.
NewRight(ms, w, sy, J, l, r) ==
    /\ \A b \in NewIn(ms, w, J, l, r) : HeapPair(ms, w, b)
    /\ \A i, j \in 1 .. Len(w) : Follows(Len(w), J, i, j) =>
          \/ BigramIn(ms, w, J, i, j) \subseteq NewIn(ms, w, J, l, r)
          \/ /\ i # l /\ Follows(Len(w), sy, i, j)
             /\ BigramIn(ms, w, J, i, j) = BigramIn(ms, w, sy, i, j)

LEMMA NewIs ==
    ASSUME NEW ms, DOMAIN ms \subseteq Nat, NEW U, NEW w \in Seq(U), NEW sy, Tiles(Len(w), sy),
           NEW l, NEW r, Follows(Len(w), sy, l, r)
    PROVE  NewRight(ms, w, sy, JoinedAt(sy, l, r), l, r)
<1> DEFINE n == Len(w)
           J == JoinedAt(sy, l, r)
           before == {i \in 1 .. l - 1 : J[i] > 0}
           after == {i \in r + 1 .. n : J[i] > 0}
<1>1. n \in Nat /\ l \in 1 .. n /\ r \in 1 .. n /\ sy[l] > 0 /\ r = l + sy[l]
    BY DEF Follows
<1>2. l < r /\ sy[l] \in Nat /\ sy[r] \in Nat /\ sy[r] > 0
  <2> HIDE DEF n
  <2>1. Tiles(n, sy) /\ Follows(n, sy, l, r)
      BY DEF n
  <2>2. QED BY <1>1, <2>1, FollowsIs
<1>3. /\ J[l] = sy[l] + sy[r] /\ J[r] = 0
      /\ \A k \in 1 .. n : k \notin {l, r} => J[k] = sy[k]
  <2>1. sy \in [1 .. n -> Nat] /\ l # r
      BY <1>1, <1>2 DEF Tiles
  <2> HIDE DEF n
  <2>2. JoinedRight(n, sy, l, r)
      BY <1>1, <2>1, JoinedIs
  <2>3. QED BY <2>2 DEF JoinedRight
<1>4. Tiles(n, sy) /\ Tiles(n, J)
  <2> HIDE DEF n, J
  <2>1. Tiles(n, sy) /\ Follows(n, sy, l, r)
      BY DEF n
  <2>2. QED BY <1>1, <2>1, TilesJoined DEF J
<1> HIDE DEF J
<1>5. J[l] > 0 /\ r \in l .. l + J[l] - 1
    BY <1>1, <1>2, <1>3
<1>6. LastRight(n, J, l) /\ FirstRight(n, J, l, r)
  <2> HIDE DEF n
  <2>1. QED BY <1>1, <1>4, <1>5, LastBefore, FirstAfter
<1>7. /\ before # {} => Follows(n, J, Max(before), l)
      /\ \A i : Follows(n, J, i, l) => before # {} /\ i = Max(before)
    BY <1>6 DEF LastRight
<1>8. /\ after # {} => Follows(n, J, l, Min(after))
      /\ \A j : Follows(n, J, l, j) => after # {} /\ j = Min(after)
    BY <1>6 DEF FirstRight
<1>9. NewIn(ms, w, J, l, r) = (IF before = {} THEN {} ELSE BigramIn(ms, w, J, Max(before), l))
                                  \cup (IF after = {} THEN {} ELSE BigramIn(ms, w, J, l, Min(after)))
    BY DEF NewIn
<1> HIDE DEF before, after
<1>10. ASSUME NEW i, NEW j, Follows(n, J, i, j)
       PROVE  PushedRight(ms, w, J, i, j)
    BY <1>4, <1>10, PushedIs
<1>11. ASSUME NEW b \in NewIn(ms, w, J, l, r) PROVE HeapPair(ms, w, b)
  <2>1. CASE before # {} /\ b \in BigramIn(ms, w, J, Max(before), l)
      BY <1>7, <1>10, <2>1 DEF PushedRight
  <2>2. CASE after # {} /\ b \in BigramIn(ms, w, J, l, Min(after))
      BY <1>8, <1>10, <2>2 DEF PushedRight
  <2>3. QED BY <1>9, <2>1, <2>2
<1>12. ASSUME NEW i \in 1 .. n, NEW j \in 1 .. n, Follows(n, J, i, j)
       PROVE  \/ BigramIn(ms, w, J, i, j) \subseteq NewIn(ms, w, J, l, r)
              \/ /\ i # l /\ Follows(n, sy, i, j)
                 /\ BigramIn(ms, w, J, i, j) = BigramIn(ms, w, sy, i, j)
  <2>1. CASE i = l
    <3>1. after # {} /\ j = Min(after)
        BY <1>8, <1>12, <2>1
    <3>2. QED BY <1>9, <2>1, <3>1
  <2>2. CASE j = l
    <3>1. before # {} /\ i = Max(before)
        BY <1>7, <1>12, <2>2
    <3>2. QED BY <1>9, <2>2, <3>1
  <2>3. CASE i # l /\ j # l
    <3>1. J[i] > 0 /\ j = i + J[i] /\ J[j] > 0
      <4> HIDE DEF n
      <4>1. J[i] > 0 /\ j = i + J[i]
          BY <1>12 DEF Follows
      <4>2. J[j] > 0
          BY <1>1, <1>4, <1>12, FollowsIs
      <4>3. QED BY <4>1, <4>2
    <3>2. i # r /\ j # r
      <4>1. i = r => J[i] = 0
          BY <1>3
      <4>2. j = r => J[j] = 0
          BY <1>3
      <4> HIDE DEF n
      <4>3. QED BY <3>1, <4>1, <4>2
    <3>3. J[i] = sy[i] /\ J[j] = sy[j]
        BY <1>3, <2>3, <3>2
    <3>4. Follows(n, sy, i, j)
        BY <1>12, <3>1, <3>3 DEF Follows
    <3>5. SymAt(w, J, i) = SymAt(w, sy, i) /\ SymAt(w, J, j) = SymAt(w, sy, j)
        BY <3>3 DEF SymAt
    <3>6. BigramIn(ms, w, J, i, j) = BigramIn(ms, w, sy, i, j)
        BY <3>3, <3>5 DEF BigramIn
    <3>7. QED BY <2>3, <3>4, <3>6
  <2>4. QED BY <2>1, <2>2, <2>3
<1>13. QED BY <1>11, <1>12 DEF NewRight, J, n

LEMMA FreshGoes ==
    ASSUME NEW ms, DOMAIN ms \subseteq Nat, NEW U, NEW w \in Seq(U), NEW sy, Tiles(Len(w), sy),
           NEW hp, HeapOk(ms, w, sy, hp), NEW b \in hp, FreshIn(sy, b)
    PROVE  HeapOk(ms, w, JoinedAt(sy, b.li, b.ri),
                  (hp \ {b}) \cup NewIn(ms, w, JoinedAt(sy, b.li, b.ri), b.li, b.ri))
<1> DEFINE l == b.li
           r == b.ri
           J == JoinedAt(sy, l, r)
           new == NewIn(ms, w, J, l, r)
<1>1. HeapPair(ms, w, b)
    BY DEF HeapOk
<1>2. Follows(Len(w), sy, l, r)
    BY <1>1, FreshIs DEF FreshRight
<1> HIDE DEF l, r
<1>3. NewRight(ms, w, sy, J, l, r)
    BY <1>2, NewIs
<1> HIDE DEF J
<1>4. ASSUME NEW a \in (hp \ {b}) \cup new PROVE HeapPair(ms, w, a)
    BY <1>3, <1>4 DEF HeapOk, NewRight
<1>5. ASSUME NEW i \in 1 .. Len(w), NEW j \in 1 .. Len(w), Follows(Len(w), J, i, j)
      PROVE  BigramIn(ms, w, J, i, j) \subseteq (hp \ {b}) \cup new
  <2>1. CASE BigramIn(ms, w, J, i, j) \subseteq new
      BY <2>1
  <2>2. CASE i # l /\ Follows(Len(w), sy, i, j) /\ BigramIn(ms, w, J, i, j) = BigramIn(ms, w, sy, i, j)
    <3>1. BigramIn(ms, w, sy, i, j) \subseteq hp
        BY <2>2 DEF HeapOk
    <3>2. PushedRight(ms, w, sy, i, j)
        BY <2>2, PushedIs
    <3>3. b \notin BigramIn(ms, w, sy, i, j)
        BY <2>2, <3>2 DEF PushedRight, l
    <3>4. QED BY <2>2, <3>1, <3>3
  <2>3. QED BY <1>3, <1>5, <2>1, <2>2 DEF NewRight
<1>6. HeapOk(ms, w, J, (hp \ {b}) \cup new)
  <2> HIDE DEF new
  <2>1. QED BY <1>4, <1>5 DEF HeapOk
<1>7. QED BY <1>6 DEF J, l, r

-----------------------------------------------------------------------------
(***************************************************************************)
(* The pairs of the texts and the heap.                                    *)
(***************************************************************************)
PairInHeap(ms, w, sy, c, hp, q) ==
    \E l, r \in 1 .. Len(w) :
       /\ Follows(Len(w), sy, l, r) /\ c[l] = q[2]
       /\ \E b \in hp : b.li = l /\ b.rank = q[1]

LEMMA PairsInHeap ==
    ASSUME NEW ms, DOMAIN ms \subseteq Nat, NEW U, NEW w \in Seq(U), NEW sy, Tiles(Len(w), sy),
           NEW hp, HeapOk(ms, w, sy, hp), NEW c, Places(SsOf(w, sy), c),
           NEW q \in PairsIn(ms, SymTextsOf(w, sy))
    PROVE  PairInHeap(ms, w, sy, c, hp, q)
<1> DEFINE ps == SymTextsOf(w, sy)
           T == Seq(U)
<1>1. ps \in Seq(T)
  <2>1. SsOf(w, sy) \in Seq(Seq(T))
      BY SsIs DEF SsRight
  <2> HIDE DEF T
  <2>2. QED BY <2>1, FlattenHas DEF SymTextsOf
<1> HIDE DEF ps, T
<1>2. /\ q = <<q[1], q[2]>> /\ q[2] \in 1 .. Len(ps) - 1
      /\ RankOf(ms, ps[q[2]], ps[q[2] + 1]) # {} /\ q[1] = Min(RankOf(ms, ps[q[2]], ps[q[2] + 1]))
  <2>1. q \in PairsIn(ms, ps)
      BY DEF ps
  <2>2. QED BY <1>1, <2>1, PairIs
<1>3. PairOf(w, sy, c, q[2])
    BY <1>2, PairsAreSymbols DEF ps
<1>4. PICK l \in 1 .. Len(w), r \in 1 .. Len(w) : Follows(Len(w), sy, l, r) /\ c[l] = q[2]
    BY <1>3 DEF PairOf
<1>5. PairAt(w, sy, c, l, r)
    BY <1>4, SymbolsArePairs
<1>6. ps[q[2]] = SymAt(w, sy, l) /\ ps[q[2] + 1] = SymAt(w, sy, r)
    BY <1>4, <1>5 DEF PairAt, ps
<1>7. BigramIn(ms, w, sy, l, r) \subseteq hp
    BY <1>4 DEF HeapOk
<1> DEFINE R == RankOf(ms, SymAt(w, sy, l), SymAt(w, sy, r))
           b == [rank |-> Min(R), li |-> l, ri |-> r, ln |-> sy[l], rn |-> sy[r]]
<1>8. R # {} /\ q[1] = Min(R)
    BY <1>2, <1>6
<1>9. b \in hp
    BY <1>7, <1>8 DEF BigramIn
<1>10. b.li = l /\ b.rank = q[1]
  <2> HIDE DEF R
  <2>1. QED BY <1>8
<1> HIDE DEF b, R
<1>11. QED BY <1>4, <1>9, <1>10 DEF PairInHeap

\* With no pair in the heap there is none to merge.
LEMMA NoneLeft ==
    ASSUME NEW ms, DOMAIN ms \subseteq Nat, NEW U, NEW w \in Seq(U), NEW sy, Tiles(Len(w), sy),
           HeapOk(ms, w, sy, {})
    PROVE  PairsIn(ms, SymTextsOf(w, sy)) = {}
<1> SUFFICES ASSUME NEW q \in PairsIn(ms, SymTextsOf(w, sy)) PROVE FALSE
    OBVIOUS
<1>1. PICK c : Places(SsOf(w, sy), c)
    BY PlacesThere
<1>2. PairInHeap(ms, w, sy, c, {}, q)
    BY <1>1, PairsInHeap
<1>3. QED BY <1>2 DEF PairInHeap

\* The least fresh pair of the heap is the one merging takes.
LeastOf(hp, b) == b \in hp /\ \A a \in hp : b.rank < a.rank \/ (b.rank = a.rank /\ b.li <= a.li)

TakesPair(ms, w, sy, l, r) ==
    /\ PairsIn(ms, SymTextsOf(w, sy)) # {}
    /\ OnceIn(ms, SymTextsOf(w, sy)) = SymTextsOf(w, JoinedAt(sy, l, r))

LEMMA LeastIsTaken ==
    ASSUME NEW ms, DOMAIN ms \subseteq Nat, NEW U, NEW w \in Seq(U), NEW sy, Tiles(Len(w), sy),
           NEW hp, HeapOk(ms, w, sy, hp), NEW b, LeastOf(hp, b), FreshIn(sy, b)
    PROVE  TakesPair(ms, w, sy, b.li, b.ri)
<1> DEFINE ps == SymTextsOf(w, sy)
           ss == SsOf(w, sy)
           T == Seq(U)
           l == b.li
           r == b.ri
           n == Len(w)
<1>1. HeapPair(ms, w, b) /\ b \in hp
    BY DEF HeapOk, LeastOf
<1>2. Follows(n, sy, l, r) /\ BigramIn(ms, w, sy, l, r) = {b}
  <2>1. FreshRight(ms, w, sy, b)
      BY <1>1, FreshIs
  <2>2. QED BY <2>1 DEF FreshRight
<1>3. n \in Nat /\ l \in 1 .. n /\ r \in 1 .. n
    BY <1>2 DEF Follows
<1>4. ss \in Seq(Seq(T)) /\ Len(ss) = n /\ Sparse(ss)
    BY SsIs DEF SsRight
<1>5. PICK c : Places(ss, c)
    BY PlacesThere
<1> HIDE DEF l, r, ss, ps, n
<1>6. PairAt(w, sy, c, l, r)
    BY <1>2, <1>5, SymbolsArePairs DEF ss, n
<1>7. c[l] \in 1 .. Len(ps) - 1 /\ ps[c[l]] = SymAt(w, sy, l) /\ ps[c[l] + 1] = SymAt(w, sy, r)
    BY <1>6 DEF PairAt, ps
<1>8. RankOf(ms, SymAt(w, sy, l), SymAt(w, sy, r)) # {} /\ b.rank = Min(RankOf(ms, SymAt(w, sy, l), SymAt(w, sy, r)))
  <2> DEFINE R == RankOf(ms, SymAt(w, sy, l), SymAt(w, sy, r))
             d == [rank |-> Min(R), li |-> l, ri |-> r, ln |-> sy[l], rn |-> sy[r]]
  <2>1. R # {} /\ b = d
      BY <1>2 DEF BigramIn
  <2>2. d.rank = Min(R)
      OBVIOUS
  <2> HIDE DEF R, d
  <2>3. QED BY <2>1, <2>2 DEF R
<1>9. <<b.rank, c[l]>> \in PairsIn(ms, ps)
    BY <1>7, <1>8 DEF PairsIn
<1>10. Rises(ss, c)
  <2> HIDE DEF T
  <2>1. QED BY <1>4, <1>5, PlacesRise
<1>11. ASSUME NEW q \in PairsIn(ms, ps)
       PROVE  b.rank < q[1] \/ (b.rank = q[1] /\ c[l] <= q[2])
  <2>1. PairInHeap(ms, w, sy, c, hp, q)
      BY <1>5, PairsInHeap DEF ps, ss
  <2>2. PICK i \in 1 .. n, j \in 1 .. n :
             Follows(n, sy, i, j) /\ c[i] = q[2] /\ \E a \in hp : a.li = i /\ a.rank = q[1]
      BY <2>1 DEF PairInHeap, n
  <2>3. b.rank < q[1] \/ (b.rank = q[1] /\ l <= i)
      BY <2>2 DEF LeastOf, l
  <2>4. l <= i => c[l] <= c[i]
    <3> SUFFICES ASSUME l <= i PROVE c[l] <= c[i]
        OBVIOUS
    <3>1. i \in 0 .. Len(ss) /\ l \in 0 .. i
        BY <1>3, <1>4
    <3>2. QED BY <1>10, <3>1 DEF Rises
  <2>5. QED BY <2>2, <2>3, <2>4
<1>12. LeastPair(ms, ps, b.rank, c[l])
    BY <1>9, <1>11 DEF LeastPair
<1>13. ps \in Seq(T)
  <2> HIDE DEF T
  <2>1. QED BY <1>4, FlattenHas DEF ps, ss, SymTextsOf
<1>14. OnceIn(ms, ps) = MergedAt(ps, c[l], ps[c[l]] \o ps[c[l] + 1])
  <2> HIDE DEF T
  <2>1. QED BY <1>12, <1>13, LeastIsMerged
<1>15. SymTextsOf(w, JoinedAt(sy, l, r)) = MergedAt(ps, c[l], SymAt(w, sy, l) \o SymAt(w, sy, r))
    BY <1>2, <1>5, TextsJoined DEF ps, ss, n
<1>16. OnceIn(ms, ps) = SymTextsOf(w, JoinedAt(sy, l, r))
    BY <1>7, <1>14, <1>15
<1>17. QED BY <1>9, <1>16 DEF TakesPair, ps, l, r

\* The joined symbols are made of what the symbols were made of.
LEMMA JoinedSpell ==
    ASSUME NEW U, NEW w \in Seq(U), NEW sy, Tiles(Len(w), sy), NEW l, NEW r, Follows(Len(w), sy, l, r)
    PROVE  FlattenSeq(SymTextsOf(w, JoinedAt(sy, l, r))) = FlattenSeq(SymTextsOf(w, sy))
<1> DEFINE ps == SymTextsOf(w, sy)
           T == Seq(U)
<1>1. PICK c : Places(SsOf(w, sy), c)
    BY PlacesThere
<1>2. PairAt(w, sy, c, l, r)
    BY <1>1, SymbolsArePairs
<1>3. c[l] \in 1 .. Len(ps) - 1 /\ ps[c[l]] = SymAt(w, sy, l) /\ ps[c[l] + 1] = SymAt(w, sy, r)
    BY <1>2 DEF PairAt
<1>4. ps \in Seq(Seq(U))
  <2>1. SsOf(w, sy) \in Seq(Seq(T))
      BY SsIs DEF SsRight
  <2>2. ps \in Seq(T)
    <3> HIDE DEF T
    <3>1. QED BY <2>1, FlattenHas DEF SymTextsOf
  <2>3. QED BY <2>2
<1>5. SymTextsOf(w, JoinedAt(sy, l, r)) = MergedAt(ps, c[l], SymAt(w, sy, l) \o SymAt(w, sy, r))
    BY <1>1, TextsJoined
<1> DEFINE p == c[l]
<1> HIDE DEF ps, p, T
<1>6. FlattenSeq(MergedAt(ps, p, ps[p] \o ps[p + 1])) = FlattenSeq(ps)
  <2>1. p \in 1 .. Len(ps) - 1
      BY <1>3 DEF p
  <2>2. QED BY <1>4, <2>1, FlattenMerged
<1>7. FlattenSeq(MergedAt(ps, c[l], SymAt(w, sy, l) \o SymAt(w, sy, r))) = FlattenSeq(ps)
    BY <1>3, <1>6 DEF p
<1>8. QED BY <1>5, <1>7 DEF ps

-----------------------------------------------------------------------------
(***************************************************************************)
(* A word as its merging begins: each unit is a symbol.                    *)
(***************************************************************************)
Ones(w) == [i \in DOMAIN w |-> 1]
Singles(w) == [i \in DOMAIN w |-> <<w[i]>>]

BegunRight(ms, w, hp) ==
    /\ Tiles(Len(w), Ones(w)) /\ HeapOk(ms, w, Ones(w), hp)
    /\ SymTextsOf(w, Ones(w)) = Singles(w) /\ FlattenSeq(Singles(w)) = w
    /\ \A i \in 1 .. Len(w) : SymAt(w, Ones(w), i) = << w[i] >>

LEMMA BegunIs ==
    ASSUME NEW ms, DOMAIN ms \subseteq Nat, NEW U, NEW w \in Seq(U),
           NEW hp, hp = UNION {BigramIn(ms, w, Ones(w), i - 1, i) : i \in 2 .. Len(w)}
    PROVE  BegunRight(ms, w, hp)
<1> DEFINE n == Len(w)
           sy == Ones(w)
           f == [i \in 1 .. n |-> <<w[i]>>]
<1>1. n \in Nat /\ DOMAIN w = 1 .. n /\ \A i \in 1 .. n : w[i] \in U
    OBVIOUS
<1>2. sy \in [1 .. n -> Nat] /\ \A i \in 1 .. n : sy[i] = 1
    BY <1>1 DEF Ones
<1>3. DOMAIN sy = 1 .. n
    BY <1>2
<1>4. f = Singles(w)
    BY <1>1 DEF Singles
<1> HIDE DEF sy, n
<1>5. Tiles(n, sy)
  <2>1. ASSUME NEW i \in 1 .. n
        PROVE  /\ i + sy[i] - 1 <= n
               /\ \A k \in i + 1 .. i + sy[i] - 1 : sy[k] = 0
               /\ i + sy[i] <= n => sy[i + sy[i]] > 0
    <3>1. sy[i] = 1
        BY <1>2
    <3>2. i + sy[i] - 1 = i /\ i <= n /\ i + 1 .. i = {}
        BY <1>1, <3>1
    <3>3. i + sy[i] <= n => i + sy[i] \in 1 .. n
        BY <1>1, <3>1
    <3>4. i + sy[i] <= n => sy[i + sy[i]] = 1
        BY <1>2, <3>3
    <3>5. QED BY <3>2, <3>4
  <2>2. QED BY <1>2, <2>1 DEF Tiles
<1>6. ASSUME NEW l, NEW r, Follows(n, sy, l, r)
      PROVE  r \in 2 .. n /\ l = r - 1
    BY <1>1, <1>2, <1>6 DEF Follows
<1>7. ASSUME NEW r \in 2 .. n PROVE Follows(n, sy, r - 1, r)
  <2>1. r - 1 \in 1 .. n /\ r \in 1 .. n
      BY <1>1
  <2>2. sy[r - 1] = 1
      BY <1>2, <2>1
  <2>3. r = r - 1 + sy[r - 1] /\ sy[r - 1] > 0
      BY <2>2
  <2>4. QED BY <2>1, <2>3 DEF Follows
<1>8. HeapOk(ms, w, sy, hp)
  <2>1. hp = UNION {BigramIn(ms, w, sy, i - 1, i) : i \in 2 .. n}
      BY DEF sy, n
  <2>2. ASSUME NEW b \in hp PROVE HeapPair(ms, w, b)
    <3>1. PICK i \in 2 .. n : b \in BigramIn(ms, w, sy, i - 1, i)
        BY <2>1, <2>2
    <3>2. PushedRight(ms, w, sy, i - 1, i)
      <4>1. Tiles(Len(w), sy) /\ Follows(Len(w), sy, i - 1, i)
          BY <1>5, <1>7 DEF n
      <4>2. QED BY <4>1, PushedIs
    <3>3. QED BY <3>1, <3>2 DEF PushedRight
  <2>3. ASSUME NEW l \in 1 .. n, NEW r \in 1 .. n, Follows(n, sy, l, r)
        PROVE  BigramIn(ms, w, sy, l, r) \subseteq hp
      BY <1>6, <2>1, <2>3
  <2>4. QED BY <2>2, <2>3 DEF HeapOk, n
<1>9. ASSUME NEW i \in 1 .. n
      PROVE  SymAt(w, sy, i) = <<w[i]>>
  <2>1. sy[i] = 1
      BY <1>2
  <2>2. i + sy[i] - 1 = i
      BY <1>1, <2>1
  <2>3. SubSeq(w, i, i) = <<w[i]>>
    <3>1. i \in Int /\ \A k \in i .. i : w[k] \in U
        BY <1>1
    <3> DEFINE x == SubSeq(w, i, i)
    <3>2. x \in Seq(U) /\ Len(x) = (IF i <= i THEN i - i + 1 ELSE 0) /\ \A k \in 1 .. i - i + 1 : x[k] = w[i + k - 1]
        BY <3>1, SubSeqProperties
    <3>3. i - i + 1 = 1 /\ i + 1 - 1 = i
        BY <3>1
    <3> HIDE DEF x
    <3>4. Len(x) = 1 /\ x[1] = w[i]
        BY <3>2, <3>3
    <3>5. x = <<w[i]>>
        BY <1>1, <3>2, <3>4
    <3>6. QED BY <3>5 DEF x
  <2>4. QED BY <2>2, <2>3 DEF SymAt
<1>10. SsOf(w, sy) = [i \in 1 .. n |-> << f[i] >>]
  <2>1. \A i \in 1 .. n : (IF sy[i] = 0 THEN <<>> ELSE << SymAt(w, sy, i) >>) = << f[i] >>
    <3> SUFFICES ASSUME NEW i \in 1 .. n PROVE (IF sy[i] = 0 THEN <<>> ELSE << SymAt(w, sy, i) >>) = << f[i] >>
        OBVIOUS
    <3>1. sy[i] # 0 /\ SymAt(w, sy, i) = <<w[i]>> /\ f[i] = <<w[i]>>
        BY <1>2, <1>9
    <3> HIDE DEF f
    <3>2. QED BY <3>1
  <2>2. QED BY <1>3, <2>1 DEF SsOf
<1>11. \A i \in 1 .. n : f[i] \in Seq(U) /\ f[i] = <<w[i]>>
    BY <1>1
<1>12. f = [i \in 1 .. n |-> f[i]]
    OBVIOUS
<1> DEFINE T == Seq(U)
<1>13. SymTextsOf(w, sy) = f
  <2>1. \A i \in 1 .. n : f[i] \in T
      BY <1>11
  <2> HIDE DEF T, f
  <2>2. OnesFlat(n, f)
      BY <1>1, <2>1, FlattenOnes
  <2>3. QED BY <1>10, <1>12, <2>2 DEF SymTextsOf, OnesFlat
<1>14. FlattenSeq(f) = w
  <2>1. OnesFlat(n, w)
      BY <1>1, FlattenOnes
  <2>2. w = [i \in 1 .. n |-> w[i]]
      BY <1>1
  <2>3. QED BY <2>1, <2>2 DEF OnesFlat
<1>15. QED BY <1>4, <1>5, <1>8, <1>9, <1>13, <1>14 DEF BegunRight, sy, n

-----------------------------------------------------------------------------
(***************************************************************************)
(* A loop of n steps: what it computes exists.                             *)
(***************************************************************************)
LoopIn(n, a, g, u) == u = [k \in 0 .. n |-> IF k = 0 THEN a ELSE g[k][u[k - 1]]]
LoopRight(S, n, a, g, u) ==
    u[0] = a /\ (\A k \in 0 .. n : u[k] \in S) /\ \A k \in 1 .. n : u[k] = g[k][u[k - 1]]

LEMMA LoopIsThere ==
    ASSUME NEW n \in Nat, NEW a, NEW g
    PROVE  \E u : LoopIn(n, a, g, u)
<1> DEFINE P == {j \in 0 .. n : \E u : LoopIn(j, a, g, u)}
<1>1. 0 \in P
  <2> DEFINE u == [k \in 0 .. 0 |-> a]
  <2>1. LoopIn(0, a, g, u)
    <3>1. \A k \in 0 .. 0 : k = 0
        OBVIOUS
    <3>2. u = [k \in 0 .. 0 |-> IF k = 0 THEN a ELSE g[k][u[k - 1]]]
        BY <3>1
    <3>3. QED BY <3>2 DEF LoopIn
  <2>2. QED BY <2>1
<1>2. ASSUME NEW j \in 1 .. n, j - 1 \in P
      PROVE  j \in P
  <2>1. PICK u : LoopIn(j - 1, a, g, u)
      BY <1>2
  <2>2. u = [k \in 0 .. j - 1 |-> IF k = 0 THEN a ELSE g[k][u[k - 1]]]
      BY <2>1 DEF LoopIn
  <2> DEFINE v == [k \in 0 .. j |-> IF k = j THEN g[j][u[j - 1]] ELSE u[k]]
  <2>3. \A k \in 0 .. j : (k = j \/ k \in 0 .. j - 1) /\ (k # 0 => k - 1 \in 0 .. j /\ k - 1 # j)
      OBVIOUS
  <2>4. \A k \in 0 .. j : v[k] = IF k = j THEN g[j][u[j - 1]] ELSE u[k]
      OBVIOUS
  <2> HIDE DEF P
  <2>5. ASSUME NEW k \in 0 .. j
        PROVE  v[k] = IF k = 0 THEN a ELSE g[k][v[k - 1]]
    <3>1. CASE k = j
      <4>1. k # 0 /\ k - 1 \in 0 .. j /\ k - 1 # j
          BY <3>1
      <4>2. v[k - 1] = u[j - 1]
          BY <2>4, <3>1, <4>1
      <4> HIDE DEF v
      <4>3. QED BY <2>4, <3>1, <4>1, <4>2
    <3>2. CASE k # j
      <4>1. k \in 0 .. j - 1 /\ v[k] = u[k]
          BY <2>3, <2>4, <3>2
      <4>2. u[k] = IF k = 0 THEN a ELSE g[k][u[k - 1]]
          BY <2>2, <4>1
      <4>3. k # 0 => v[k - 1] = u[k - 1]
          BY <2>3, <2>4
      <4> HIDE DEF v
      <4>4. QED BY <4>1, <4>2, <4>3
    <3>3. QED BY <3>1, <3>2
  <2>6. v = [k \in 0 .. j |-> IF k = 0 THEN a ELSE g[k][v[k - 1]]]
      BY <2>5
  <2>7. LoopIn(j, a, g, v)
      BY <2>6 DEF LoopIn
  <2>8. j \in 0 .. n
      OBVIOUS
  <2>9. QED BY <2>7, <2>8 DEF P
<1> HIDE DEF P
<1>3. n \in P
  <2>1. 0 .. n \subseteq P
      BY <1>1, <1>2, Upwards
  <2>2. QED BY <2>1
<1>4. QED BY <1>3 DEF P

LEMMA LoopIs ==
    ASSUME NEW S, NEW n \in Nat, NEW a \in S, NEW g, \A k \in 1 .. n : g[k] \in [S -> S],
           NEW u, LoopIn(n, a, g, u)
    PROVE  LoopRight(S, n, a, g, u)
<1>1. u = [k \in 0 .. n |-> IF k = 0 THEN a ELSE g[k][u[k - 1]]]
    BY DEF LoopIn
<1>2. u[0] = a
    BY <1>1
<1>3. ASSUME NEW k \in 1 .. n PROVE u[k] = g[k][u[k - 1]]
  <2>1. k \in 0 .. n /\ k # 0
      OBVIOUS
  <2>2. QED BY <1>1, <2>1
<1> DEFINE P == {k \in 0 .. n : u[k] \in S}
<1>4. 0 .. n \subseteq P
  <2>1. 0 \in P
      BY <1>2
  <2>2. ASSUME NEW k \in 1 .. n, k - 1 \in P PROVE k \in P
    <3>1. u[k - 1] \in S /\ g[k] \in [S -> S] /\ k \in 0 .. n
        BY <2>2
    <3>2. QED BY <1>3, <3>1
  <2> HIDE DEF P
  <2>3. QED BY <2>1, <2>2, Upwards
<1>5. QED BY <1>2, <1>3, <1>4 DEF LoopRight

-----------------------------------------------------------------------------
(***************************************************************************)
(* The bytes of a text.                                                    *)
(***************************************************************************)
Plain == Char \ {"_"}

LEMMA SeqWider ==
    ASSUME NEW S, NEW T, S \subseteq T, NEW s \in Seq(S)
    PROVE  s \in Seq(T)
OBVIOUS

LEMMA CharsHaveBytes == Spells(Utf8, Char, Byte)
BY TokenizerAssumption DEF TokenizerAssumption, Spells

LEMMA BytesAre ==
    ASSUME NEW t \in Seq(Char)
    PROVE  Bytes(t) = FlatOf(Utf8, t) /\ Bytes(t) \in Seq(Byte)
<1>1. Bytes(t) = FlatOf(Utf8, t)
    BY DEF Bytes, FlatOf
<1>2. FlatOf(Utf8, t) \in Seq(Byte)
    BY CharsHaveBytes, FlatOfIn
<1>3. QED BY <1>1, <1>2

BytesSplit(s, t) == s \o t \in Seq(Char) /\ Bytes(s \o t) = Bytes(s) \o Bytes(t)

LEMMA BytesOfConcat ==
    ASSUME NEW s \in Seq(Char), NEW t \in Seq(Char)
    PROVE  BytesSplit(s, t)
<1>1. s \o t \in Seq(Char) /\ Splits(Utf8, s, t)
    BY CharsHaveBytes, FlatOfConcat
<1>2. Bytes(s \o t) = FlatOf(Utf8, s \o t) /\ Bytes(s) = FlatOf(Utf8, s) /\ Bytes(t) = FlatOf(Utf8, t)
    BY DEF Bytes, FlatOf
<1>3. QED BY <1>1, <1>2 DEF Splits, BytesSplit

\* A text in three parts, the middle one is s.
FoundAt(t, s, i) ==
    LET x == SubSeq(t, 1, i - 1)
        y == SubSeq(t, i + Len(s), Len(t))
    IN  t = (x \o s) \o y

LEMMA FoundIs ==
    ASSUME NEW S, NEW t \in Seq(S), NEW s \in Seq(Char), s # <<>>,
           NEW i \in 1 .. Len(t) - Len(s) + 1, SubSeq(t, i, i + Len(s) - 1) = s
    PROVE  /\ SubSeq(t, 1, i - 1) \in Seq(S) /\ s \in Seq(S) /\ SubSeq(t, i + Len(s), Len(t)) \in Seq(S)
           /\ FoundAt(t, s, i)
<1> DEFINE n == Len(t)
           m == Len(s)
           e == i + m - 1
           x == SubSeq(t, 1, i - 1)
           y == SubSeq(t, i + m, n)
<1>1. n \in Nat /\ m \in Nat /\ m > 0 /\ i \in 1 .. n /\ e \in 1 .. n /\ i <= e
    OBVIOUS
<1>2. \A k \in 1 .. n : t[k] \in S
    OBVIOUS
<1>3. x \in Seq(S) /\ s \in Seq(S) /\ y \in Seq(S)
  <2>1. 1 \in Int /\ \A k \in 1 .. i - 1 : t[k] \in S
      BY <1>1, <1>2
  <2>2. i \in Int /\ e \in Int /\ \A k \in i .. e : t[k] \in S
      BY <1>1, <1>2
  <2>3. i + m \in Int /\ \A k \in i + m .. n : t[k] \in S
      BY <1>1, <1>2
  <2>4. x \in Seq(S)
      BY <1>1, <2>1, SubSeqProperties
  <2>5. SubSeq(t, i, e) \in Seq(S)
      BY <1>1, <2>2, SubSeqProperties
  <2>6. y \in Seq(S)
      BY <1>1, <2>3, SubSeqProperties
  <2>7. QED BY <2>4, <2>5, <2>6
<1>4. x \o SubSeq(t, i, e) = SubSeq(t, 1, e)
  <2>1. 1 \in 1 .. Len(t) + 1 /\ i - 1 \in 1 - 1 .. Len(t) /\ e \in i - 1 .. Len(t) /\ i - 1 + 1 = i
      BY <1>1
  <2> DEFINE j == i - 1
  <2>2. j + 1 = i /\ j \in 1 - 1 .. Len(t) /\ e \in j .. Len(t)
      BY <2>1
  <2> HIDE DEF e, j
  <2>3. SubSeq(t, 1, j) \o SubSeq(t, j + 1, e) = SubSeq(t, 1, e)
      BY <2>1, <2>2, ConcatAdjacentSubSeq
  <2>4. QED BY <2>2, <2>3 DEF j
<1>5. SubSeq(t, 1, e) \o y = t
  <2>1. 1 \in 1 .. Len(t) + 1 /\ e \in 1 - 1 .. Len(t) /\ n \in e .. Len(t) /\ e + 1 = i + m
      BY <1>1
  <2> HIDE DEF e, m
  <2>2. SubSeq(t, 1, e) \o SubSeq(t, e + 1, n) = SubSeq(t, 1, n)
      BY <2>1, ConcatAdjacentSubSeq
  <2>3. SubSeq(t, 1, n) = t
      BY SubSeqFull
  <2>4. QED BY <2>1, <2>2, <2>3
<1>6. SubSeq(t, i, e) = s
    OBVIOUS
<1>7. t = (x \o s) \o y
    BY <1>4, <1>5, <1>6
<1>8. QED BY <1>3, <1>7 DEF FoundAt

-----------------------------------------------------------------------------
(***************************************************************************)
(* The fragments special tokens are cut from: they spell the text.         *)
(***************************************************************************)
Cuts(SS) ==
    {TextFrag(t) : t \in Seq(Plain) \ {<<>>}} \cup {TokFrag(s) : s \in SS \cap Seq(Plain)}
CutBytes(SS) == [f \in Cuts(SS) |-> Bytes(f.of)]

CutStates(SS) == [out : Seq(Cuts(SS)), rest : Seq(Plain)]
SaysIn(SS, c) == FlatOf(CutBytes(SS), c.out) \o Bytes(c.rest)

\* Texts special tokens have.
Written(SS) == SS \subseteq Seq(Char) \ {<<>>}

LEMMA PlainIsChar == Seq(Plain) \subseteq Seq(Char)
<1>1. ASSUME NEW t \in Seq(Plain) PROVE t \in Seq(Char)
  <2>1. Plain \subseteq Char
      BY DEF Plain
  <2>2. QED BY <2>1, SeqWider
<1>2. QED BY <1>1

LEMMA CutsSpell ==
    ASSUME NEW SS
    PROVE  Spells(CutBytes(SS), Cuts(SS), Byte)
<1> SUFFICES ASSUME NEW f \in Cuts(SS) PROVE CutBytes(SS)[f] \in Seq(Byte)
    BY DEF Spells
<1>1. f.of \in Seq(Plain)
  <2>1. CASE \E t \in Seq(Plain) : f = TextFrag(t)
      BY <2>1 DEF TextFrag
  <2>2. CASE \E s \in SS \cap Seq(Plain) : f = TokFrag(s)
      BY <2>2 DEF TokFrag
  <2>3. QED BY <2>1, <2>2 DEF Cuts
<1>2. f.of \in Seq(Char)
    BY <1>1, PlainIsChar
<1>3. Bytes(f.of) \in Seq(Byte)
    BY <1>2, BytesAre
<1>4. QED BY <1>3 DEF CutBytes

OneFrag(SS, f) == << f >> \in Seq(Cuts(SS)) /\ FlatOf(CutBytes(SS), << f >>) = Bytes(f.of)

LEMMA OneFragIs ==
    ASSUME NEW SS, NEW f \in Cuts(SS)
    PROVE  OneFrag(SS, f)
<1>1. CutBytes(SS)[f] \in Seq(Byte)
    BY CutsSpell DEF Spells
<1>2. CutBytes(SS)[f] = Bytes(f.of)
    BY DEF CutBytes
<1>3. FlatOf(CutBytes(SS), << f >>) = CutBytes(SS)[f]
    BY <1>1, FlatOfOne
<1>4. << f >> \in Seq(Cuts(SS))
    OBVIOUS
<1>5. QED BY <1>2, <1>3, <1>4 DEF OneFrag

TextFragsSay(SS, t) ==
    TextFrags(t) \in Seq(Cuts(SS)) /\ FlatOf(CutBytes(SS), TextFrags(t)) = Bytes(t)

LEMMA TextFragsAre ==
    ASSUME NEW SS, NEW t \in Seq(Plain)
    PROVE  TextFragsSay(SS, t)
<1>1. CASE t = <<>>
  <2>1. TextFrags(t) = <<>> /\ <<>> \in Seq(Cuts(SS))
      BY <1>1 DEF TextFrags
  <2>2. FlatOf(CutBytes(SS), <<>>) = <<>>
      BY FlatOfNone
  <2>3. Bytes(<<>>) = <<>>
    <3>1. FlatOf(Utf8, <<>>) = <<>>
        BY FlatOfNone
    <3>2. QED BY <3>1 DEF FlatOf, Bytes
  <2>4. QED BY <1>1, <2>1, <2>2, <2>3 DEF TextFragsSay
<1>2. CASE t # <<>>
  <2>1. TextFrags(t) = << TextFrag(t) >> /\ TextFrag(t).of = t
      BY <1>2 DEF TextFrags, TextFrag
  <2>2. TextFrag(t) \in Cuts(SS)
      BY <1>2 DEF Cuts
  <2>3. OneFrag(SS, TextFrag(t))
      BY <2>2, OneFragIs
  <2>4. QED BY <2>1, <2>3 DEF OneFrag, TextFragsSay
<1>3. QED BY <1>1, <1>2

Parts(a, b, c, d) == ((a \o b) \o c) \o d = a \o ((b \o c) \o d)

LEMMA FourParts ==
    ASSUME NEW S, NEW a \in Seq(S), NEW b \in Seq(S), NEW c \in Seq(S), NEW d \in Seq(S)
    PROVE  Parts(a, b, c, d)
<1> DEFINE bc == b \o c
<1>1. bc \in Seq(S)
    OBVIOUS
<1>2. (a \o b) \o c = a \o bc
  <2>1. Regrouped(a, b, c)
      BY Regrouping
  <2>2. QED BY <2>1 DEF Regrouped
<1> HIDE DEF bc
<1>3. (a \o bc) \o d = a \o (bc \o d)
  <2>1. Regrouped(a, bc, d)
      BY <1>1, Regrouping
  <2>2. QED BY <2>1 DEF Regrouped
<1>4. QED BY <1>2, <1>3 DEF bc, Parts

NextSays(SS, c, s) == NextFind(c, s) \in CutStates(SS) /\ SaysIn(SS, NextFind(c, s)) = SaysIn(SS, c)

LEMMA NextFindSays ==
    ASSUME NEW SS, Written(SS), NEW c \in CutStates(SS), NEW s \in SS
    PROVE  NextSays(SS, c, s)
<1> DEFINE r == c.rest
           o == c.out
           at == Min(Finds(r, s))
           F(x) == FlatOf(CutBytes(SS), x)
<1>1. c = [out |-> o, rest |-> r] /\ o \in Seq(Cuts(SS)) /\ r \in Seq(Plain)
    BY DEF CutStates
<1>2. s \in Seq(Char) /\ s # <<>>
    BY DEF Written
<1>3. CASE Finds(r, s) = {}
    BY <1>3 DEF NextFind, NextSays
<1>4. CASE Finds(r, s) # {}
  <2> DEFINE x == SubSeq(r, 1, at - 1)
             y == SubSeq(r, at + Len(s), Len(r))
             tx == TextFrags(x)
             ts == << TokFrag(s) >>
             d == NextFind(c, s)
  <2>1. at \in 1 .. Len(r) - Len(s) + 1 /\ SubSeq(r, at, at + Len(s) - 1) = s
    <3>1. Finds(r, s) \in SUBSET Nat
        BY <1>1, <1>2 DEF Finds
    <3>2. at \in Finds(r, s)
        BY <1>4, <3>1, MinOfNats
    <3>3. QED BY <3>2 DEF Finds
  <2>2. d = [out |-> (o \o tx) \o ts, rest |-> y]
      BY <1>4 DEF NextFind
  <2>3. x \in Seq(Plain) /\ s \in Seq(Plain) /\ y \in Seq(Plain) /\ FoundAt(r, s, at)
    <3> HIDE DEF at, r
    <3>1. QED BY <1>1, <1>2, <2>1, FoundIs
  <2>4. r = (x \o s) \o y
      BY <2>3 DEF FoundAt
  <2>5. TokFrag(s) \in Cuts(SS) /\ TokFrag(s).of = s
      BY <2>3 DEF Cuts, TokFrag
  <2> HIDE DEF at, r, o, x, y, d, tx, ts
  <2>6. tx \in Seq(Cuts(SS)) /\ F(tx) = Bytes(x)
    <3>1. TextFragsSay(SS, x)
        BY <2>3, TextFragsAre
    <3>2. QED BY <3>1 DEF TextFragsSay, tx
  <2>7. ts \in Seq(Cuts(SS)) /\ F(ts) = Bytes(s)
    <3>1. OneFrag(SS, TokFrag(s))
        BY <2>5, OneFragIs
    <3>2. QED BY <2>5, <3>1 DEF OneFrag, ts
  <2>8. Spells(CutBytes(SS), Cuts(SS), Byte)
      BY CutsSpell
  <2>9. o \o tx \in Seq(Cuts(SS)) /\ F(o \o tx) = F(o) \o F(tx)
    <3>1. o \o tx \in Seq(Cuts(SS)) /\ Splits(CutBytes(SS), o, tx)
        BY <1>1, <2>6, <2>8, FlatOfConcat
    <3>2. QED BY <3>1 DEF Splits
  <2>10. (o \o tx) \o ts \in Seq(Cuts(SS)) /\ F((o \o tx) \o ts) = F(o \o tx) \o F(ts)
    <3> DEFINE z == o \o tx
    <3> HIDE DEF z
    <3>1. z \in Seq(Cuts(SS))
        BY <2>9 DEF z
    <3>2. z \o ts \in Seq(Cuts(SS)) /\ Splits(CutBytes(SS), z, ts)
        BY <3>1, <2>7, <2>8, FlatOfConcat
    <3>3. QED BY <3>2 DEF Splits, z
  <2>11. x \in Seq(Char) /\ y \in Seq(Char)
      BY <2>3, PlainIsChar
  <2>12. x \o s \in Seq(Char) /\ Bytes(x \o s) = Bytes(x) \o Bytes(s)
    <3>1. BytesSplit(x, s)
        BY <1>2, <2>11, BytesOfConcat
    <3>2. QED BY <3>1 DEF BytesSplit
  <2>13. Bytes(r) = (Bytes(x) \o Bytes(s)) \o Bytes(y)
    <3> DEFINE z == x \o s
    <3> HIDE DEF z
    <3>1. BytesSplit(z, y)
        BY <2>11, <2>12, BytesOfConcat DEF z
    <3>2. Bytes(z \o y) = Bytes(z) \o Bytes(y)
        BY <3>1 DEF BytesSplit
    <3>3. QED BY <2>4, <2>12, <3>2 DEF z
  <2>14. F(o) \in Seq(Byte) /\ Bytes(x) \in Seq(Byte) /\ Bytes(s) \in Seq(Byte) /\ Bytes(y) \in Seq(Byte)
    <3>1. F(o) \in Seq(Byte)
        BY <1>1, <2>8, FlatOfIn
    <3>2. QED BY <1>2, <2>11, <3>1, BytesAre
  <2>15. d \in CutStates(SS)
      BY <2>2, <2>3, <2>10 DEF CutStates
  <2>16. SaysIn(SS, d) = ((F(o) \o Bytes(x)) \o Bytes(s)) \o Bytes(y)
    <3>1. d.out = (o \o tx) \o ts /\ d.rest = y
        BY <2>2
    <3>2. QED BY <2>6, <2>7, <2>9, <2>10, <3>1 DEF SaysIn
  <2>17. SaysIn(SS, c) = F(o) \o ((Bytes(x) \o Bytes(s)) \o Bytes(y))
      BY <2>13 DEF SaysIn, o, r
  <2>18. SaysIn(SS, d) = SaysIn(SS, c)
    <3>1. ((F(o) \o Bytes(x)) \o Bytes(s)) \o Bytes(y) = F(o) \o ((Bytes(x) \o Bytes(s)) \o Bytes(y))
      <4>1. Parts(F(o), Bytes(x), Bytes(s), Bytes(y))
        <5> HIDE DEF F
        <5>1. QED BY <2>14, FourParts
      <4>2. QED BY <4>1 DEF Parts
    <3>2. QED BY <2>16, <2>17, <3>1
  <2>19. QED BY <2>15, <2>18 DEF NextSays, d
<1>5. QED BY <1>3, <1>4

-----------------------------------------------------------------------------
(***************************************************************************)
(* All that is found of one special token, in one fragment.                *)
(***************************************************************************)
CutIn(t, s, u) ==
    u = [k \in 0 .. Len(t) |-> IF k = 0 THEN [out |-> <<>>, rest |-> t] ELSE NextFind(u[k - 1], s)]

LEMMA CutIsThere ==
    ASSUME NEW SS, Written(SS), NEW t \in Seq(Plain), NEW s \in SS
    PROVE  \E u : CutIn(t, s, u)
<1> DEFINE S == CutStates(SS)
           n == Len(t)
           a == [out |-> <<>>, rest |-> t]
           g == [k \in 1 .. n |-> [c \in S |-> NextFind(c, s)]]
<1>1. n \in Nat /\ a \in S
    BY DEF CutStates
<1>2. \A k \in 1 .. n : g[k] \in [S -> S]
  <2>1. ASSUME NEW c \in S PROVE NextFind(c, s) \in S
    <3>1. NextSays(SS, c, s)
        BY <2>1, NextFindSays
    <3>2. QED BY <3>1 DEF NextSays
  <2> HIDE DEF S
  <2>2. QED BY <2>1
<1>3. \A k \in 1 .. n : \A c \in S : g[k][c] = NextFind(c, s)
  <2> HIDE DEF S
  <2>1. QED OBVIOUS
<1> HIDE DEF g, a, n, S
<1>4. PICK u : LoopIn(n, a, g, u)
    BY <1>1, LoopIsThere
<1>5. LoopRight(S, n, a, g, u)
    BY <1>1, <1>2, <1>4, LoopIs
<1>6. ASSUME NEW k \in 0 .. n
      PROVE  (IF k = 0 THEN a ELSE g[k][u[k - 1]]) = IF k = 0 THEN a ELSE NextFind(u[k - 1], s)
  <2>1. CASE k = 0
      BY <2>1
  <2>2. CASE k # 0
    <3>1. k \in 1 .. n /\ k - 1 \in 0 .. n
        BY <1>1, <2>2
    <3>2. u[k - 1] \in S
        BY <1>5, <3>1 DEF LoopRight
    <3>3. QED BY <1>3, <2>2, <3>1, <3>2
  <2>3. QED BY <2>1, <2>2
<1>7. u = [k \in 0 .. n |-> IF k = 0 THEN a ELSE NextFind(u[k - 1], s)]
  <2>1. u = [k \in 0 .. n |-> IF k = 0 THEN a ELSE g[k][u[k - 1]]]
      BY <1>4 DEF LoopIn
  <2>2. QED BY <1>6, <2>1
<1>8. CutIn(t, s, u)
    BY <1>7 DEF CutIn, a, n
<1>9. QED BY <1>8

\* What is cut spells the fragment.
CutSays(SS, t, s) == CutOut(t, s) \in Seq(Cuts(SS)) /\ FlatOf(CutBytes(SS), CutOut(t, s)) = Bytes(t)

LEMMA CutOutSays ==
    ASSUME NEW SS, Written(SS), NEW t \in Seq(Plain), NEW s \in SS
    PROVE  CutSays(SS, t, s)
<1> DEFINE n == Len(t)
           a == [out |-> <<>>, rest |-> t]
           u == CHOOSE f : CutIn(t, s, f)
           F(x) == FlatOf(CutBytes(SS), x)
           P == {k \in 0 .. n : u[k] \in CutStates(SS) /\ SaysIn(SS, u[k]) = Bytes(t)}
<1>1. CutIn(t, s, u)
  <2>1. \E f : CutIn(t, s, f)
      BY CutIsThere
  <2>2. QED BY <2>1
<1>2. CutOut(t, s) = u[n].out \o TextFrags(u[n].rest)
    BY DEF CutOut, CutIn
<1> HIDE DEF u
<1>3. u = [k \in 0 .. n |-> IF k = 0 THEN a ELSE NextFind(u[k - 1], s)]
    BY <1>1 DEF CutIn
<1>4. n \in Nat
    OBVIOUS
<1>5. 0 \in P
  <2>1. u[0] = a
      BY <1>3, <1>4
  <2>2. a \in CutStates(SS)
      BY DEF CutStates
  <2>3. SaysIn(SS, a) = FlatOf(CutBytes(SS), <<>>) \o Bytes(t)
      BY DEF SaysIn
  <2>4. Bytes(t) \in Seq(Byte)
    <3>1. t \in Seq(Char)
        BY PlainIsChar
    <3>2. QED BY <3>1, BytesAre
  <2>5. FlatOf(CutBytes(SS), <<>>) = <<>>
      BY FlatOfNone
  <2>6. <<>> \o Bytes(t) = Bytes(t)
      BY <2>4, ConcatEmptySeq
  <2>7. SaysIn(SS, a) = Bytes(t)
      BY <2>3, <2>5, <2>6
  <2> HIDE DEF a
  <2>8. QED BY <1>4, <2>1, <2>2, <2>7
<1>6. ASSUME NEW k \in 1 .. n, k - 1 \in P PROVE k \in P
  <2>1. k \in 0 .. n /\ k # 0
      BY <1>4
  <2>2. u[k] = NextFind(u[k - 1], s)
      BY <1>3, <2>1
  <2>3. u[k - 1] \in CutStates(SS) /\ SaysIn(SS, u[k - 1]) = Bytes(t)
      BY <1>6
  <2>4. NextSays(SS, u[k - 1], s)
    <3> DEFINE c == u[k - 1]
    <3>1. c \in CutStates(SS)
        BY <2>3
    <3> HIDE DEF c, P
    <3>2. NextSays(SS, c, s)
        BY <3>1, NextFindSays
    <3>3. QED BY <3>2 DEF c
  <2>5. QED BY <2>1, <2>2, <2>3, <2>4 DEF NextSays
<1> HIDE DEF P
<1>7. n \in P
  <2>1. 0 .. n \subseteq P
    <3> HIDE DEF n
    <3>1. QED BY <1>4, <1>5, <1>6, Upwards
  <2>2. QED BY <1>4, <2>1
<1> DEFINE c == u[n]
<1>8. c \in CutStates(SS) /\ SaysIn(SS, c) = Bytes(t)
    BY <1>7 DEF P
<1> HIDE DEF c, n
<1>9. c.out \in Seq(Cuts(SS)) /\ c.rest \in Seq(Plain)
    BY <1>8 DEF CutStates
<1> DEFINE o == c.out
           r == TextFrags(c.rest)
<1>10. TextFragsSay(SS, c.rest)
    BY <1>9, TextFragsAre
<1>11. r \in Seq(Cuts(SS)) /\ F(r) = Bytes(c.rest)
    BY <1>10 DEF TextFragsSay
<1>12. o \in Seq(Cuts(SS))
    BY <1>9
<1> HIDE DEF o, r
<1>13. o \o r \in Seq(Cuts(SS)) /\ Splits(CutBytes(SS), o, r)
    BY <1>11, <1>12, CutsSpell, FlatOfConcat
<1>14. F(o \o r) = F(o) \o Bytes(c.rest)
    BY <1>11, <1>13 DEF Splits
<1>15. F(o \o r) = Bytes(t)
    BY <1>8, <1>14 DEF SaysIn, o
<1>16. CutOut(t, s) = o \o r
    BY <1>2 DEF o, r, c
<1>17. QED BY <1>13, <1>15, <1>16 DEF CutSays

-----------------------------------------------------------------------------
(***************************************************************************)
(* In all fragments.                                                       *)
(***************************************************************************)
CutAllSays(SS, fs, s) ==
    /\ CutOutOf(fs, s) \in Seq(Cuts(SS))
    /\ FlatOf(CutBytes(SS), CutOutOf(fs, s)) = FlatOf(CutBytes(SS), fs)

LEMMA CutOutOfSays ==
    ASSUME NEW SS, Written(SS), NEW fs \in Seq(Cuts(SS)), NEW s \in SS
    PROVE  CutAllSays(SS, fs, s)
<1> DEFINE X == Cuts(SS)
           g == CutBytes(SS)
           c == [i \in DOMAIN fs |-> IF fs[i].kind = "text" THEN CutOut(fs[i].of, s) ELSE << fs[i] >>]
           h == [i \in DOMAIN fs |-> g[fs[i]]]
<1>1. Len(fs) \in Nat /\ DOMAIN fs = 1 .. Len(fs) /\ \A i \in 1 .. Len(fs) : fs[i] \in X
    OBVIOUS
<1>2. ASSUME NEW i \in 1 .. Len(fs)
      PROVE  c[i] \in Seq(X) /\ FlatOf(g, c[i]) = h[i]
  <2> DEFINE f == fs[i]
  <2>1. f \in X /\ h[i] = g[f] /\ c[i] = IF f.kind = "text" THEN CutOut(f.of, s) ELSE << f >>
      BY <1>1
  <2> HIDE DEF f, h, c
  <2>2. g[f] = Bytes(f.of)
      BY <2>1 DEF CutBytes
  <2>3. CASE f.kind = "text"
    <3>1. f.of \in Seq(Plain)
      <4>1. CASE \E t \in Seq(Plain) : f = TextFrag(t)
          BY <4>1 DEF TextFrag
      <4>2. CASE \E x \in SS \cap Seq(Plain) : f = TokFrag(x)
          BY <4>2 DEF TokFrag
      <4>3. QED BY <2>1, <4>1, <4>2 DEF Cuts
    <3>2. CutSays(SS, f.of, s)
        BY <3>1, CutOutSays
    <3>3. QED BY <2>1, <2>2, <2>3, <3>2 DEF CutSays
  <2>4. CASE f.kind # "text"
    <3>1. OneFrag(SS, f)
        BY <2>1, OneFragIs
    <3>2. QED BY <2>1, <2>2, <2>4, <3>1 DEF OneFrag
  <2>5. QED BY <2>3, <2>4
<1>3. c \in Seq(Seq(X)) /\ Len(c) = Len(fs)
  <2> DEFINE T == Seq(X)
  <2>1. \A i \in 1 .. Len(fs) : c[i] \in T
      BY <1>2
  <2> HIDE DEF T, X
  <2>2. c \in Seq(T) /\ Len(c) = Len(fs)
      BY <1>1, <2>1
  <2>3. QED BY <2>2 DEF T
<1>4. Spells(g, X, Byte)
    BY CutsSpell
<1>5. h \in Seq(Seq(Byte)) /\ Len(h) = Len(fs)
  <2> DEFINE T == Seq(Byte)
  <2>1. \A i \in 1 .. Len(fs) : h[i] \in T
      BY <1>1, <1>4 DEF Spells
  <2> HIDE DEF T
  <2>2. h \in Seq(T) /\ Len(h) = Len(fs)
      BY <1>1, <2>1
  <2>3. QED BY <2>2 DEF T
<1>6. FlattenSeq(h) = FlatOf(g, fs)
    BY DEF FlatOf
<1>7. FlattenSeq(c) = CutOutOf(fs, s)
    BY DEF CutOutOf
<1>8. FlattenSeq(c) \in Seq(X)
  <2> HIDE DEF c, X
  <2>1. QED BY <1>3, FlattenHas
<1> HIDE DEF c, h, X, g
<1>9. FlatOfAll(g, h, c)
    BY <1>2, <1>3, <1>4, <1>5, FlatOfFlatten
<1>10. QED BY <1>6, <1>7, <1>8, <1>9 DEF CutAllSays, FlatOfAll, X, g

-----------------------------------------------------------------------------
(***************************************************************************)
(* Special tokens by length are special tokens.                            *)
(***************************************************************************)
LEMMA OfLengthHas ==
    ASSUME NEW SS, NEW ss \in Seq(SS), NEW n
    PROVE  OfLength(ss, n) \in Seq(SS)
<1> DEFINE m == [i \in DOMAIN ss |-> IF Len(Bytes(ss[i])) = n THEN << ss[i] >> ELSE <<>>]
           T == Seq(SS)
<1>1. Len(ss) \in Nat /\ DOMAIN ss = 1 .. Len(ss) /\ \A i \in 1 .. Len(ss) : ss[i] \in SS
    OBVIOUS
<1>2. \A i \in 1 .. Len(ss) : m[i] \in T
    BY <1>1
<1>3. m \in Seq(T)
  <2> HIDE DEF T
  <2>1. QED BY <1>1, <1>2
<1>4. FlattenSeq(m) \in Seq(SS)
  <2>1. m \in Seq(Seq(SS))
      BY <1>3
  <2> HIDE DEF m, T
  <2>2. QED BY <2>1, FlattenHas
<1>5. QED BY <1>4 DEF OfLength

LEMMA ByLengthHas ==
    ASSUME NEW SS, NEW ss \in Seq(SS), Written(SS)
    PROVE  ByLength(ss) \in Seq(SS)
<1> DEFINE n == Len(ss)
           f == [i \in 1 .. n |-> Len(Bytes(ss[i]))]
           longest == Max({0} \cup {f[i] : i \in 1 .. n})
           T == Seq(SS)
           m == [k \in 1 .. longest |-> OfLength(ss, longest + 1 - k)]
<1>1. n \in Nat /\ DOMAIN ss = 1 .. n /\ \A i \in 1 .. n : ss[i] \in SS
    OBVIOUS
<1>2. \A i \in 1 .. n : f[i] \in Nat
  <2>1. ASSUME NEW i \in 1 .. n PROVE f[i] \in Nat
    <3>1. ss[i] \in Seq(Char)
        BY <1>1 DEF Written
    <3>2. Bytes(ss[i]) \in Seq(Byte)
        BY <3>1, BytesAre
    <3>3. Len(Bytes(ss[i])) \in Nat
        BY <3>2
    <3>4. QED BY <3>3
  <2>2. QED BY <2>1
<1>3. longest \in Nat
  <2> HIDE DEF f, n
  <2>1. QED BY <1>1, <1>2, MaxWithZero
<1>4. {0} \cup {f[i] : i \in 1 .. n} = {0} \cup {Len(Bytes(ss[i])) : i \in DOMAIN ss}
    BY <1>1
<1>5. ByLength(ss) = FlattenSeq(m)
  <2>1. longest = Max({0} \cup {Len(Bytes(ss[i])) : i \in DOMAIN ss})
      BY <1>4
  <2> DEFINE q == Max({0} \cup {Len(Bytes(ss[i])) : i \in DOMAIN ss})
  <2>2. ByLength(ss) = FlattenSeq([k \in 1 .. q |-> OfLength(ss, q + 1 - k)])
      BY DEF ByLength
  <2>3. q = longest
      BY <2>1
  <2> HIDE DEF q, longest
  <2>4. QED BY <2>2, <2>3
<1> HIDE DEF longest
<1>6. \A k \in 1 .. longest : m[k] \in T
    BY OfLengthHas
<1>7. m \in Seq(T)
  <2> HIDE DEF T
  <2>1. QED BY <1>3, <1>6
<1>8. FlattenSeq(m) \in Seq(SS)
  <2>1. m \in Seq(Seq(SS))
      BY <1>7
  <2> HIDE DEF m, T
  <2>2. QED BY <2>1, FlattenHas
<1>9. QED BY <1>5, <1>8

-----------------------------------------------------------------------------
(***************************************************************************)
(* partition_special: one special token after the other.                   *)
(***************************************************************************)
PartedIn(t, ss, u) == u = [k \in 0 .. Len(ss) |-> IF k = 0 THEN TextFrags(t) ELSE CutOutOf(u[k - 1], ss[k])]

LEMMA PartedIsThere ==
    ASSUME NEW SS, Written(SS), NEW t \in Seq(Plain), NEW ss \in Seq(SS)
    PROVE  \E u : PartedIn(t, ss, u)
<1> DEFINE S == Seq(Cuts(SS))
           n == Len(ss)
           a == TextFrags(t)
           g == [k \in 1 .. n |-> [c \in S |-> CutOutOf(c, ss[k])]]
<1>1. n \in Nat /\ a \in S /\ \A k \in 1 .. n : ss[k] \in SS
  <2>1. TextFragsSay(SS, t)
      BY TextFragsAre
  <2>2. QED BY <2>1 DEF TextFragsSay
<1>2. \A k \in 1 .. n : g[k] \in [S -> S]
  <2>1. ASSUME NEW k \in 1 .. n, NEW c \in S PROVE CutOutOf(c, ss[k]) \in S
    <3>1. CutAllSays(SS, c, ss[k])
      <4> DEFINE s == ss[k]
      <4>1. s \in SS
          BY <1>1
      <4> HIDE DEF s
      <4>2. CutAllSays(SS, c, s)
          BY <4>1, CutOutOfSays
      <4>3. QED BY <4>2 DEF s
    <3>2. QED BY <3>1 DEF CutAllSays
  <2> HIDE DEF S
  <2>2. QED BY <2>1
<1>3. \A k \in 1 .. n : \A c \in S : g[k][c] = CutOutOf(c, ss[k])
  <2> HIDE DEF S
  <2>1. QED OBVIOUS
<1> HIDE DEF g, a, n, S
<1>4. PICK u : LoopIn(n, a, g, u)
    BY <1>1, LoopIsThere
<1>5. LoopRight(S, n, a, g, u)
    BY <1>1, <1>2, <1>4, LoopIs
<1>6. ASSUME NEW k \in 0 .. n
      PROVE  (IF k = 0 THEN a ELSE g[k][u[k - 1]]) = IF k = 0 THEN a ELSE CutOutOf(u[k - 1], ss[k])
  <2>1. CASE k = 0
      BY <2>1
  <2>2. CASE k # 0
    <3>1. k \in 1 .. n /\ k - 1 \in 0 .. n
        BY <1>1, <2>2
    <3>2. u[k - 1] \in S
        BY <1>5, <3>1 DEF LoopRight
    <3>3. QED BY <1>3, <2>2, <3>1, <3>2
  <2>3. QED BY <2>1, <2>2
<1>7. u = [k \in 0 .. n |-> IF k = 0 THEN a ELSE CutOutOf(u[k - 1], ss[k])]
  <2>1. u = [k \in 0 .. n |-> IF k = 0 THEN a ELSE g[k][u[k - 1]]]
      BY <1>4 DEF LoopIn
  <2>2. QED BY <1>6, <2>1
<1>8. PartedIn(t, ss, u)
    BY <1>7 DEF PartedIn, a, n
<1>9. QED BY <1>8

PartitionSays(SS, t, sp) ==
    /\ Partition(t, sp) \in Seq(Cuts(SS))
    /\ FlatOf(CutBytes(SS), Partition(t, sp)) = Bytes(t)

LEMMA PartitionIs ==
    ASSUME NEW SS, Written(SS), NEW t \in Seq(Plain), NEW sp \in Seq(SS)
    PROVE  PartitionSays(SS, t, sp)
<1> DEFINE ss == ByLength(sp)
           n == Len(ss)
           u == CHOOSE f : PartedIn(t, ss, f)
           F(x) == FlatOf(CutBytes(SS), x)
           P == {k \in 0 .. n : u[k] \in Seq(Cuts(SS)) /\ F(u[k]) = Bytes(t)}
<1>0. Partition(t, sp) = u[n]
    BY DEF Partition, PartedIn
<1>1. ss \in Seq(SS)
    BY ByLengthHas
<1> HIDE DEF ss
<1>2. PartedIn(t, ss, u)
  <2>1. \E f : PartedIn(t, ss, f)
      BY <1>1, PartedIsThere
  <2>2. QED BY <2>1
<1> HIDE DEF u
<1>3. u = [k \in 0 .. n |-> IF k = 0 THEN TextFrags(t) ELSE CutOutOf(u[k - 1], ss[k])]
    BY <1>2 DEF PartedIn
<1>4. n \in Nat /\ \A k \in 1 .. n : ss[k] \in SS
    BY <1>1
<1> HIDE DEF n
<1>5. 0 \in P
  <2>1. u[0] = TextFrags(t)
      BY <1>3, <1>4
  <2>2. TextFragsSay(SS, t)
      BY TextFragsAre
  <2>3. QED BY <1>4, <2>1, <2>2 DEF TextFragsSay
<1>6. ASSUME NEW k \in 1 .. n, k - 1 \in P PROVE k \in P
  <2>1. k \in 0 .. n /\ k # 0
      BY <1>4
  <2>2. u[k] = CutOutOf(u[k - 1], ss[k])
      BY <1>3, <2>1
  <2>3. CutAllSays(SS, u[k - 1], ss[k])
    <3> DEFINE c == u[k - 1]
               s == ss[k]
    <3>1. c \in Seq(Cuts(SS)) /\ s \in SS
        BY <1>4, <1>6
    <3> HIDE DEF c, s, P
    <3>2. CutAllSays(SS, c, s)
        BY <3>1, CutOutOfSays
    <3>3. QED BY <3>2 DEF c, s
  <2>4. F(u[k - 1]) = Bytes(t)
      BY <1>6
  <2>5. u[k] \in Seq(Cuts(SS)) /\ F(u[k]) = F(u[k - 1])
      BY <2>2, <2>3 DEF CutAllSays
  <2>6. QED BY <2>1, <2>4, <2>5
<1> HIDE DEF P
<1>7. n \in P
  <2>1. 0 .. n \subseteq P
      BY <1>4, <1>5, <1>6, Upwards
  <2>2. QED BY <1>4, <2>1
<1>8. u[n] \in Seq(Cuts(SS)) /\ F(u[n]) = Bytes(t)
    BY <1>7 DEF P
<1>9. QED BY <1>0, <1>8 DEF PartitionSays

-----------------------------------------------------------------------------
(***************************************************************************)
(* Where a run ends, and where the first word of a text does.              *)
(***************************************************************************)
RunIs(r, i, class) ==
    /\ RunEnd(r, i, class) \in i - 1 .. Len(r)
    /\ \A k \in i .. RunEnd(r, i, class) : r[k] \in class
    /\ i <= Len(r) /\ r[i] \in class => RunEnd(r, i, class) >= i

LEMMA RunEnds ==
    ASSUME NEW S, NEW r \in Seq(S), NEW i \in 1 .. Len(r) + 1, NEW class
    PROVE  RunIs(r, i, class)
<1> DEFINE R == {n \in i .. Len(r) : \A k \in i .. n : r[k] \in class}
           T == {i - 1} \cup R
           e == Max(T)
<1>1. Len(r) \in Nat
    OBVIOUS
<1>2. T \in SUBSET (0 .. Len(r)) /\ T # {} /\ i - 1 \in T
    BY <1>1
<1> HIDE DEF T
<1>3. e \in T /\ \A y \in T : y <= e
    BY <1>1, <1>2, MaxUpTo
<1> HIDE DEF e
<1>4. e = i - 1 \/ e \in R
    BY <1>3 DEF T
<1>5. e \in i - 1 .. Len(r)
    BY <1>1, <1>4
<1>6. \A k \in i .. e : r[k] \in class
  <2>1. CASE e = i - 1
      BY <1>1, <2>1
  <2>2. CASE e \in R
      BY <2>2
  <2>3. QED BY <1>4, <2>1, <2>2
<1>7. i <= Len(r) /\ r[i] \in class => e >= i
  <2>1. ASSUME i <= Len(r), r[i] \in class PROVE e >= i
    <3>1. i \in i .. Len(r) /\ \A k \in i .. i : k = i
        BY <1>1, <2>1
    <3>2. i \in R
        BY <2>1, <3>1
    <3>3. i <= e
        BY <1>3, <3>2 DEF T
    <3>4. QED BY <1>1, <1>5, <3>3
  <2>2. QED BY <2>1
<1>8. e = RunEnd(r, i, class)
    BY DEF e, T, RunEnd
<1>9. QED BY <1>5, <1>6, <1>7, <1>8 DEF RunIs

LEMMA ContractionEnds ==
    ASSUME NEW S, NEW r \in Seq(S), r # <<>>
    PROVE  ContractionEnd(r) \in 0 .. Len(r)
<1> DEFINE q == r[1] # "'"
           A == Lower[r[2]] \in {"s", "t", "m", "d"}
           B == <<Lower[r[2]], Lower[r[3]]>> \in {<<"r", "e">>, <<"v", "e">>, <<"l", "l">>}
           n == Len(r)
<1>1. n \in Nat /\ n >= 1
    OBVIOUS
<1>2. ContractionEnd(r) = IF q \/ n = 1 THEN 0 ELSE IF A THEN 2 ELSE IF n > 2 /\ B THEN 3 ELSE 0
    BY DEF ContractionEnd
<1> HIDE DEF q, A, B, n
<1>3. ContractionEnd(r) \in 0 .. n
    BY <1>1, <1>2
<1>4. QED BY <1>3 DEF n

LEMMA LettersEnds ==
    ASSUME NEW S, NEW r \in Seq(S), r # <<>>
    PROVE  LettersEnd(r) \in 0 .. Len(r)
<1>1. Len(r) \in Nat /\ Len(r) >= 1 /\ 2 \in 1 .. Len(r) + 1
    OBVIOUS
<1>2. RunIs(r, 2, WordLetter)
    BY <1>1, RunEnds
<1>3. RunEnd(r, 2, WordLetter) \in 0 .. Len(r)
    BY <1>1, <1>2 DEF RunIs
<1>4. QED BY <1>1, <1>3 DEF LettersEnd

LEMMA SymbolsEnds ==
    ASSUME NEW S, NEW r \in Seq(S), r # <<>>
    PROVE  SymbolsEnd(r) \in 0 .. Len(r)
<1> DEFINE i == IF r[1] = " " THEN 2 ELSE 1
           e == RunEnd(r, i, Symbol)
           n == Len(r)
<1>0. n \in Nat /\ n >= 1
    OBVIOUS
<1>1. n \in Nat /\ n >= 1 /\ i \in 1 .. n + 1 /\ i \in {1, 2}
  <2>1. i = 1 \/ i = 2
      OBVIOUS
  <2> HIDE DEF i, n
  <2>2. QED BY <1>0, <2>1
<1>2. CASE i <= n /\ r[i] \in Symbol
  <2> HIDE DEF i
  <2>1. RunIs(r, i, Symbol)
      BY <1>1, RunEnds
  <2>2. e \in i .. n
    <3>1. e \in i - 1 .. n /\ e >= i
        BY <1>2, <2>1 DEF RunIs
    <3> HIDE DEF e, n
    <3>2. QED BY <1>1, <3>1
  <2> DEFINE j == e + 1
  <2>3. j \in 1 .. Len(r) + 1
    <3> HIDE DEF e
    <3>1. QED BY <1>1, <2>2
  <2> HIDE DEF j
  <2>4. RunIs(r, j, Newline)
      BY <2>3, RunEnds
  <2>5. RunEnd(r, j, Newline) \in 0 .. Len(r)
    <3>1. RunEnd(r, j, Newline) \in j - 1 .. Len(r)
        BY <2>4 DEF RunIs
    <3>2. QED BY <1>1, <2>3, <3>1
  <2>6. SymbolsEnd(r) = RunEnd(r, j, Newline)
      BY <1>2 DEF SymbolsEnd, i, j
  <2>7. QED BY <2>5, <2>6
<1>3. CASE ~(i <= n /\ r[i] \in Symbol)
  <2>1. SymbolsEnd(r) = IF i <= n /\ r[i] \in Symbol THEN RunEnd(r, RunEnd(r, i, Symbol) + 1, Newline) ELSE 0
      BY DEF SymbolsEnd
  <2> HIDE DEF i, n
  <2>2. SymbolsEnd(r) = 0
      BY <1>3, <2>1
  <2>3. SymbolsEnd(r) \in 0 .. n
      BY <1>1, <2>2
  <2>4. QED BY <2>3 DEF n
<1>4. QED BY <1>2, <1>3

LEMMA SpaceEnds ==
    ASSUME NEW S, NEW r \in Seq(S), r # <<>>
    PROVE  SpaceEnd(r) \in 0 .. Len(r)
<1> DEFINE n == RunEnd(r, 1, Space)
           newlines == {i \in 1 .. n : r[i] \in Newline}
<1>1. Len(r) \in Nat /\ Len(r) >= 1
    OBVIOUS
<1>2. n \in 0 .. Len(r)
  <2>1. RunIs(r, 1, Space)
      BY <1>1, RunEnds
  <2>2. QED BY <1>1, <2>1 DEF RunIs
<1>3. SpaceEnd(r) = CASE newlines # {} -> Max(newlines)
                      [] newlines = {} /\ n > 1 /\ n < Len(r) -> n - 1
                      [] OTHER -> n
    BY DEF SpaceEnd
<1>4. newlines # {} => Max(newlines) \in 0 .. Len(r)
  <2>1. newlines \in SUBSET (0 .. Len(r))
      BY <1>2
  <2> HIDE DEF newlines
  <2>2. newlines # {} => Max(newlines) \in newlines
      BY <1>1, <2>1, MaxUpTo
  <2>3. QED BY <2>1, <2>2
<1> HIDE DEF n, newlines
<1>5. CASE newlines # {}
    BY <1>3, <1>4, <1>5
<1>6. CASE newlines = {} /\ n > 1 /\ n < Len(r)
  <2>1. SpaceEnd(r) = n - 1
      BY <1>3, <1>6
  <2>2. QED BY <1>1, <1>2, <1>6, <2>1
<1>7. CASE newlines = {} /\ ~(n > 1 /\ n < Len(r))
    BY <1>2, <1>3, <1>7
<1>8. QED BY <1>5, <1>6, <1>7

LEMMA WordEnds ==
    ASSUME NEW S, NEW r \in Seq(S), r # <<>>
    PROVE  WordEnd(r) \in 1 .. Len(r)
<1> DEFINE digit == IF r[1] \in Digit THEN 1 ELSE 0
           c == ContractionEnd(r)
           l == LettersEnd(r)
           y == SymbolsEnd(r)
           p == SpaceEnd(r)
           ends == << c, l, digit, y, p, 1 >>
           K == {k \in DOMAIN ends : ends[k] > 0}
<1>1. Len(r) \in Nat /\ Len(r) >= 1
    OBVIOUS
<1>2. digit \in 0 .. Len(r)
    BY <1>1
<1>3. c \in 0 .. Len(r) /\ l \in 0 .. Len(r) /\ y \in 0 .. Len(r) /\ p \in 0 .. Len(r)
    BY ContractionEnds, LettersEnds, SymbolsEnds, SpaceEnds
<1>4. WordEnd(r) = ends[Min(K)]
    BY DEF WordEnd
<1> HIDE DEF c, l, digit, y, p
<1>5. DOMAIN ends = 1 .. 6 /\ \A k \in 1 .. 6 : ends[k] \in 0 .. Len(r)
    BY <1>1, <1>2, <1>3
<1>6. K \in SUBSET Nat /\ 6 \in K
    BY <1>5
<1>7. Min(K) \in K
  <2> HIDE DEF K
  <2>1. K # {}
      BY <1>6
  <2>2. QED BY <1>6, <2>1, MinOfNats
<1> DEFINE k == Min(K)
<1>8. k \in 1 .. 6 /\ ends[k] > 0
    BY <1>5, <1>7
<1> HIDE DEF k, ends
<1>9. ends[k] \in 1 .. Len(r)
    BY <1>1, <1>5, <1>8
<1>10. QED BY <1>4, <1>9 DEF k

-----------------------------------------------------------------------------
(***************************************************************************)
(* What the units of a piece spell.                                        *)
(***************************************************************************)
SpOf(sc) ==
    [u \in UnitsOf(sc) |-> IF sc # "Gemma" THEN C2b(u) ELSE IF u = "_" THEN Utf8[" "] ELSE Utf8[u]]

LEMMA ByteUnits ==
    ASSUME NEW b \in Byte
    PROVE  B2c[b] \in Range(B2c) /\ C2b(B2c[b]) = << b >>
<1>1. DOMAIN B2c = Byte /\ IsInjective(B2c)
    BY TokenizerAssumption DEF TokenizerAssumption
<1>2. B2c[b] \in Range(B2c)
    BY <1>1 DEF Range
<1> DEFINE c == CHOOSE x \in Byte : B2c[x] = B2c[b]
<1>3. c \in Byte /\ B2c[c] = B2c[b]
    OBVIOUS
<1>4. c = b
    BY <1>1, <1>3 DEF IsInjective
<1>5. C2b(B2c[b]) = << c >>
    BY <1>2 DEF C2b
<1>6. QED BY <1>2, <1>4, <1>5

LEMMA UnitHasBytes ==
    ASSUME NEW sc, NEW u \in UnitsOf(sc)
    PROVE  SpOf(sc)[u] \in Seq(Byte)
<1>1. CASE sc = "Gemma"
  <2>1. u \in Char /\ " " \in Char
      BY <1>1, TokenizerAssumption DEF UnitsOf, TokenizerAssumption
  <2>2. Utf8[u] \in Seq(Byte) /\ Utf8[" "] \in Seq(Byte)
      BY <2>1, CharsHaveBytes DEF Spells
  <2>3. SpOf(sc)[u] = IF u = "_" THEN Utf8[" "] ELSE Utf8[u]
      BY <1>1 DEF SpOf
  <2>4. QED BY <2>2, <2>3
<1>2. CASE sc # "Gemma"
  <2>1. SpOf(sc)[u] = C2b(u)
      BY <1>2 DEF SpOf
  <2>2. CASE u \in Range(B2c)
    <3>1. PICK b \in Byte : u = B2c[b]
        BY <2>2, TokenizerAssumption DEF Range, TokenizerAssumption
    <3>2. C2b(u) = << b >>
        BY <3>1, ByteUnits
    <3>3. QED BY <2>1, <3>2
  <2>3. CASE u \notin Range(B2c)
    <3>1. u \in Char
        BY <1>2, <2>3 DEF UnitsOf
    <3>2. C2b(u) = Utf8[u]
        BY <2>3 DEF C2b
    <3>3. QED BY <2>1, <3>1, <3>2, CharsHaveBytes DEF Spells
  <2>4. QED BY <2>2, <2>3
<1>3. QED BY <1>1, <1>2

LEMMA UnitsSpell ==
    ASSUME NEW sc
    PROVE  Spells(SpOf(sc), UnitsOf(sc), Byte)
BY UnitHasBytes DEF Spells

LEMMA SpeltIs ==
    ASSUME NEW p \in Seq(UnitsOf(scheme))
    PROVE  Spelt(p) = FlatOf(SpOf(scheme), p)
<1> DEFINE g == SpOf(scheme)
           x == [i \in DOMAIN p |->
                   IF scheme # "Gemma" THEN C2b(p[i]) ELSE IF p[i] = "_" THEN Utf8[" "] ELSE Utf8[p[i]]]
           y == [i \in DOMAIN p |-> g[p[i]]]
<1>1. \A i \in DOMAIN p : p[i] \in UnitsOf(scheme)
    OBVIOUS
<1>2. \A u \in UnitsOf(scheme) :
         g[u] = IF scheme # "Gemma" THEN C2b(u) ELSE IF u = "_" THEN Utf8[" "] ELSE Utf8[u]
    BY DEF SpOf
<1>3. x = y
  <2> HIDE DEF g
  <2>1. QED BY <1>1, <1>2
<1>4. Spelt(p) = FlattenSeq(x)
    BY DEF Spelt
<1>5. FlatOf(g, p) = FlattenSeq(y)
    BY DEF FlatOf
<1> HIDE DEF x, y
<1>6. QED BY <1>3, <1>4, <1>5

\* Characters that are written as they are.
LEMMA WrittenAsRead ==
    ASSUME NEW sc, NEW s \in Seq(Char),
           \A i \in 1 .. Len(s) : s[i] \in UnitsOf(sc) /\ SpOf(sc)[s[i]] = Utf8[s[i]]
    PROVE  s \in Seq(UnitsOf(sc)) /\ FlatOf(SpOf(sc), s) = Bytes(s)
<1>1. Len(s) \in Nat /\ DOMAIN s = 1 .. Len(s)
    OBVIOUS
<1>2. s \in Seq(UnitsOf(sc))
  <2> DEFINE U == UnitsOf(sc)
  <2>1. \A i \in 1 .. Len(s) : s[i] \in U
      OBVIOUS
  <2> HIDE DEF U
  <2>2. s \in Seq(U)
      BY <1>1, <2>1
  <2>3. QED BY <2>2 DEF U
<1>3. [i \in DOMAIN s |-> SpOf(sc)[s[i]]] = [i \in DOMAIN s |-> Utf8[s[i]]]
    BY <1>1
<1>4. QED BY <1>2, <1>3 DEF FlatOf, Bytes

LEMMA GemmaCharIs ==
    ASSUME NEW c \in Plain
    PROVE  c \in UnitsOf("Gemma") /\ SpOf("Gemma")[c] = Utf8[c]
<1>1. c \in Char /\ c # "_"
    BY DEF Plain
<1>2. c \in UnitsOf("Gemma")
    BY <1>1 DEF UnitsOf
<1>3. QED BY <1>1, <1>2 DEF SpOf

GemmaReads(s) == s \in Seq(UnitsOf("Gemma")) /\ FlatOf(SpOf("Gemma"), s) = Bytes(s)

LEMMA GemmaReadsText ==
    ASSUME NEW s \in Seq(Plain)
    PROVE  GemmaReads(s)
<1>1. s \in Seq(Char)
    BY PlainIsChar
<1>2. \A i \in 1 .. Len(s) : s[i] \in UnitsOf("Gemma") /\ SpOf("Gemma")[s[i]] = Utf8[s[i]]
  <2>1. ASSUME NEW i \in 1 .. Len(s)
        PROVE  s[i] \in UnitsOf("Gemma") /\ SpOf("Gemma")[s[i]] = Utf8[s[i]]
    <3>1. s[i] \in Plain
        OBVIOUS
    <3>2. QED BY <3>1, GemmaCharIs
  <2>2. QED BY <2>1
<1>3. s \in Seq(UnitsOf("Gemma")) /\ FlatOf(SpOf("Gemma"), s) = Bytes(s)
    BY <1>1, <1>2, WrittenAsRead
<1>4. QED BY <1>3 DEF GemmaReads

\* Special tokens are.
SpecialSet == ToSet(Specials) \cup ToSet(UserSpecials)
ReadAs(sc, s) == s \in Seq(UnitsOf(sc)) /\ FlatOf(SpOf(sc), s) = Bytes(s)

LEMMA SpecialsWritten == Written(SpecialSet) /\ Specials \in Seq(SpecialSet) /\ UserSpecials \in Seq(SpecialSet)
<1> DEFINE T == Seq(Char) \ {<<>>}
<1>1. Specials \in Seq(T) /\ UserSpecials \in Seq(T)
    BY TokenizerAssumption DEF TokenizerAssumption
<1> HIDE DEF T
<1>2. ToSet(Specials) \subseteq T /\ ToSet(UserSpecials) \subseteq T
    BY <1>1 DEF ToSet
<1>3. Written(SpecialSet)
    BY <1>2 DEF T, Written, SpecialSet
<1>4. ASSUME NEW s \in Seq(T), ToSet(s) \subseteq SpecialSet
      PROVE  s \in Seq(SpecialSet)
  <2>1. \A i \in 1 .. Len(s) : s[i] \in SpecialSet
      BY <1>4 DEF ToSet
  <2>2. Len(s) \in Nat /\ DOMAIN s = 1 .. Len(s) /\ s = [i \in 1 .. Len(s) |-> s[i]]
      OBVIOUS
  <2> HIDE DEF SpecialSet
  <2>3. QED BY <2>1, <2>2
<1>5. ToSet(Specials) \subseteq SpecialSet /\ ToSet(UserSpecials) \subseteq SpecialSet
    BY DEF SpecialSet
<1>6. QED BY <1>1, <1>3, <1>4, <1>5

LEMMA SpecialsRead ==
    ASSUME NEW sc, NEW s \in SpecialSet, s \in Seq(Plain)
    PROVE  ReadAs(sc, s)
<1>1. s \in Seq(Char)
    BY PlainIsChar
<1>2. \A b \in Byte : B2c[b] \in ToSet(s) => Utf8[B2c[b]] = << b >>
    BY TokenizerAssumption DEF TokenizerAssumption, SpecialSet
<1>3. ASSUME NEW i \in 1 .. Len(s)
      PROVE  s[i] \in UnitsOf(sc) /\ SpOf(sc)[s[i]] = Utf8[s[i]]
  <2> DEFINE c == s[i]
  <2>1. c \in Plain /\ c \in Char /\ c \in ToSet(s)
      BY <1>1 DEF ToSet
  <2> HIDE DEF c
  <2>2. c \in UnitsOf(sc)
      BY <2>1 DEF UnitsOf
  <2>3. CASE sc = "Gemma"
      BY <2>1, <2>3, GemmaCharIs DEF c
  <2>4. CASE sc # "Gemma"
    <3>1. SpOf(sc)[c] = C2b(c)
        BY <2>2, <2>4 DEF SpOf
    <3>2. CASE c \in Range(B2c)
      <4>1. PICK b \in Byte : c = B2c[b]
          BY <3>2, TokenizerAssumption DEF Range, TokenizerAssumption
      <4>2. Utf8[c] = << b >>
          BY <1>2, <2>1, <4>1
      <4>3. C2b(c) = << b >>
          BY <4>1, ByteUnits
      <4>4. QED BY <2>2, <3>1, <4>2, <4>3 DEF c
    <3>3. CASE c \notin Range(B2c)
      <4>1. C2b(c) = Utf8[c]
          BY <3>3 DEF C2b
      <4>2. QED BY <2>2, <3>1, <4>1 DEF c
    <3>4. QED BY <3>2, <3>3
  <2>5. QED BY <2>3, <2>4
<1>4. s \in Seq(UnitsOf(sc)) /\ FlatOf(SpOf(sc), s) = Bytes(s)
    BY <1>1, <1>3, WrittenAsRead
<1>5. QED BY <1>4 DEF ReadAs

-----------------------------------------------------------------------------
(***************************************************************************)
(* The units of a text spell it.                                           *)
(***************************************************************************)
UnitsSay(t) ==
    /\ Units(t) \in Seq(UnitsOf(scheme)) /\ FlatOf(SpOf(scheme), Units(t)) = Bytes(t)
    /\ scheme # "Gemma" => Units(t) \in Seq(Range(B2c))
    /\ scheme = "Gemma" => Len(Units(t)) = Len(t)

LEMMA ByteUnitsSay ==
    ASSUME NEW t \in Seq(Plain), scheme # "Gemma"
    PROVE  UnitsSay(t)
<1> DEFINE bs == Bytes(t)
           us == [i \in DOMAIN bs |-> B2c[bs[i]]]
           g == SpOf(scheme)
           n == Len(bs)
           R == Range(B2c)
           U == UnitsOf(scheme)
<1>1. bs \in Seq(Byte)
  <2>1. t \in Seq(Char)
      BY PlainIsChar
  <2>2. QED BY <2>1, BytesAre
<1>2. Units(t) = us
    BY DEF Units
<1>3. R \subseteq U
    BY DEF UnitsOf
<1> HIDE DEF bs
<1>4. n \in Nat /\ DOMAIN bs = 1 .. n /\ \A i \in 1 .. n : bs[i] \in Byte
    BY <1>1
<1>5. \A b \in Byte : B2c[b] \in R /\ g[B2c[b]] = << b >>
  <2>1. ASSUME NEW b \in Byte PROVE B2c[b] \in R /\ g[B2c[b]] = << b >>
    <3>1. B2c[b] \in R /\ C2b(B2c[b]) = << b >>
        BY ByteUnits
    <3>2. B2c[b] \in U
        BY <1>3, <3>1
    <3>3. QED BY <3>1, <3>2 DEF SpOf
  <2>2. QED BY <2>1
<1> HIDE DEF g, R, U
<1>6. us \in Seq(R) /\ DOMAIN us = 1 .. n /\ \A i \in 1 .. n : us[i] = B2c[bs[i]]
    BY <1>4, <1>5
<1>7. us \in Seq(U)
    BY <1>3, <1>6, SeqWider
<1>8. [i \in DOMAIN us |-> g[us[i]]] = [i \in 1 .. n |-> << bs[i] >>]
    BY <1>4, <1>5, <1>6
<1>9. FlatOf(g, us) = bs
  <2>1. OnesFlat(n, bs)
      BY <1>4, FlattenOnes
  <2>2. bs = [i \in 1 .. n |-> bs[i]]
      BY <1>1, <1>4
  <2>3. FlattenSeq([i \in 1 .. n |-> << bs[i] >>]) = bs
      BY <2>1, <2>2 DEF OnesFlat
  <2>4. QED BY <1>8, <2>3 DEF FlatOf
<1>10. QED BY <1>2, <1>6, <1>7, <1>9 DEF UnitsSay, g, U, R, bs

GemmaUnit(c) == IF c = " " THEN "_" ELSE c

LEMMA GemmaUnitIs ==
    ASSUME NEW c \in Plain
    PROVE  GemmaUnit(c) \in UnitsOf("Gemma") /\ SpOf("Gemma")[GemmaUnit(c)] = Utf8[c]
<1>1. c \in Char /\ c # "_" /\ "_" \in Char
    BY TokenizerAssumption DEF Plain, TokenizerAssumption
<1>2. GemmaUnit(c) \in UnitsOf("Gemma")
    BY <1>1 DEF UnitsOf, GemmaUnit
<1>3. SpOf("Gemma")[GemmaUnit(c)] = IF GemmaUnit(c) = "_" THEN Utf8[" "] ELSE Utf8[GemmaUnit(c)]
    BY <1>2 DEF SpOf
<1>4. QED BY <1>1, <1>2, <1>3 DEF GemmaUnit

LEMMA GemmaUnitsSay ==
    ASSUME NEW t \in Seq(Plain), scheme = "Gemma"
    PROVE  UnitsSay(t)
<1> DEFINE us == [i \in DOMAIN t |-> GemmaUnit(t[i])]
           g == SpOf("Gemma")
           U == UnitsOf("Gemma")
           n == Len(t)
<1>1. n \in Nat /\ DOMAIN t = 1 .. n /\ \A i \in 1 .. n : t[i] \in Plain
    OBVIOUS
<1>2. Units(t) = us
    BY DEF Units, GemmaUnit
<1>3. \A c \in Plain : GemmaUnit(c) \in U /\ g[GemmaUnit(c)] = Utf8[c]
    BY GemmaUnitIs
<1> HIDE DEF g, U
<1>4. DOMAIN us = 1 .. n /\ \A i \in 1 .. n : us[i] = GemmaUnit(t[i]) /\ us[i] \in U
    BY <1>1, <1>3
<1>5. us \in Seq(U) /\ Len(us) = n
  <2>1. us = [i \in 1 .. n |-> GemmaUnit(t[i])]
      BY <1>1
  <2>2. QED BY <1>1, <1>4, <2>1
<1>6. [i \in DOMAIN us |-> g[us[i]]] = [i \in DOMAIN t |-> Utf8[t[i]]]
    BY <1>1, <1>3, <1>4
<1>7. FlatOf(g, us) = Bytes(t)
    BY <1>6 DEF FlatOf, Bytes
<1>8. QED BY <1>2, <1>5, <1>7 DEF UnitsSay, g, U

LEMMA UnitsDo ==
    ASSUME NEW t \in Seq(Plain)
    PROVE  UnitsSay(t)
BY ByteUnitsSay, GemmaUnitsSay

-----------------------------------------------------------------------------
(***************************************************************************)
(* What tokens spell.                                                      *)
(***************************************************************************)
Toks(sc) ==
    {PieceTok(p) : p \in Seq(UnitsOf(sc))} \cup {ByteTok(b) : b \in Byte}
        \cup {TokFrag(s) : s \in Seq(UnitsOf(sc))}
DecOf(sc) == [x \in Toks(sc) |-> IF x.kind = "byte" THEN << x.of >> ELSE FlatOf(SpOf(sc), x.of)]

PieceIs(sc, p) == PieceTok(p) \in Toks(sc) /\ DecOf(sc)[PieceTok(p)] = FlatOf(SpOf(sc), p)

LEMMA PieceToks ==
    ASSUME NEW sc, NEW p \in Seq(UnitsOf(sc))
    PROVE  PieceIs(sc, p)
<1>1. PieceTok(p) \in Toks(sc)
    BY DEF Toks
<1>2. PieceTok(p).kind = "piece" /\ PieceTok(p).of = p
    BY DEF PieceTok
<1> DEFINE x == PieceTok(p)
<1> HIDE DEF x
<1>3. DecOf(sc)[x] = IF x.kind = "byte" THEN << x.of >> ELSE FlatOf(SpOf(sc), x.of)
    BY <1>1 DEF DecOf, x
<1>4. QED BY <1>1, <1>2, <1>3 DEF PieceIs, x

SpecialIs(sc, p) == TokFrag(p) \in Toks(sc) /\ DecOf(sc)[TokFrag(p)] = FlatOf(SpOf(sc), p)

LEMMA SpecialToks ==
    ASSUME NEW sc, NEW p \in Seq(UnitsOf(sc))
    PROVE  SpecialIs(sc, p)
<1>1. TokFrag(p) \in Toks(sc)
    BY DEF Toks
<1>2. TokFrag(p).kind = "tok" /\ TokFrag(p).of = p
    BY DEF TokFrag
<1> DEFINE x == TokFrag(p)
<1> HIDE DEF x
<1>3. DecOf(sc)[x] = IF x.kind = "byte" THEN << x.of >> ELSE FlatOf(SpOf(sc), x.of)
    BY <1>1 DEF DecOf, x
<1>4. QED BY <1>1, <1>2, <1>3 DEF SpecialIs, x

LEMMA ByteTokIs ==
    ASSUME NEW sc, NEW b \in Byte
    PROVE  ByteTok(b) \in Toks(sc) /\ DecOf(sc)[ByteTok(b)] = << b >>
<1>1. ByteTok(b) \in Toks(sc)
    BY DEF Toks
<1>2. ByteTok(b).kind = "byte" /\ ByteTok(b).of = b
    BY DEF ByteTok
<1> DEFINE x == ByteTok(b)
<1> HIDE DEF x
<1>3. DecOf(sc)[x] = IF x.kind = "byte" THEN << x.of >> ELSE FlatOf(SpOf(sc), x.of)
    BY <1>1 DEF DecOf, x
<1>4. QED BY <1>1, <1>2, <1>3 DEF x

LEMMA ToksSpell ==
    ASSUME NEW sc
    PROVE  Spells(DecOf(sc), Toks(sc), Byte)
<1> SUFFICES ASSUME NEW x \in Toks(sc) PROVE DecOf(sc)[x] \in Seq(Byte)
    BY DEF Spells
<1>1. ASSUME NEW p \in Seq(UnitsOf(sc)) PROVE FlatOf(SpOf(sc), p) \in Seq(Byte)
    BY UnitsSpell, FlatOfIn
<1>2. CASE \E p \in Seq(UnitsOf(sc)) : x = PieceTok(p)
  <2>1. PICK p \in Seq(UnitsOf(sc)) : x = PieceTok(p)
      BY <1>2
  <2>2. PieceIs(sc, p)
      BY PieceToks
  <2>3. QED BY <1>1, <2>1, <2>2 DEF PieceIs
<1>3. CASE \E p \in Seq(UnitsOf(sc)) : x = TokFrag(p)
  <2>1. PICK p \in Seq(UnitsOf(sc)) : x = TokFrag(p)
      BY <1>3
  <2>2. SpecialIs(sc, p)
      BY SpecialToks
  <2>3. QED BY <1>1, <2>1, <2>2 DEF SpecialIs
<1>4. CASE \E b \in Byte : x = ByteTok(b)
  <2>1. PICK b \in Byte : x = ByteTok(b)
      BY <1>4
  <2>2. DecOf(sc)[x] = << b >>
      BY <2>1, ByteTokIs
  <2>3. QED BY <2>2
<1>5. QED BY <1>2, <1>3, <1>4 DEF Toks

LEMMA DecodedIs ==
    ASSUME NEW ts \in Seq(Toks(scheme))
    PROVE  Decoded(ts) = FlatOf(DecOf(scheme), ts)
<1> DEFINE f(x) == IF x.kind = "byte" THEN << x.of >> ELSE Spelt(x.of)
           y == [i \in DOMAIN ts |-> IF ts[i].kind = "byte" THEN << ts[i].of >> ELSE Spelt(ts[i].of)]
           z == [i \in DOMAIN ts |-> DecOf(scheme)[ts[i]]]
<1>1. ASSUME NEW x \in Toks(scheme)
      PROVE  f(x) = DecOf(scheme)[x]
  <2>1. CASE \E p \in Seq(UnitsOf(scheme)) : x = PieceTok(p) \/ x = TokFrag(p)
    <3>1. PICK p \in Seq(UnitsOf(scheme)) : x = PieceTok(p) \/ x = TokFrag(p)
        BY <2>1
    <3>2. x.of = p /\ x.kind # "byte"
        BY <3>1 DEF PieceTok, TokFrag
    <3>3. Spelt(p) = FlatOf(SpOf(scheme), p)
        BY SpeltIs
    <3>4. DecOf(scheme)[x] = FlatOf(SpOf(scheme), p)
      <4>1. PieceIs(scheme, p) /\ SpecialIs(scheme, p)
          BY PieceToks, SpecialToks
      <4>2. QED BY <3>1, <4>1 DEF PieceIs, SpecialIs
    <3>5. QED BY <3>2, <3>3, <3>4
  <2>2. CASE \E b \in Byte : x = ByteTok(b)
    <3>1. PICK b \in Byte : x = ByteTok(b)
        BY <2>2
    <3>2. x.of = b /\ x.kind = "byte"
        BY <3>1 DEF ByteTok
    <3>3. QED BY <3>1, <3>2, ByteTokIs
  <2>3. QED BY <2>1, <2>2 DEF Toks
<1>2. \A i \in DOMAIN ts : ts[i] \in Toks(scheme)
    OBVIOUS
<1>3. y = z
  <2>1. \A i \in DOMAIN ts : f(ts[i]) = DecOf(scheme)[ts[i]]
      BY <1>1, <1>2
  <2>2. QED BY <2>1
<1>4. Decoded(ts) = FlattenSeq(y) /\ FlatOf(DecOf(scheme), ts) = FlattenSeq(z)
    BY DEF Decoded, FlatOf
<1> HIDE DEF y, z
<1>5. QED BY <1>3, <1>4

-----------------------------------------------------------------------------
(***************************************************************************)
(* The tokens of a symbol spell it.                                        *)
(***************************************************************************)
BytesSaid(sc, cs) == ByteToks(cs) \in Seq(Toks(sc)) /\ FlatOf(DecOf(sc), ByteToks(cs)) = Bytes(cs)

LEMMA ByteToksSay ==
    ASSUME NEW sc, NEW cs \in Seq(Char)
    PROVE  BytesSaid(sc, cs)
<1> DEFINE bs == Bytes(cs)
           n == Len(bs)
           ts == [i \in DOMAIN bs |-> ByteTok(bs[i])]
           T == Toks(sc)
           g == DecOf(sc)
<1>1. bs \in Seq(Byte)
    BY BytesAre
<1>2. ByteToks(cs) = ts
    BY DEF ByteToks
<1>3. \A b \in Byte : ByteTok(b) \in T /\ g[ByteTok(b)] = << b >>
    BY ByteTokIs
<1> HIDE DEF bs, T, g
<1>4. n \in Nat /\ DOMAIN bs = 1 .. n /\ bs = [i \in 1 .. n |-> bs[i]] /\ \A i \in 1 .. n : bs[i] \in Byte
    BY <1>1
<1>5. ts \in Seq(T) /\ DOMAIN ts = 1 .. n /\ \A i \in 1 .. n : ts[i] = ByteTok(bs[i])
    BY <1>3, <1>4
<1>6. [i \in DOMAIN ts |-> g[ts[i]]] = [i \in 1 .. n |-> << bs[i] >>]
    BY <1>3, <1>4, <1>5
<1>7. OnesFlat(n, bs)
    BY <1>4, FlattenOnes
<1>8. FlatOf(g, ts) = bs
    BY <1>4, <1>6, <1>7 DEF OnesFlat, FlatOf
<1>9. QED BY <1>2, <1>5, <1>8 DEF BytesSaid, bs, T, g

SaidAs(sc, p) ==
    /\ p \in Seq(UnitsOf(sc))
    /\ \/ p \in Known[sc]
       \/ sc = "Gemma" /\ p \in Seq(Plain)
       \/ sc # "Gemma" /\ p \in Seq(Range(B2c) \ Wide)

IdsSay(p) == Ids(p) \in Seq(Toks(scheme)) /\ FlatOf(DecOf(scheme), Ids(p)) = FlatOf(SpOf(scheme), p)

\* Units of one byte, each a piece of its own.
LEMMA UnitsSaid ==
    ASSUME scheme \in Schemes, scheme # "Gemma", NEW p \in Seq(Range(B2c) \ Wide), p \notin Known[scheme]
    PROVE  IdsSay(p)
<1> DEFINE R == Range(B2c)
           U == UnitsOf(scheme)
           T == Toks(scheme)
           g == DecOf(scheme)
           sp == SpOf(scheme)
           n == Len(p)
           f == [i \in 1 .. n |-> PieceTok(<< p[i] >>)]
           m == [i \in DOMAIN p |->
                   IF p[i] \notin Wide /\ << p[i] >> \in Known[scheme] THEN << PieceTok(<< p[i] >>) >> ELSE <<>>]
<1>1. n \in Nat /\ DOMAIN p = 1 .. n /\ \A i \in 1 .. n : p[i] \in R /\ p[i] \notin Wide
    OBVIOUS
<1>2. ASSUME NEW u \in R
      PROVE  << u >> \in Known[scheme] /\ PieceTok(<< u >>) \in T /\ g[PieceTok(<< u >>)] = sp[u]
  <2>1. PICK b \in Byte : u = B2c[b]
      BY TokenizerAssumption DEF Range, TokenizerAssumption
  <2>2. << u >> \in Known[scheme]
      BY <2>1, TokenizerAssumption DEF TokenizerAssumption, Schemes
  <2>3. u \in U
      BY DEF UnitsOf
  <2>4. << u >> \in Seq(U)
      BY <2>3
  <2>5. PieceIs(scheme, << u >>)
      BY <2>4, PieceToks
  <2>6. sp[u] \in Seq(Byte)
      BY <2>3, UnitHasBytes
  <2>7. FlatOf(sp, << u >>) = sp[u]
      BY <2>6, FlatOfOne
  <2>8. QED BY <2>2, <2>5, <2>7 DEF PieceIs
<1>3. Ids(p) = FlattenSeq(m)
    BY DEF Ids
<1> HIDE DEF R, T, g, sp
<1>4. \A i \in 1 .. n : m[i] = << f[i] >> /\ f[i] \in T /\ g[f[i]] = sp[p[i]]
    BY <1>1, <1>2
<1>5. m = [i \in 1 .. n |-> << f[i] >>]
    BY <1>1, <1>4
<1>6. f = [i \in 1 .. n |-> f[i]] /\ f \in Seq(T)
  <2>1. \A i \in 1 .. n : f[i] \in T
      BY <1>4
  <2>2. f = [i \in 1 .. n |-> f[i]]
      OBVIOUS
  <2> HIDE DEF f
  <2>3. [i \in 1 .. n |-> f[i]] \in Seq(T)
      BY <1>1, <2>1
  <2>4. QED BY <2>2, <2>3
<1>7. FlattenSeq(m) = f
  <2>1. OnesFlat(n, f)
    <3> HIDE DEF f
    <3>1. QED BY <1>1, <1>4, FlattenOnes
  <2>2. QED BY <1>5, <1>6, <2>1 DEF OnesFlat
<1>8. DOMAIN f = 1 .. n
    OBVIOUS
<1> HIDE DEF f, m
<1>9. [i \in DOMAIN f |-> g[f[i]]] = [i \in DOMAIN p |-> sp[p[i]]]
    BY <1>1, <1>4, <1>8
<1>10. FlatOf(g, f) = FlatOf(sp, p)
    BY <1>9 DEF FlatOf
<1>11. QED BY <1>3, <1>6, <1>7, <1>10 DEF IdsSay, T, g, sp

LEMMA IdsDo ==
    ASSUME scheme \in Schemes, NEW p, SaidAs(scheme, p)
    PROVE  IdsSay(p)
<1>1. CASE p \in Known[scheme]
  <2> DEFINE x == PieceTok(p)
             g == DecOf(scheme)
  <2>1. Ids(p) = << x >>
      BY <1>1 DEF Ids
  <2>2. PieceIs(scheme, p)
      BY PieceToks DEF SaidAs
  <2>3. x \in Toks(scheme) /\ g[x] = FlatOf(SpOf(scheme), p)
      BY <2>2 DEF PieceIs
  <2>4. g[x] \in Seq(Byte)
      BY <2>3, ToksSpell DEF Spells
  <2> HIDE DEF x, g
  <2>5. FlatOf(g, << x >>) = g[x]
      BY <2>4, FlatOfOne
  <2>6. << x >> \in Seq(Toks(scheme))
      BY <2>3
  <2>7. QED BY <2>1, <2>3, <2>5, <2>6 DEF IdsSay, g
<1>2. CASE p \notin Known[scheme] /\ scheme = "Gemma"
  <2>1. p \in Seq(Plain)
      BY <1>2 DEF SaidAs
  <2>2. GemmaReads(p)
      BY <2>1, GemmaReadsText
  <2>3. p \in Seq(Char)
      BY <2>1, PlainIsChar
  <2>4. BytesSaid(scheme, p)
      BY <2>3, ByteToksSay
  <2>5. Ids(p) = ByteToks(p)
      BY <1>2 DEF Ids
  <2>6. QED BY <1>2, <2>2, <2>4, <2>5 DEF GemmaReads, BytesSaid, IdsSay
<1>3. CASE p \notin Known[scheme] /\ scheme # "Gemma"
  <2>1. p \in Seq(Range(B2c) \ Wide)
      BY <1>3 DEF SaidAs
  <2>2. QED BY <1>3, <2>1, UnitsSaid
<1>4. QED BY <1>1, <1>2, <1>3

AllIds(ps) == FlattenSeq([k \in DOMAIN ps |-> Ids(ps[k])])
AllSaid(ps) ==
    /\ AllIds(ps) \in Seq(Toks(scheme))
    /\ FlatOf(DecOf(scheme), AllIds(ps)) = FlatOf(SpOf(scheme), FlattenSeq(ps))

LEMMA AllIdsSay ==
    ASSUME scheme \in Schemes, NEW ps \in Seq(Seq(UnitsOf(scheme))),
           \A k \in 1 .. Len(ps) : SaidAs(scheme, ps[k])
    PROVE  AllSaid(ps)
<1> DEFINE n == Len(ps)
           T == Toks(scheme)
           g == DecOf(scheme)
           sp == SpOf(scheme)
           U == UnitsOf(scheme)
           m == [k \in DOMAIN ps |-> Ids(ps[k])]
           h == [k \in DOMAIN ps |-> FlatOf(sp, ps[k])]
           TS == Seq(T)
           BS == Seq(Byte)
<1>1. n \in Nat /\ DOMAIN ps = 1 .. n
    OBVIOUS
<1>2. ASSUME NEW k \in 1 .. n
      PROVE  m[k] \in TS /\ FlatOf(g, m[k]) = h[k] /\ h[k] = FlatOf(sp, ps[k]) /\ h[k] \in BS
  <2> DEFINE p == ps[k]
  <2>1. SaidAs(scheme, p) /\ m[k] = Ids(p) /\ h[k] = FlatOf(sp, p)
      BY <1>1
  <2> HIDE DEF p, m, h
  <2>2. IdsSay(p)
      BY <2>1, IdsDo
  <2>3. p \in Seq(U)
      BY <2>1 DEF SaidAs
  <2>4. FlatOf(sp, p) \in BS
    <3>1. Spells(sp, U, Byte)
        BY UnitsSpell
    <3> HIDE DEF sp, U
    <3>2. QED BY <2>3, <3>1, FlatOfIn
  <2>5. QED BY <2>1, <2>2, <2>4 DEF IdsSay, p
<1> HIDE DEF TS, BS, g, sp
<1>3. m \in Seq(TS) /\ Len(m) = n
    BY <1>1, <1>2
<1>4. h \in Seq(BS) /\ Len(h) = n
    BY <1>1, <1>2
<1> HIDE DEF m, h
<1>5. m \in Seq(Seq(T)) /\ h \in Seq(Seq(Byte))
    BY <1>3, <1>4 DEF TS, BS
<1>6. Spells(g, T, Byte) /\ Spells(sp, U, Byte)
    BY ToksSpell, UnitsSpell DEF g, sp
<1>7. \A k \in 1 .. Len(m) : h[k] = FlatOf(g, m[k])
    BY <1>2, <1>3
<1>8. \A k \in 1 .. Len(ps) : h[k] = FlatOf(sp, ps[k])
    BY <1>2
<1>9. FlatOfAll(g, h, m)
  <2> HIDE DEF T, n
  <2>1. QED BY <1>3, <1>4, <1>5, <1>6, <1>7, FlatOfFlatten
<1>10. FlatOfAll(sp, h, ps)
  <2>1. ps \in Seq(Seq(U))
      OBVIOUS
  <2>2. Len(h) = Len(ps)
      BY <1>4
  <2> HIDE DEF U, n
  <2>3. QED BY <1>5, <1>6, <1>8, <2>1, <2>2, FlatOfFlatten
<1>11. FlattenSeq(m) \in Seq(T)
  <2> HIDE DEF T
  <2>1. QED BY <1>5, FlattenHas
<1>12. AllIds(ps) = FlattenSeq(m)
    BY DEF AllIds, m
<1>13. QED BY <1>9, <1>10, <1>11, <1>12 DEF AllSaid, FlatOfAll, g, sp

-----------------------------------------------------------------------------
(***************************************************************************)
(* What the fragments that are left spell.                                 *)
(***************************************************************************)
BytesFrag(b) == [kind |-> "bytes", of |-> b]
FragsOf(sc) ==
    {TextFrag(t) : t \in Seq(Plain) \ {<<>>}} \cup {TokFrag(s) : s \in Seq(UnitsOf(sc))}
        \cup {BytesFrag(b) : b \in {x \in Seq(Byte) : sc = "Other"}}
LeftOf(sc) ==
    [f \in FragsOf(sc) |->
        IF f.kind = "text" THEN Bytes(f.of) ELSE IF f.kind = "bytes" THEN f.of ELSE FlatOf(SpOf(sc), f.of)]

LEMMA TextLeft ==
    ASSUME NEW sc, NEW t \in Seq(Plain) \ {<<>>}
    PROVE  TextFrag(t) \in FragsOf(sc) /\ LeftOf(sc)[TextFrag(t)] = Bytes(t) /\ Bytes(t) \in Seq(Byte)
<1>1. TextFrag(t) \in FragsOf(sc)
    BY DEF FragsOf
<1>2. TextFrag(t).kind = "text" /\ TextFrag(t).of = t
    BY DEF TextFrag
<1> DEFINE f == TextFrag(t)
<1> HIDE DEF f
<1>3. LeftOf(sc)[f] =
        IF f.kind = "text" THEN Bytes(f.of) ELSE IF f.kind = "bytes" THEN f.of ELSE FlatOf(SpOf(sc), f.of)
    BY <1>1 DEF LeftOf, f
<1>4. LeftOf(sc)[f] = Bytes(t)
    BY <1>2, <1>3 DEF f
<1>5. Bytes(t) \in Seq(Byte)
  <2>1. t \in Seq(Char)
      BY PlainIsChar
  <2>2. QED BY <2>1, BytesAre
<1>6. QED BY <1>1, <1>4, <1>5 DEF f

LEMMA TokLeft ==
    ASSUME NEW sc, NEW s \in Seq(UnitsOf(sc))
    PROVE  /\ TokFrag(s) \in FragsOf(sc) /\ LeftOf(sc)[TokFrag(s)] = FlatOf(SpOf(sc), s)
           /\ FlatOf(SpOf(sc), s) \in Seq(Byte)
<1>1. TokFrag(s) \in FragsOf(sc)
    BY DEF FragsOf
<1>2. TokFrag(s).kind = "tok" /\ TokFrag(s).of = s
    BY DEF TokFrag
<1> DEFINE f == TokFrag(s)
<1> HIDE DEF f
<1>3. LeftOf(sc)[f] =
        IF f.kind = "text" THEN Bytes(f.of) ELSE IF f.kind = "bytes" THEN f.of ELSE FlatOf(SpOf(sc), f.of)
    BY <1>1 DEF LeftOf, f
<1>4. LeftOf(sc)[f] = FlatOf(SpOf(sc), s)
    BY <1>2, <1>3 DEF f
<1>5. FlatOf(SpOf(sc), s) \in Seq(Byte)
    BY UnitsSpell, FlatOfIn
<1>6. QED BY <1>1, <1>4, <1>5 DEF f

LEMMA BytesLeft ==
    ASSUME NEW sc, sc = "Other", NEW b \in Seq(Byte)
    PROVE  BytesFrag(b) \in FragsOf(sc) /\ LeftOf(sc)[BytesFrag(b)] = b
<1>1. BytesFrag(b) \in FragsOf(sc)
    BY DEF FragsOf
<1>2. BytesFrag(b).kind = "bytes" /\ BytesFrag(b).of = b
    BY DEF BytesFrag
<1> DEFINE f == BytesFrag(b)
<1> HIDE DEF f
<1>3. LeftOf(sc)[f] =
        IF f.kind = "text" THEN Bytes(f.of) ELSE IF f.kind = "bytes" THEN f.of ELSE FlatOf(SpOf(sc), f.of)
    BY <1>1 DEF LeftOf, f
<1>4. QED BY <1>1, <1>2, <1>3 DEF f

LEMMA LeftSpells ==
    ASSUME NEW sc
    PROVE  Spells(LeftOf(sc), FragsOf(sc), Byte)
<1> SUFFICES ASSUME NEW f \in FragsOf(sc) PROVE LeftOf(sc)[f] \in Seq(Byte)
    BY DEF Spells
<1>1. CASE \E t \in Seq(Plain) \ {<<>>} : f = TextFrag(t)
    BY <1>1, TextLeft
<1>2. CASE \E s \in Seq(UnitsOf(sc)) : f = TokFrag(s)
    BY <1>2, TokLeft
<1>3. CASE sc = "Other" /\ \E b \in Seq(Byte) : f = BytesFrag(b)
    BY <1>3, BytesLeft
<1>4. QED BY <1>1, <1>2, <1>3 DEF FragsOf

HeadLeft(sc, fs) ==
    /\ Head(fs) \in FragsOf(sc) /\ Tail(fs) \in Seq(FragsOf(sc))
    /\ FlatOf(LeftOf(sc), fs) = LeftOf(sc)[Head(fs)] \o FlatOf(LeftOf(sc), Tail(fs))

\* One fragment before others.
LEMMA FragBefore ==
    ASSUME NEW sc, NEW f \in FragsOf(sc), NEW fs \in Seq(FragsOf(sc))
    PROVE  /\ << f >> \o fs \in Seq(FragsOf(sc))
           /\ FlatOf(LeftOf(sc), << f >> \o fs) = LeftOf(sc)[f] \o FlatOf(LeftOf(sc), fs)
<1> DEFINE X == FragsOf(sc)
           g == LeftOf(sc)
           e == << f >>
<1>1. Spells(g, X, Byte)
    BY LeftSpells
<1>2. g[f] \in Seq(Byte)
    BY <1>1 DEF Spells
<1> HIDE DEF X, g
<1>3. e \in Seq(X)
    BY DEF X
<1>4. FlatOf(g, e) = g[f]
    BY <1>2, FlatOfOne
<1>5. fs \in Seq(X)
    BY DEF X
<1> HIDE DEF e
<1>6. e \o fs \in Seq(X) /\ Splits(g, e, fs)
    BY <1>1, <1>3, <1>5, FlatOfConcat
<1>7. QED BY <1>4, <1>6 DEF Splits, e, X, g

LEMMA HeadIsLeft ==
    ASSUME NEW sc, NEW fs \in Seq(FragsOf(sc)), fs # <<>>
    PROVE  HeadLeft(sc, fs)
<1> DEFINE X == FragsOf(sc)
           f == Head(fs)
           r == Tail(fs)
<1>1. f \in X /\ r \in Seq(X)
  <2>1. fs \in Seq(X)
      OBVIOUS
  <2> HIDE DEF X
  <2>2. QED BY <2>1
<1>2. fs = << f >> \o r
  <2>1. fs \in Seq(X)
      OBVIOUS
  <2> HIDE DEF X
  <2>2. QED BY <2>1
<1> HIDE DEF f, r
<1>3. FlatOf(LeftOf(sc), << f >> \o r) = LeftOf(sc)[f] \o FlatOf(LeftOf(sc), r)
    BY <1>1, FragBefore
<1>4. FlatOf(LeftOf(sc), fs) = LeftOf(sc)[f] \o FlatOf(LeftOf(sc), r)
    BY <1>2, <1>3
<1>5. QED BY <1>1, <1>4 DEF HeadLeft, f, r

-----------------------------------------------------------------------------
(***************************************************************************)
(* The first n of a fragment are past.                                     *)
(***************************************************************************)
PastOf(fs, n) ==
    IF n = Len(Head(fs).of) THEN Tail(fs)
    ELSE [fs EXCEPT ![1].of = SubSeq(Head(fs).of, n + 1, Len(Head(fs).of))]
IsPast(sc, fs, n, x) ==
    /\ PastOf(fs, n) \in Seq(FragsOf(sc))
    /\ FlatOf(LeftOf(sc), fs) = x \o FlatOf(LeftOf(sc), PastOf(fs, n))

LEMMA HeadChanged ==
    ASSUME NEW X, NEW fs \in Seq(X), fs # <<>>, NEW y
    PROVE  [fs EXCEPT ![1].of = y] = << [Head(fs) EXCEPT !.of = y] >> \o Tail(fs)
<1> DEFINE c == [fs EXCEPT ![1].of = y]
           h == [Head(fs) EXCEPT !.of = y]
           r == Tail(fs)
           n == Len(fs)
           d == << h >> \o r
<1>1. n \in Nat /\ n >= 1 /\ DOMAIN fs = 1 .. n /\ r \in Seq(X) /\ Len(r) = n - 1 /\ Head(fs) = fs[1]
    OBVIOUS
<1>2. \A i \in 1 .. n - 1 : r[i] = fs[i + 1]
    OBVIOUS
<1>3. \A i \in 1 .. n : c[i] = IF i = 1 THEN h ELSE fs[i]
    BY <1>1
<1>4. DOMAIN c = 1 .. n
    BY <1>1
<1>5. c = [i \in 1 .. n |-> c[i]]
    BY <1>1
<1> HIDE DEF h, r, c
<1> DEFINE Y == X \cup {h}
<1>6. << h >> \in Seq(Y) /\ Len(<< h >>) = 1 /\ << h >>[1] = h
    OBVIOUS
<1>7. r \in Seq(Y)
    BY <1>1, SeqWider
<1> HIDE DEF Y
<1> DEFINE e == << h >>
<1>8. /\ e \o r \in Seq(Y) /\ Len(e \o r) = Len(e) + Len(r)
      /\ \A i \in 1 .. Len(e) + Len(r) : (e \o r)[i] = IF i <= Len(e) THEN e[i] ELSE r[i - Len(e)]
  <2>1. e \in Seq(Y)
      BY <1>6
  <2> HIDE DEF e
  <2>2. QED BY <1>7, <2>1, ConcatProperties
<1>9. d \in Seq(Y) /\ Len(d) = n
  <2>1. d \in Seq(Y) /\ Len(d) = Len(e) + Len(r) /\ Len(e) = 1
      BY <1>6, <1>8
  <2> HIDE DEF d, e, n
  <2>2. Len(d) = 1 + (n - 1)
      BY <1>1, <2>1
  <2>3. 1 + (n - 1) = n
      BY <1>1
  <2>4. QED BY <2>1, <2>2, <2>3
<1>10. ASSUME NEW i \in 1 .. n PROVE d[i] = c[i]
  <2>1. d[i] = IF i <= 1 THEN e[i] ELSE r[i - 1]
      BY <1>1, <1>6, <1>8
  <2>2. CASE i = 1
      BY <1>3, <1>6, <2>1, <2>2
  <2>3. CASE i # 1
    <3>1. i - 1 \in 1 .. n - 1 /\ i - 1 + 1 = i /\ ~(i <= 1)
        BY <1>1, <2>3
    <3>2. d[i] = fs[i]
      <4> HIDE DEF d
      <4>1. d[i] = r[i - 1]
          BY <2>1, <3>1
      <4>2. r[i - 1] = fs[i - 1 + 1]
          BY <1>2, <3>1
      <4>3. QED BY <3>1, <4>1, <4>2
    <3>3. QED BY <1>3, <2>3, <3>2
  <2>4. QED BY <2>2, <2>3
<1>11. d = [i \in 1 .. n |-> d[i]]
  <2> HIDE DEF d
  <2>1. QED BY <1>1, <1>9
<1>12. c = d
  <2> HIDE DEF d
  <2>1. QED BY <1>5, <1>10, <1>11
<1>13. QED BY <1>12 DEF c, h, r

\* All of it, or what comes after it is a fragment.
LEMMA PastIs ==
    ASSUME NEW sc, NEW fs \in Seq(FragsOf(sc)), fs # <<>>, NEW n, NEW x \in Seq(Byte),
           n = Len(Head(fs).of) => LeftOf(sc)[Head(fs)] = x,
           n # Len(Head(fs).of) =>
              \E f \in FragsOf(sc) :
                 /\ f = [Head(fs) EXCEPT !.of = SubSeq(Head(fs).of, n + 1, Len(Head(fs).of))]
                 /\ LeftOf(sc)[Head(fs)] = x \o LeftOf(sc)[f]
    PROVE  IsPast(sc, fs, n, x)
<1> DEFINE L == LeftOf(sc)
           y == SubSeq(Head(fs).of, n + 1, Len(Head(fs).of))
           r == Tail(fs)
           h == Head(fs)
<1>1. h \in FragsOf(sc) /\ r \in Seq(FragsOf(sc)) /\ FlatOf(L, fs) = L[h] \o FlatOf(L, r)
  <2>1. HeadLeft(sc, fs)
      BY HeadIsLeft
  <2>2. QED BY <2>1 DEF HeadLeft
<1>2. CASE n = Len(h.of)
  <2>1. PastOf(fs, n) = r
      BY <1>2 DEF PastOf
  <2>2. L[h] = x
      BY <1>2
  <2> HIDE DEF h, r, L
  <2>3. QED BY <1>1, <2>1, <2>2 DEF IsPast, L
<1>3. CASE n # Len(h.of)
  <2>1. PICK f \in FragsOf(sc) : f = [h EXCEPT !.of = y] /\ L[h] = x \o L[f]
      BY <1>3
  <2>2. PastOf(fs, n) = [fs EXCEPT ![1].of = y]
      BY <1>3 DEF PastOf
  <2> HIDE DEF y
  <2>3. [fs EXCEPT ![1].of = y] = << [h EXCEPT !.of = y] >> \o r
    <3> DEFINE X == FragsOf(sc)
    <3>1. fs \in Seq(X)
        OBVIOUS
    <3> HIDE DEF X
    <3>2. QED BY <3>1, HeadChanged
  <2>4. PastOf(fs, n) = << f >> \o r
      BY <2>1, <2>2, <2>3
  <2> HIDE DEF h, r
  <2>5. << f >> \o r \in Seq(FragsOf(sc)) /\ FlatOf(L, << f >> \o r) = L[f] \o FlatOf(L, r)
      BY <1>1, FragBefore
  <2>6. L[f] \in Seq(Byte) /\ FlatOf(L, r) \in Seq(Byte)
    <3>1. Spells(L, FragsOf(sc), Byte)
        BY LeftSpells
    <3>2. L[f] \in Seq(Byte)
        BY <3>1 DEF Spells
    <3> HIDE DEF L
    <3>3. FlatOf(L, r) \in Seq(Byte)
        BY <1>1, <3>1, FlatOfIn
    <3>4. QED BY <3>2, <3>3
  <2> HIDE DEF L
  <2> DEFINE lf == L[f]
             lr == FlatOf(L, r)
  <2>7. (x \o lf) \o lr = x \o (lf \o lr)
    <3>1. x \in Seq(Byte) /\ lf \in Seq(Byte) /\ lr \in Seq(Byte)
        BY <2>6
    <3> HIDE DEF lf, lr
    <3>2. Regrouped(x, lf, lr)
        BY <3>1, Regrouping
    <3>3. QED BY <3>2 DEF Regrouped
  <2>8. FlatOf(L, fs) = x \o FlatOf(L, << f >> \o r)
      BY <1>1, <2>1, <2>5, <2>7
  <2>9. QED BY <2>4, <2>5, <2>8 DEF IsPast, L
<1>4. QED BY <1>2, <1>3

-----------------------------------------------------------------------------
(***************************************************************************)
(* The merging of a word, from its units on.                               *)
(***************************************************************************)
WordOk(sc, w, sy, hp) ==
    /\ Tiles(Len(w), sy) /\ HeapOk(Merges[sc], w, sy, hp)
    /\ FlattenSeq(SymTextsOf(w, sy)) = w
    /\ \A i \in 1 .. Len(w) : sy[i] > 0 => SaidAs(sc, SymAt(w, sy, i))
    /\ MergedIn(Merges[sc], SymTextsOf(w, sy)) = MergedIn(Merges[sc], Singles(w))

LEMMA MergesAre ==
    ASSUME NEW sc \in Schemes
    PROVE  DOMAIN Merges[sc] \subseteq Nat
<1> DEFINE T == Seq(UnitsOf(sc)) \X Seq(UnitsOf(sc))
<1>1. Merges[sc] \in Seq(T)
    BY TokenizerAssumption DEF TokenizerAssumption
<1> HIDE DEF T
<1>2. QED BY <1>1

\* A merged pair can be written.
LEMMA MergedSaid ==
    ASSUME NEW sc \in {"Qwen35", "Qwen2", "Gemma"}, NEW x, NEW y, RankOf(Merges[sc], x, y) # {}
    PROVE  SaidAs(sc, x \o y)
<1> DEFINE U == UnitsOf(sc)
           T == Seq(U) \X Seq(U)
<1>1. Merges[sc] \in Seq(T)
    BY TokenizerAssumption DEF TokenizerAssumption, Schemes
<1>2. PICK k \in DOMAIN Merges[sc] : Merges[sc][k] = << x, y >>
    BY DEF RankOf
<1>3. Merges[sc][k] \in T
  <2> HIDE DEF T
  <2>1. QED BY <1>1
<1>4. x \in Seq(U) /\ y \in Seq(U)
  <2> DEFINE S == Seq(U)
  <2>1. << x, y >> \in S \X S
      BY <1>2, <1>3
  <2> HIDE DEF S
  <2>2. x \in S /\ y \in S
      BY <2>1
  <2>3. QED BY <2>2 DEF S
<1>5. x \o y \in Seq(U)
  <2> HIDE DEF U
  <2>1. QED BY <1>4
<1> DEFINE m == Merges[sc][k]
<1>6. m \in ToSet(Merges[sc])
    BY DEF ToSet
<1>7. m[1] \o m[2] = x \o y
    BY <1>2
<1> HIDE DEF m
<1>8. CASE sc = "Gemma"
  <2>1. m[1] \o m[2] \in Known["Gemma"] \cup Seq(Char \ {"_"})
      BY <1>6, <1>8, TokenizerAssumption DEF TokenizerAssumption
  <2>2. QED BY <1>5, <1>7, <1>8, <2>1 DEF SaidAs, Plain
<1>9. CASE sc # "Gemma"
  <2>1. m[1] \o m[2] \in Known[sc] \cup Seq(Range(B2c) \ Wide)
      BY <1>6, <1>9, TokenizerAssumption DEF TokenizerAssumption
  <2>2. QED BY <1>5, <1>7, <1>9, <2>1 DEF SaidAs
<1>10. QED BY <1>8, <1>9

LEMMA WordBegun ==
    ASSUME NEW sc \in Schemes, NEW w \in Seq(UnitsOf(sc)), \A i \in 1 .. Len(w) : SaidAs(sc, << w[i] >>),
           NEW hp, hp = UNION {BigramIn(Merges[sc], w, Ones(w), i - 1, i) : i \in 2 .. Len(w)}
    PROVE  WordOk(sc, w, Ones(w), hp)
<1> DEFINE ms == Merges[sc]
           U == UnitsOf(sc)
           sy == Ones(w)
<1>1. DOMAIN ms \subseteq Nat
    BY MergesAre
<1> HIDE DEF ms
<1>2. BegunRight(ms, w, hp)
  <2>1. w \in Seq(U) /\ hp = UNION {BigramIn(ms, w, Ones(w), i - 1, i) : i \in 2 .. Len(w)}
      BY DEF ms
  <2> HIDE DEF U
  <2>2. QED BY <1>1, <2>1, BegunIs
<1>3. ASSUME NEW i \in 1 .. Len(w) PROVE SymAt(w, sy, i) = << w[i] >>
    BY <1>2 DEF BegunRight
<1>4. ms = Merges[sc]
    BY DEF ms
<1>5. Tiles(Len(w), sy) /\ HeapOk(Merges[sc], w, sy, hp) /\ SymTextsOf(w, sy) = Singles(w) /\ FlattenSeq(Singles(w)) = w
    BY <1>2, <1>4 DEF BegunRight
<1> HIDE DEF sy
<1>6. WordOk(sc, w, sy, hp)
    BY <1>3, <1>5 DEF WordOk
<1>7. QED BY <1>6 DEF sy

\* A stale pair goes.
LEMMA PairStale ==
    ASSUME NEW sc \in Schemes, NEW w \in Seq(UnitsOf(sc)), NEW sy, NEW hp, WordOk(sc, w, sy, hp),
           NEW b \in hp, ~FreshIn(sy, b)
    PROVE  WordOk(sc, w, sy, hp \ {b})
<1> DEFINE ms == Merges[sc]
           U == UnitsOf(sc)
<1>1. DOMAIN ms \subseteq Nat
    BY MergesAre
<1>2. HeapOk(ms, w, sy, hp) /\ Tiles(Len(w), sy) /\ w \in Seq(U)
    BY DEF WordOk
<1> HIDE DEF ms, U
<1>3. HeapOk(ms, w, sy, hp \ {b})
    BY <1>1, <1>2, StaleGoes
<1>4. QED BY <1>3 DEF WordOk, ms

\* A fresh one is merged.
LEMMA PairJoined ==
    ASSUME NEW sc \in {"Qwen35", "Qwen2", "Gemma"}, NEW w \in Seq(UnitsOf(sc)), NEW sy, NEW hp,
           WordOk(sc, w, sy, hp), NEW b, LeastOf(hp, b), FreshIn(sy, b)
    PROVE  WordOk(sc, w, JoinedAt(sy, b.li, b.ri),
                  (hp \ {b}) \cup NewIn(Merges[sc], w, JoinedAt(sy, b.li, b.ri), b.li, b.ri))
<1> DEFINE ms == Merges[sc]
           U == UnitsOf(sc)
           l == b.li
           r == b.ri
           J == JoinedAt(sy, l, r)
           h == (hp \ {b}) \cup NewIn(ms, w, J, l, r)
           ps == SymTextsOf(w, sy)
           n == Len(w)
<1>1. DOMAIN ms \subseteq Nat
    BY MergesAre DEF Schemes
<1>2. HeapOk(ms, w, sy, hp) /\ Tiles(n, sy) /\ w \in Seq(U) /\ n \in Nat
    BY DEF WordOk
<1>3. b \in hp /\ HeapPair(ms, w, b)
    BY <1>2 DEF LeastOf, HeapOk
<1> HIDE DEF ms, U
<1>4. FreshRight(ms, w, sy, b)
    BY <1>2, <1>3, FreshIs
<1>5. Follows(n, sy, l, r) /\ BigramIn(ms, w, sy, l, r) = {b}
    BY <1>4 DEF FreshRight
<1> HIDE DEF l, r
<1>6. RankOf(ms, SymAt(w, sy, l), SymAt(w, sy, r)) # {}
  <2> DEFINE R == RankOf(ms, SymAt(w, sy, l), SymAt(w, sy, r))
             d == [rank |-> Min(R), li |-> l, ri |-> r, ln |-> sy[l], rn |-> sy[r]]
  <2>1. {b} = IF R = {} THEN {} ELSE {d}
      BY <1>5 DEF BigramIn
  <2> HIDE DEF R, d
  <2>2. R # {}
      BY <2>1
  <2>3. QED BY <2>2 DEF R
<1>7. Tiles(n, J)
    BY <1>2, <1>5, TilesJoined
<1>8. HeapOk(ms, w, J, h)
    BY <1>1, <1>2, <1>3, FreshGoes DEF l, r
<1>9. FlattenSeq(SymTextsOf(w, J)) = w
  <2>1. FlattenSeq(SymTextsOf(w, J)) = FlattenSeq(SymTextsOf(w, sy))
      BY <1>2, <1>5, JoinedSpell
  <2>2. QED BY <2>1 DEF WordOk
<1>10. ASSUME NEW i \in 1 .. n, J[i] > 0 PROVE SaidAs(sc, SymAt(w, J, i))
  <2>1. l \in 1 .. n /\ r \in 1 .. n /\ sy \in [1 .. n -> Nat] /\ l # r
    <3>1. l < r
        BY <1>2, <1>5, FollowsIs
    <3>2. QED BY <1>2, <1>5, <3>1 DEF Follows, Tiles
  <2>2. JoinedRight(n, sy, l, r)
      BY <1>2, <2>1, JoinedIs
  <2>3. CASE i = l
    <3>1. SymbolJoined(w, sy, l, r)
        BY <1>2, <1>5, SymbolJoins
    <3>2. SymAt(w, J, l) = SymAt(w, sy, l) \o SymAt(w, sy, r)
        BY <3>1 DEF SymbolJoined
    <3> HIDE DEF J
    <3>3. SaidAs(sc, SymAt(w, sy, l) \o SymAt(w, sy, r))
      <4> DEFINE x == SymAt(w, sy, l)
                 y == SymAt(w, sy, r)
      <4>1. RankOf(Merges[sc], x, y) # {}
          BY <1>6 DEF ms
      <4> HIDE DEF x, y
      <4>2. SaidAs(sc, x \o y)
          BY <4>1, MergedSaid
      <4>3. QED BY <4>2 DEF x, y
    <3>4. QED BY <2>3, <3>2, <3>3
  <2>4. CASE i # l
    <3>1. i # r
        BY <1>10, <2>2 DEF JoinedRight
    <3>2. J[i] = sy[i]
        BY <2>2, <2>4, <3>1 DEF JoinedRight
    <3> HIDE DEF J
    <3>3. SymAt(w, J, i) = SymAt(w, sy, i) /\ sy[i] > 0
        BY <1>10, <3>2 DEF SymAt
    <3>4. QED BY <3>3 DEF WordOk, n
  <2>5. QED BY <2>3, <2>4
<1>11. MergedIn(ms, SymTextsOf(w, J)) = MergedIn(ms, Singles(w))
  <2>1. TakesPair(ms, w, sy, l, r)
      BY <1>1, <1>2, LeastIsTaken DEF l, r
  <2>2. ps \in Seq(Seq(U))
    <3> DEFINE T == Seq(U)
    <3>1. SsOf(w, sy) \in Seq(Seq(T))
        BY <1>2, SsIs DEF SsRight
    <3>2. ps \in Seq(T)
      <4> HIDE DEF T
      <4>1. QED BY <3>1, FlattenHas DEF SymTextsOf
    <3>3. QED BY <3>2
  <2> HIDE DEF ps, J
  <2>3. PairsIn(ms, ps) # {} /\ OnceIn(ms, ps) = SymTextsOf(w, J)
      BY <2>1 DEF TakesPair, ps, J
  <2>4. MergedIn(ms, OnceIn(ms, ps)) = MergedIn(ms, ps)
      BY <1>1, <2>2, <2>3, MergedAfterOne
  <2>5. MergedIn(ms, ps) = MergedIn(ms, Singles(w))
      BY DEF WordOk, ms, ps
  <2>6. QED BY <2>3, <2>4, <2>5
<1>12. WordOk(sc, w, J, h)
    BY <1>7, <1>8, <1>9, <1>10, <1>11 DEF WordOk, ms, n
<1>13. QED BY <1>12 DEF l, r, ms

\* The least pair of a heap.
LEMMA LeastOfHeap ==
    ASSUME NEW ms, NEW w, NEW hp, hp # {}, \A b \in hp : HeapPair(ms, w, b)
    PROVE  \E b : LeastOf(hp, b)
<1> DEFINE R == {b.rank : b \in hp}
           k == Min(R)
           L == {b.li : b \in {a \in hp : a.rank = k}}
           i == Min(L)
<1>1. \A b \in hp : b.rank \in Nat /\ b.li \in Nat
    BY DEF HeapPair
<1>2. R \in SUBSET Nat /\ R # {}
    BY <1>1
<1>3. k \in R /\ \A y \in R : k <= y
  <2> HIDE DEF R
  <2>1. QED BY <1>2, MinOfNats
<1> HIDE DEF k
<1>4. L \in SUBSET Nat /\ L # {}
    BY <1>1, <1>3
<1>5. i \in L /\ \A y \in L : i <= y
  <2> HIDE DEF L
  <2>1. QED BY <1>4, MinOfNats
<1> HIDE DEF i
<1>6. PICK b \in hp : b.rank = k /\ b.li = i
    BY <1>5
<1>7. ASSUME NEW a \in hp PROVE b.rank < a.rank \/ (b.rank = a.rank /\ b.li <= a.li)
  <2>1. k <= a.rank /\ k \in Nat /\ a.rank \in Nat
      BY <1>1, <1>2, <1>3
  <2>2. CASE a.rank = k
    <3>1. i <= a.li
        BY <1>5, <2>2
    <3>2. QED BY <1>6, <2>2, <3>1
  <2>3. CASE a.rank # k
      BY <1>6, <2>1, <2>3
  <2>4. QED BY <2>2, <2>3
<1>8. QED BY <1>6, <1>7 DEF LeastOf

-----------------------------------------------------------------------------
(***************************************************************************)
(* The inductive invariant: what a token, the units of the word and a      *)
(* fragment spell, one behind the other, is the text; a word is merged     *)
(* only in the schemes that have merges, and its symbols tile it.          *)
(***************************************************************************)
Spoken(sc, cd, w, fs) == (FlatOf(DecOf(sc), cd) \o FlatOf(SpOf(sc), w)) \o FlatOf(LeftOf(sc), fs)

CodeOk(a, sc, fs, w, sy, hp, cd) ==
    /\ a \in Seq(Plain) /\ sc \in Schemes
    /\ fs \in Seq(FragsOf(sc)) /\ w \in Seq(UnitsOf(sc)) /\ cd \in Seq(Toks(sc))
    /\ a = <<>> => fs = <<>> /\ w = <<>> /\ cd = <<>>
    /\ w = <<>> => sy = <<>> /\ hp = {}
    /\ w # <<>> => sc \in {"Qwen35", "Qwen2", "Gemma"} /\ WordOk(sc, w, sy, hp)
    /\ Spoken(sc, cd, w, fs) = Bytes(a)

CodeInv == CodeOk(asked, scheme, frags, word, syms, heap, coded)

LEMMA SymTextsAre == SymTexts = SymTextsOf(word, syms)
BY DEF SymTexts, SymTextsOf, SsOf

LEMMA MergeOnceIs ==
    ASSUME NEW ps
    PROVE  MergeOnce(ps) = OnceIn(Merges[scheme], ps)
BY DEF MergeOnce, OnceIn, PairsIn, LeastPair, RankOf, MergedAt

LEMMA MergedInIs ==
    ASSUME NEW ps
    PROVE  Merged(ps) = MergedIn(Merges[scheme], ps)
BY MergeOnceIs DEF Merged, MergedIn, StepsIn

LEMMA BigramIs ==
    ASSUME NEW w, NEW sy, NEW l, NEW r
    PROVE  Bigram(w, sy, l, r) = BigramIn(Merges[scheme], w, sy, l, r)
BY DEF Bigram, Ranks, BigramIn, RankOf

-----------------------------------------------------------------------------
(***************************************************************************)
(* The invariant says what EncodesText does.                               *)
(***************************************************************************)
LEMMA LeftIs ==
    ASSUME NEW fs \in Seq(FragsOf(scheme))
    PROVE  LET Left(f) == CASE f.kind = "text" -> Bytes(f.of)
                            [] f.kind = "bytes" -> f.of
                            [] OTHER -> Spelt(f.of)
           IN  FlattenSeq([i \in DOMAIN fs |-> Left(fs[i])]) = FlatOf(LeftOf(scheme), fs)
<1> DEFINE Left(f) == CASE f.kind = "text" -> Bytes(f.of)
                        [] f.kind = "bytes" -> f.of
                        [] OTHER -> Spelt(f.of)
           L == LeftOf(scheme)
<1>1. ASSUME NEW f \in FragsOf(scheme)
      PROVE  Left(f) = L[f]
  <2>1. CASE \E t \in Seq(Plain) \ {<<>>} : f = TextFrag(t)
    <3>1. PICK t \in Seq(Plain) \ {<<>>} : f = TextFrag(t)
        BY <2>1
    <3>2. f.kind = "text" /\ f.of = t
        BY <3>1 DEF TextFrag
    <3>3. L[f] = Bytes(t)
        BY <3>1, TextLeft
    <3>4. Left(f) = Bytes(t)
        BY <3>2
    <3>5. QED BY <3>3, <3>4
  <2>2. CASE scheme = "Other" /\ \E b \in Seq(Byte) : f = BytesFrag(b)
    <3>1. PICK b \in Seq(Byte) : f = BytesFrag(b)
        BY <2>2
    <3>2. f.kind = "bytes" /\ f.of = b
        BY <3>1 DEF BytesFrag
    <3>3. L[f] = b
        BY <2>2, <3>1, BytesLeft
    <3>4. Left(f) = b
        BY <3>2
    <3>5. QED BY <3>3, <3>4
  <2>3. CASE \E s \in Seq(UnitsOf(scheme)) : f = TokFrag(s)
    <3>1. PICK s \in Seq(UnitsOf(scheme)) : f = TokFrag(s)
        BY <2>3
    <3>2. f.kind = "tok" /\ f.of = s
        BY <3>1 DEF TokFrag
    <3>3. L[f] = FlatOf(SpOf(scheme), s)
        BY <3>1, TokLeft
    <3>4. Left(f) = Spelt(s)
        BY <3>2
    <3>5. QED BY <3>3, <3>4, SpeltIs
  <2>4. QED BY <2>1, <2>2, <2>3 DEF FragsOf
<1> DEFINE y == [i \in DOMAIN fs |-> Left(fs[i])]
           z == [i \in DOMAIN fs |-> L[fs[i]]]
<1>2. y = z
  <2>1. \A i \in DOMAIN fs : fs[i] \in FragsOf(scheme)
      OBVIOUS
  <2> HIDE DEF Left, L
  <2>2. \A i \in DOMAIN fs : Left(fs[i]) = L[fs[i]]
      BY <1>1, <2>1
  <2>3. QED BY <2>2
<1>3. FlatOf(L, fs) = FlattenSeq(z)
    BY DEF FlatOf
<1>4. FlattenSeq(y) = FlatOf(L, fs)
  <2> HIDE DEF y, z
  <2>1. QED BY <1>2, <1>3
<1>5. QED BY <1>4

-----------------------------------------------------------------------------
LEMMA InvSaysText ==
    ASSUME CodeInv
    PROVE  EncodesText
<1> DEFINE ms == Merges[scheme]
           U == UnitsOf(scheme)
           ps == SymTextsOf(word, syms)
<1>1. /\ scheme \in Schemes /\ frags \in Seq(FragsOf(scheme)) /\ word \in Seq(U) /\ coded \in Seq(Toks(scheme))
      /\ word # <<>> => WordOk(scheme, word, syms, heap)
      /\ Spoken(scheme, coded, word, frags) = Bytes(asked)
    BY DEF CodeInv, CodeOk
<1>2. Decoded(coded) = FlatOf(DecOf(scheme), coded) /\ Spelt(word) = FlatOf(SpOf(scheme), word)
    BY <1>1, DecodedIs, SpeltIs
<1>3. ASSUME word # <<>>
      PROVE  /\ Merged(SymTexts) = Merged([i \in DOMAIN word |-> << word[i] >>])
             /\ heap = {} => MergeOnce(SymTexts) = SymTexts
  <2>1. WordOk(scheme, word, syms, heap) /\ DOMAIN ms \subseteq Nat
      BY <1>1, <1>3, MergesAre
  <2>2. Merged(SymTexts) = MergedIn(ms, ps)
      BY SymTextsAre, MergedInIs
  <2>3. Merged([i \in DOMAIN word |-> << word[i] >>]) = MergedIn(ms, Singles(word))
      BY MergedInIs DEF Singles
  <2>4. MergedIn(ms, ps) = MergedIn(ms, Singles(word))
      BY <2>1 DEF WordOk
  <2>5. ASSUME heap = {} PROVE MergeOnce(SymTexts) = SymTexts
    <3>1. HeapOk(ms, word, syms, {}) /\ Tiles(Len(word), syms) /\ word \in Seq(U)
        BY <1>1, <2>1, <2>5 DEF WordOk
    <3> HIDE DEF ms, U
    <3>2. PairsIn(ms, ps) = {}
        BY <2>1, <3>1, NoneLeft
    <3>3. ps \in Seq(Seq(U))
      <4> DEFINE T == Seq(U)
      <4>1. SsOf(word, syms) \in Seq(Seq(T))
          BY <3>1, SsIs DEF SsRight
      <4>2. ps \in Seq(T)
        <5> HIDE DEF T
        <5>1. QED BY <4>1, FlattenHas DEF SymTextsOf
      <4>3. QED BY <4>2
    <3> DEFINE T == Seq(U)
    <3>4. ps \in Seq(T)
        BY <3>3
    <3> HIDE DEF ps, T
    <3>5. OnceIn(ms, ps) = ps
        BY <2>1, <3>2, <3>4, OnceIs
    <3>6. QED BY <3>5, SymTextsAre, MergeOnceIs DEF ms, ps
  <2>6. QED BY <2>2, <2>3, <2>4, <2>5
<1>4. LET Left(f) == CASE f.kind = "text" -> Bytes(f.of)
                       [] f.kind = "bytes" -> f.of
                       [] OTHER -> Spelt(f.of)
      IN  Decoded(coded) \o Spelt(word) \o FlattenSeq([i \in DOMAIN frags |-> Left(frags[i])]) = Bytes(asked)
  <2>1. LET Left(f) == CASE f.kind = "text" -> Bytes(f.of)
                         [] f.kind = "bytes" -> f.of
                         [] OTHER -> Spelt(f.of)
        IN  FlattenSeq([i \in DOMAIN frags |-> Left(frags[i])]) = FlatOf(LeftOf(scheme), frags)
      BY <1>1, LeftIs
  <2>2. QED BY <1>1, <1>2, <2>1 DEF Spoken
<1>5. QED BY <1>3, <1>4 DEF EncodesText

-----------------------------------------------------------------------------
(***************************************************************************)
(* What a step takes from one part another has.                            *)
(***************************************************************************)
Moves(d, x, f) ==
    /\ (d \o <<>>) \o (x \o f) = (d \o x) \o f
    /\ ((d \o x) \o <<>>) \o f = (d \o x) \o f

LEMMA Moving ==
    ASSUME NEW S, NEW d \in Seq(S), NEW x \in Seq(S), NEW f \in Seq(S)
    PROVE  Moves(d, x, f)
<1> DEFINE dx == d \o x
<1>1. dx \in Seq(S) /\ d \o <<>> = d
    BY ConcatEmptySeq
<1>2. d \o (x \o f) = dx \o f
  <2>1. Regrouped(d, x, f)
      BY Regrouping
  <2>2. QED BY <2>1 DEF Regrouped
<1> HIDE DEF dx
<1>3. dx \o <<>> = dx
    BY <1>1, ConcatEmptySeq
<1>4. QED BY <1>1, <1>2, <1>3 DEF Moves, dx

Parted(sc, fs, gs, x) ==
    gs \in Seq(FragsOf(sc)) /\ FlatOf(LeftOf(sc), fs) = x \o FlatOf(LeftOf(sc), gs)

LEMMA SpokenIn ==
    ASSUME NEW sc, NEW fs \in Seq(FragsOf(sc)), NEW w \in Seq(UnitsOf(sc)), NEW cd \in Seq(Toks(sc))
    PROVE  /\ FlatOf(DecOf(sc), cd) \in Seq(Byte) /\ FlatOf(SpOf(sc), w) \in Seq(Byte)
           /\ FlatOf(LeftOf(sc), fs) \in Seq(Byte)
<1>1. FlatOf(DecOf(sc), cd) \in Seq(Byte)
    BY ToksSpell, FlatOfIn
<1>2. FlatOf(SpOf(sc), w) \in Seq(Byte)
    BY UnitsSpell, FlatOfIn
<1>3. FlatOf(LeftOf(sc), fs) \in Seq(Byte)
    BY LeftSpells, FlatOfIn
<1>4. QED BY <1>1, <1>2, <1>3

TakenBy(sc, cd, ts) ==
    /\ cd \o ts \in Seq(Toks(sc))
    /\ FlatOf(DecOf(sc), cd \o ts) = FlatOf(DecOf(sc), cd) \o FlatOf(DecOf(sc), ts)

LEMMA Taking ==
    ASSUME NEW sc, NEW cd \in Seq(Toks(sc)), NEW ts \in Seq(Toks(sc))
    PROVE  TakenBy(sc, cd, ts)
<1> DEFINE X == Toks(sc)
           g == DecOf(sc)
<1>1. Spells(g, X, Byte) /\ cd \in Seq(X) /\ ts \in Seq(X)
    BY ToksSpell
<1> HIDE DEF X, g
<1>2. cd \o ts \in Seq(X) /\ Splits(g, cd, ts)
    BY <1>1, FlatOfConcat
<1>3. QED BY <1>2 DEF Splits, TakenBy, X, g

\* From a fragment to the tokens.
LEMMA ToTokens ==
    ASSUME NEW a, a # <<>>, NEW sc, NEW fs, NEW sy, NEW hp, NEW cd, CodeOk(a, sc, fs, <<>>, sy, hp, cd),
           NEW gs, NEW x, Parted(sc, fs, gs, x), NEW ts \in Seq(Toks(sc)), FlatOf(DecOf(sc), ts) = x
    PROVE  CodeOk(a, sc, gs, <<>>, sy, hp, cd \o ts)
<1> DEFINE d == FlatOf(DecOf(sc), cd)
           f == FlatOf(LeftOf(sc), gs)
<1>1. /\ fs \in Seq(FragsOf(sc)) /\ cd \in Seq(Toks(sc)) /\ <<>> \in Seq(UnitsOf(sc))
      /\ gs \in Seq(FragsOf(sc)) /\ Spoken(sc, cd, <<>>, fs) = Bytes(a)
    BY DEF CodeOk, Parted
<1>2. FlatOf(SpOf(sc), <<>>) = <<>>
    BY FlatOfNone
<1>3. d \in Seq(Byte) /\ f \in Seq(Byte) /\ x \in Seq(Byte)
    BY <1>1, SpokenIn
<1>4. TakenBy(sc, cd, ts)
    BY <1>1, Taking
<1>5. Spoken(sc, cd, <<>>, fs) = (d \o <<>>) \o (x \o f)
    BY <1>2 DEF Spoken, Parted
<1>6. Spoken(sc, cd \o ts, <<>>, gs) = ((d \o x) \o <<>>) \o f
    BY <1>2, <1>4 DEF Spoken, TakenBy
<1>7. Moves(d, x, f)
  <2> HIDE DEF d, f
  <2>1. QED BY <1>3, Moving
<1>8. Spoken(sc, cd \o ts, <<>>, gs) = Bytes(a)
    BY <1>1, <1>5, <1>6, <1>7 DEF Moves
<1>9. QED BY <1>1, <1>4, <1>8 DEF CodeOk, TakenBy

\* From a fragment to the word.
LEMMA ToWord ==
    ASSUME NEW a, a # <<>>, NEW sc, NEW fs, NEW sy, NEW hp, NEW cd, CodeOk(a, sc, fs, <<>>, sy, hp, cd),
           NEW gs, NEW x, Parted(sc, fs, gs, x), NEW w \in Seq(UnitsOf(sc)), w # <<>>, FlatOf(SpOf(sc), w) = x,
           sc \in {"Qwen35", "Qwen2", "Gemma"}, NEW sz, NEW hq, WordOk(sc, w, sz, hq)
    PROVE  CodeOk(a, sc, gs, w, sz, hq, cd)
<1> DEFINE d == FlatOf(DecOf(sc), cd)
           f == FlatOf(LeftOf(sc), gs)
<1>1. /\ fs \in Seq(FragsOf(sc)) /\ cd \in Seq(Toks(sc))
      /\ gs \in Seq(FragsOf(sc)) /\ Spoken(sc, cd, <<>>, fs) = Bytes(a)
    BY DEF CodeOk, Parted
<1>2. FlatOf(SpOf(sc), <<>>) = <<>>
    BY FlatOfNone
<1>3. d \in Seq(Byte) /\ f \in Seq(Byte) /\ x \in Seq(Byte)
    BY <1>1, SpokenIn
<1>4. Spoken(sc, cd, <<>>, fs) = (d \o <<>>) \o (x \o f)
    BY <1>2 DEF Spoken, Parted
<1>5. Spoken(sc, cd, w, gs) = (d \o x) \o f
    BY DEF Spoken
<1>6. Moves(d, x, f)
  <2> HIDE DEF d, f
  <2>1. QED BY <1>3, Moving
<1>7. Spoken(sc, cd, w, gs) = Bytes(a)
    BY <1>1, <1>4, <1>5, <1>6 DEF Moves
<1>8. QED BY <1>1, <1>7 DEF CodeOk

\* From the word to the tokens.
LEMMA FromWord ==
    ASSUME NEW a, a # <<>>, NEW sc, NEW fs, NEW w, NEW sy, NEW hp, NEW cd, CodeOk(a, sc, fs, w, sy, hp, cd),
           NEW ts \in Seq(Toks(sc)), FlatOf(DecOf(sc), ts) = FlatOf(SpOf(sc), w)
    PROVE  CodeOk(a, sc, fs, <<>>, <<>>, {}, cd \o ts)
<1> DEFINE d == FlatOf(DecOf(sc), cd)
           x == FlatOf(SpOf(sc), w)
           f == FlatOf(LeftOf(sc), fs)
<1>1. /\ fs \in Seq(FragsOf(sc)) /\ cd \in Seq(Toks(sc)) /\ w \in Seq(UnitsOf(sc))
      /\ Spoken(sc, cd, w, fs) = Bytes(a)
    BY DEF CodeOk
<1>2. FlatOf(SpOf(sc), <<>>) = <<>> /\ <<>> \in Seq(UnitsOf(sc))
    BY FlatOfNone
<1>3. d \in Seq(Byte) /\ f \in Seq(Byte) /\ x \in Seq(Byte)
    BY <1>1, SpokenIn
<1>4. TakenBy(sc, cd, ts)
    BY <1>1, Taking
<1>5. Spoken(sc, cd, w, fs) = (d \o x) \o f
    BY DEF Spoken
<1>6. Spoken(sc, cd \o ts, <<>>, fs) = ((d \o x) \o <<>>) \o f
    BY <1>2, <1>4 DEF Spoken, TakenBy
<1>7. Moves(d, x, f)
  <2> HIDE DEF d, f, x
  <2>1. QED BY <1>3, Moving
<1>8. Spoken(sc, cd \o ts, <<>>, fs) = Bytes(a)
    BY <1>1, <1>5, <1>6, <1>7 DEF Moves
<1>9. QED BY <1>1, <1>2, <1>4, <1>8 DEF CodeOk, TakenBy

-----------------------------------------------------------------------------
(***************************************************************************)
(* The first part of a fragment is past.                                   *)
(***************************************************************************)
TwoParts(S, a, n) ==
    /\ SubSeq(a, 1, n) \in Seq(S) /\ SubSeq(a, n + 1, Len(a)) \in Seq(S)
    /\ a = SubSeq(a, 1, n) \o SubSeq(a, n + 1, Len(a))
    /\ Len(SubSeq(a, 1, n)) = n /\ Len(SubSeq(a, n + 1, Len(a))) = Len(a) - n
    /\ \A i \in 1 .. n : SubSeq(a, 1, n)[i] = a[i]

LEMMA TwoPartsAre ==
    ASSUME NEW S, NEW a \in Seq(S), NEW n \in 0 .. Len(a)
    PROVE  TwoParts(S, a, n)
<1> DEFINE x == SubSeq(a, 1, n)
           y == SubSeq(a, n + 1, Len(a))
<1>1. Len(a) \in Nat /\ n \in Nat /\ n <= Len(a) /\ \A i \in 1 .. Len(a) : a[i] \in S
    OBVIOUS
<1>2. x \in Seq(S) /\ Len(x) = (IF 1 <= n THEN n - 1 + 1 ELSE 0) /\ \A i \in 1 .. n - 1 + 1 : x[i] = a[1 + i - 1]
  <2>1. 1 \in Int /\ n \in Int /\ \A i \in 1 .. n : a[i] \in S
      BY <1>1
  <2>2. QED BY <2>1, SubSeqProperties
<1>3. y \in Seq(S) /\ Len(y) = (IF n + 1 <= Len(a) THEN Len(a) - (n + 1) + 1 ELSE 0)
  <2>1. n + 1 \in Int /\ Len(a) \in Int /\ \A i \in n + 1 .. Len(a) : a[i] \in S
      BY <1>1
  <2>2. QED BY <2>1, SubSeqProperties
<1>4. x \o y = SubSeq(a, 1, Len(a))
  <2>1. 1 \in 1 .. Len(a) + 1 /\ n \in 1 - 1 .. Len(a) /\ Len(a) \in n .. Len(a)
      BY <1>1
  <2>2. QED BY <2>1, ConcatAdjacentSubSeq
<1>5. SubSeq(a, 1, Len(a)) = a
    BY SubSeqFull
<1> HIDE DEF x, y
<1>6. Len(x) = n /\ Len(y) = Len(a) - n /\ \A i \in 1 .. n : x[i] = a[i]
  <2>1. n - 1 + 1 = n /\ \A i \in 1 .. n : 1 + i - 1 = i
      BY <1>1
  <2>2. Len(x) = n
      BY <1>1, <1>2
  <2>3. Len(y) = Len(a) - n
      BY <1>1, <1>3
  <2>4. \A i \in 1 .. n : x[i] = a[i]
      BY <1>2, <2>1
  <2>5. QED BY <2>2, <2>3, <2>4
<1>7. QED BY <1>2, <1>3, <1>4, <1>5, <1>6 DEF TwoParts, x, y

LEMMA TextIs ==
    ASSUME NEW sc, NEW f \in FragsOf(sc), f.kind = "text"
    PROVE  f.of \in Seq(Plain) \ {<<>>} /\ f = TextFrag(f.of)
<1>1. CASE \E t \in Seq(Plain) \ {<<>>} : f = TextFrag(t)
    BY <1>1 DEF TextFrag
<1>2. CASE \E s \in Seq(UnitsOf(sc)) : f = TokFrag(s)
    BY <1>2 DEF TokFrag
<1>3. CASE \E b \in Seq(Byte) : f = BytesFrag(b)
    BY <1>3 DEF BytesFrag
<1>4. QED BY <1>1, <1>2, <1>3 DEF FragsOf

LEMMA TokIs ==
    ASSUME NEW sc, NEW f \in FragsOf(sc), f.kind = "tok"
    PROVE  f.of \in Seq(UnitsOf(sc)) /\ f = TokFrag(f.of)
<1>1. CASE \E t \in Seq(Plain) \ {<<>>} : f = TextFrag(t)
    BY <1>1 DEF TextFrag
<1>2. CASE \E s \in Seq(UnitsOf(sc)) : f = TokFrag(s)
    BY <1>2 DEF TokFrag
<1>3. CASE \E b \in Seq(Byte) : f = BytesFrag(b)
    BY <1>3 DEF BytesFrag
<1>4. QED BY <1>1, <1>2, <1>3 DEF FragsOf

LEMMA BytesAreOther ==
    ASSUME NEW sc, NEW f \in FragsOf(sc), f.kind = "bytes"
    PROVE  sc = "Other" /\ f.of \in Seq(Byte) /\ f = BytesFrag(f.of)
<1>1. CASE \E t \in Seq(Plain) \ {<<>>} : f = TextFrag(t)
    BY <1>1 DEF TextFrag
<1>2. CASE \E s \in Seq(UnitsOf(sc)) : f = TokFrag(s)
    BY <1>2 DEF TokFrag
<1>3. CASE sc = "Other" /\ \E b \in Seq(Byte) : f = BytesFrag(b)
    BY <1>3 DEF BytesFrag
<1>4. QED BY <1>1, <1>2, <1>3 DEF FragsOf

TextPast(sc, fs, n) ==
    LET x == SubSeq(Head(fs).of, 1, n)
    IN  x \in Seq(Plain) /\ Len(x) = n /\ x # <<>> /\ IsPast(sc, fs, n, Bytes(x))

LEMMA TextIsPast ==
    ASSUME NEW sc, NEW fs \in Seq(FragsOf(sc)), fs # <<>>, Head(fs).kind = "text", NEW n \in 1 .. Len(Head(fs).of)
    PROVE  TextPast(sc, fs, n)
<1> DEFINE h == Head(fs)
           a == h.of
           x == SubSeq(a, 1, n)
           y == SubSeq(a, n + 1, Len(a))
           L == LeftOf(sc)
<1>1. h \in FragsOf(sc)
    BY HeadIsLeft DEF HeadLeft
<1>2. a \in Seq(Plain) \ {<<>>} /\ h = TextFrag(a)
    BY <1>1, TextIs
<1> HIDE DEF h
<1>3. Len(a) \in Nat /\ n \in 0 .. Len(a) /\ n \in 1 .. Len(a)
    BY <1>2 DEF h
<1> HIDE DEF a
<1>4. TwoParts(Plain, a, n)
    BY <1>2, <1>3, TwoPartsAre
<1>5. x \in Seq(Plain) /\ y \in Seq(Plain) /\ a = x \o y /\ Len(x) = n /\ Len(y) = Len(a) - n
    BY <1>4 DEF TwoParts
<1> HIDE DEF x, y
<1>6. x # <<>>
    BY <1>3, <1>5
<1>7. x \in Seq(Char) /\ y \in Seq(Char)
    BY <1>5, PlainIsChar
<1>8. Bytes(x) \in Seq(Byte) /\ L[h] = Bytes(a)
    BY <1>2, <1>7, BytesAre, TextLeft
<1>9. n = Len(a) => L[h] = Bytes(x)
  <2>1. n = Len(a) => a = x
    <3>1. n = Len(a) => x = SubSeq(a, 1, Len(a))
        BY DEF x
    <3>2. SubSeq(a, 1, Len(a)) = a
        BY <1>2, SubSeqFull
    <3>3. QED BY <3>1, <3>2
  <2>2. QED BY <1>8, <2>1
<1>10. n # Len(a) => \E f \in FragsOf(sc) : f = [h EXCEPT !.of = y] /\ L[h] = Bytes(x) \o L[f]
  <2> SUFFICES ASSUME n # Len(a) PROVE \E f \in FragsOf(sc) : f = [h EXCEPT !.of = y] /\ L[h] = Bytes(x) \o L[f]
      OBVIOUS
  <2>1. y # <<>>
      BY <1>3, <1>5
  <2>2. TextFrag(y) \in FragsOf(sc) /\ L[TextFrag(y)] = Bytes(y)
      BY <1>5, <2>1, TextLeft
  <2>3. TextFrag(y) = [h EXCEPT !.of = y]
      BY <1>2 DEF TextFrag
  <2>4. BytesSplit(x, y)
      BY <1>7, BytesOfConcat
  <2>5. Bytes(a) = Bytes(x) \o Bytes(y)
      BY <1>5, <2>4 DEF BytesSplit
  <2>6. QED BY <1>8, <2>2, <2>3, <2>5
<1>11. IsPast(sc, fs, n, Bytes(x))
  <2> DEFINE q == Bytes(x)
  <2>0. q \in Seq(Byte)
      BY <1>8
  <2>1. /\ n = Len(Head(fs).of) => L[Head(fs)] = q
        /\ n # Len(Head(fs).of) =>
              \E f \in FragsOf(sc) :
                 f = [Head(fs) EXCEPT !.of = SubSeq(Head(fs).of, n + 1, Len(Head(fs).of))] /\ L[Head(fs)] = q \o L[f]
      BY <1>8, <1>9, <1>10 DEF h, a, y
  <2> HIDE DEF q
  <2>2. IsPast(sc, fs, n, q)
      BY <2>0, <2>1, PastIs DEF L
  <2>3. QED BY <2>2 DEF q
<1>12. QED BY <1>5, <1>6, <1>11 DEF TextPast, h, a, x

LEMMA BytesArePast ==
    ASSUME NEW sc, NEW fs \in Seq(FragsOf(sc)), fs # <<>>, Head(fs).kind = "bytes", NEW x \in Seq(Byte),
           Len(x) <= Len(Head(fs).of), SubSeq(x, 1, Len(x)) = SubSeq(Head(fs).of, 1, Len(x))
    PROVE  IsPast(sc, fs, Len(x), x)
<1> DEFINE h == Head(fs)
           a == h.of
           n == Len(x)
           y == SubSeq(a, n + 1, Len(a))
           L == LeftOf(sc)
<1>1. h \in FragsOf(sc)
    BY HeadIsLeft DEF HeadLeft
<1>2. sc = "Other" /\ a \in Seq(Byte) /\ h = BytesFrag(a)
    BY <1>1, BytesAreOther
<1> HIDE DEF h
<1>3. n \in 0 .. Len(a) /\ Len(a) \in Nat
    BY <1>2 DEF h
<1> HIDE DEF a
<1>4. TwoParts(Byte, a, n)
    BY <1>2, <1>3, TwoPartsAre
<1>5. x = SubSeq(a, 1, n)
  <2>1. SubSeq(x, 1, Len(x)) = x
      BY SubSeqFull
  <2>2. QED BY <2>1 DEF a, h
<1>6. y \in Seq(Byte) /\ a = x \o y
    BY <1>4, <1>5 DEF TwoParts
<1> HIDE DEF y
<1>7. L[h] = a
    BY <1>2, BytesLeft
<1>8. n = Len(a) => L[h] = x
  <2>1. SubSeq(a, 1, Len(a)) = a
      BY <1>2, SubSeqFull
  <2>2. QED BY <1>5, <1>7, <2>1
<1>9. n # Len(a) => \E f \in FragsOf(sc) : f = [h EXCEPT !.of = y] /\ L[h] = x \o L[f]
  <2>1. BytesFrag(y) \in FragsOf(sc) /\ L[BytesFrag(y)] = y
      BY <1>2, <1>6, BytesLeft
  <2>2. BytesFrag(y) = [h EXCEPT !.of = y]
      BY <1>2 DEF BytesFrag
  <2>3. QED BY <1>6, <1>7, <2>1, <2>2
<1>10. QED
  <2>1. /\ n = Len(Head(fs).of) => L[Head(fs)] = x
        /\ n # Len(Head(fs).of) =>
              \E f \in FragsOf(sc) :
                 f = [Head(fs) EXCEPT !.of = SubSeq(Head(fs).of, n + 1, Len(Head(fs).of))] /\ L[Head(fs)] = x \o L[f]
      BY <1>8, <1>9 DEF h, a, y
  <2> HIDE DEF n
  <2>2. IsPast(sc, fs, n, x)
      BY <2>1, PastIs DEF L
  <2>3. QED BY <2>2 DEF n

-----------------------------------------------------------------------------
(***************************************************************************)
(* Each step keeps the invariant.                                          *)
(***************************************************************************)
CutRight(s, f) == f \in FragsOf(s) /\ LeftOf(s)[f] = CutBytes(SpecialSet)[f]

LEMMA CutsAreFrags ==
    ASSUME NEW s, NEW f \in Cuts(SpecialSet)
    PROVE  CutRight(s, f)
<1>0. CutBytes(SpecialSet)[f] = Bytes(f.of)
    BY DEF CutBytes
<1>1. CASE \E t \in Seq(Plain) \ {<<>>} : f = TextFrag(t)
  <2>1. PICK t \in Seq(Plain) \ {<<>>} : f = TextFrag(t)
      BY <1>1
  <2>2. f.of = t
      BY <2>1 DEF TextFrag
  <2>3. QED BY <1>0, <2>1, <2>2, TextLeft DEF CutRight
<1>2. CASE \E t \in SpecialSet \cap Seq(Plain) : f = TokFrag(t)
  <2>1. PICK t \in SpecialSet \cap Seq(Plain) : f = TokFrag(t)
      BY <1>2
  <2>2. f.of = t
      BY <2>1 DEF TokFrag
  <2>3. ReadAs(s, t)
      BY SpecialsRead
  <2>4. QED BY <1>0, <2>1, <2>2, <2>3, TokLeft DEF CutRight, ReadAs
<1>3. QED BY <1>1, <1>2 DEF Cuts

Started(s, t, fs) == fs \in Seq(FragsOf(s)) /\ FlatOf(LeftOf(s), fs) = Bytes(t)

LEMMA StartedByParts ==
    ASSUME NEW s, NEW t \in Seq(Plain), NEW sp \in Seq(SpecialSet)
    PROVE  Started(s, t, Partition(t, sp))
<1> DEFINE X == Cuts(SpecialSet)
           fs == Partition(t, sp)
           F == FragsOf(s)
           L == LeftOf(s)
           C == CutBytes(SpecialSet)
<1>1. fs \in Seq(X) /\ FlatOf(C, fs) = Bytes(t)
  <2>1. Written(SpecialSet)
      BY SpecialsWritten
  <2>2. PartitionSays(SpecialSet, t, sp)
      BY <2>1, PartitionIs
  <2>3. QED BY <2>2 DEF PartitionSays
<1>2. \A f \in X : f \in F /\ L[f] = C[f]
    BY CutsAreFrags DEF CutRight
<1> HIDE DEF X, fs, F, L, C
<1>3. X \subseteq F
    BY <1>2
<1>4. fs \in Seq(F)
    BY <1>1, <1>3, SeqWider
<1>5. FlatOf(L, fs) = FlatOf(C, fs)
  <2>1. \A f \in X : L[f] = C[f]
      BY <1>2
  <2>2. QED BY <1>1, <2>1, FlatOfSame
<1>6. QED BY <1>1, <1>4, <1>5 DEF Started, F, L, fs

LEMMA StartedByBytes ==
    ASSUME NEW t \in Seq(Plain)
    PROVE  Started("Other", t, << BytesFrag(Bytes(t)) >>)
<1> DEFINE b == Bytes(t)
           f == BytesFrag(b)
           L == LeftOf("Other")
<1>1. b \in Seq(Byte)
  <2>1. t \in Seq(Char)
      BY PlainIsChar
  <2>2. QED BY <2>1, BytesAre
<1> HIDE DEF b
<1>2. f \in FragsOf("Other") /\ L[f] = b
    BY <1>1, BytesLeft
<1> HIDE DEF f, L
<1>3. FlatOf(L, << f >>) = L[f]
    BY <1>1, <1>2, FlatOfOne
<1>4. << f >> \in Seq(FragsOf("Other"))
    BY <1>2
<1>5. QED BY <1>2, <1>3, <1>4 DEF Started, f, L, b

LEMMA EncodeKeeps ==
    ASSUME CodeInv, Encode
    PROVE  CodeInv'
<1>1. asked = <<>> /\ frags = <<>> /\ word = <<>> /\ coded = <<>> /\ syms = <<>> /\ heap = {}
    BY DEF CodeInv, CodeOk, Encode
<1>2. PICK t \in Texts, s \in Schemes, special \in BOOLEAN :
         /\ asked' = t /\ scheme' = s
         /\ frags' = IF s = "Other" THEN <<[kind |-> "bytes", of |-> Bytes(t)]>>
                     ELSE Partition(t, (IF special THEN Specials ELSE <<>>) \o UserSpecials)
    BY DEF Encode
<1>3. t \in Seq(Plain) /\ t # <<>>
    BY TokenizerAssumption DEF TokenizerAssumption, Plain
<1>4. Started(s, t, frags')
  <2>1. CASE s = "Other"
    <3>1. frags' = << BytesFrag(Bytes(t)) >>
        BY <1>2, <2>1 DEF BytesFrag
    <3>2. QED BY <1>3, <2>1, <3>1, StartedByBytes
  <2>2. CASE s # "Other"
    <3> DEFINE sp == (IF special THEN Specials ELSE <<>>) \o UserSpecials
    <3>1. sp \in Seq(SpecialSet)
      <4> DEFINE one == IF special THEN Specials ELSE <<>>
      <4>1. one \in Seq(SpecialSet) /\ UserSpecials \in Seq(SpecialSet)
          BY SpecialsWritten
      <4> HIDE DEF one
      <4>2. one \o UserSpecials \in Seq(SpecialSet)
          BY <4>1
      <4>3. QED BY <4>2 DEF one
    <3>2. frags' = Partition(t, sp)
        BY <1>2, <2>2
    <3> HIDE DEF sp
    <3>3. QED BY <1>3, <3>1, <3>2, StartedByParts
  <2>3. QED BY <2>1, <2>2
<1>5. word' = <<>> /\ syms' = <<>> /\ heap' = {} /\ coded' = <<>>
    BY <1>1 DEF Encode
<1> DEFINE fs == frags'
<1> HIDE DEF fs
<1>6. fs \in Seq(FragsOf(s)) /\ FlatOf(LeftOf(s), fs) = Bytes(t)
    BY <1>4 DEF Started, fs
<1>7. Spoken(s, <<>>, <<>>, fs) = Bytes(t)
  <2>1. FlatOf(DecOf(s), <<>>) = <<>> /\ FlatOf(SpOf(s), <<>>) = <<>>
      BY FlatOfNone
  <2>2. Bytes(t) \in Seq(Byte)
    <3>1. t \in Seq(Char)
        BY <1>3, PlainIsChar
    <3>2. QED BY <3>1, BytesAre
  <2>3. <<>> \o <<>> = <<>> /\ <<>> \o Bytes(t) = Bytes(t)
      BY <2>2, ConcatEmptySeq
  <2>4. QED BY <1>6, <2>1, <2>3 DEF Spoken
<1>8. <<>> \in Seq(UnitsOf(s)) /\ <<>> \in Seq(Toks(s))
    OBVIOUS
<1>9. CodeOk(t, s, fs, <<>>, <<>>, {}, <<>>)
    BY <1>3, <1>6, <1>7, <1>8 DEF CodeOk
<1>10. QED BY <1>2, <1>5, <1>9 DEF CodeInv, fs

\* What every step on the fragments begins with.
TodoRight ==
    /\ asked # <<>> /\ scheme \in Schemes /\ frags \in Seq(FragsOf(scheme)) /\ frags # <<>>
    /\ word = <<>> /\ syms = <<>> /\ heap = {}
    /\ CodeOk(asked, scheme, frags, <<>>, <<>>, {}, coded) /\ coded \in Seq(Toks(scheme))

LEMMA TodoIs ==
    ASSUME CodeInv, Todo
    PROVE  TodoRight
BY DEF CodeInv, CodeOk, Todo, TodoRight

LEMMA SpecialTokenKeeps ==
    ASSUME CodeInv, SpecialToken
    PROVE  CodeInv'
<1> DEFINE f == Head(frags)
           r == Tail(frags)
           x == FlatOf(SpOf(scheme), f.of)
<1>1. TodoRight
    BY TodoIs DEF SpecialToken
<1>2. HeadLeft(scheme, frags)
    BY <1>1, HeadIsLeft DEF TodoRight
<1>3. f \in FragsOf(scheme) /\ f.kind = "tok" /\ r \in Seq(FragsOf(scheme))
      /\ FlatOf(LeftOf(scheme), frags) = LeftOf(scheme)[f] \o FlatOf(LeftOf(scheme), r)
    BY <1>2 DEF HeadLeft, SpecialToken
<1>4. coded' = Append(coded, f) /\ frags' = r /\ UNCHANGED <<asked, scheme, word, syms, heap>>
    BY DEF SpecialToken
<1> HIDE DEF f, r
<1>5. f.of \in Seq(UnitsOf(scheme)) /\ f = TokFrag(f.of)
    BY <1>3, TokIs
<1>6. LeftOf(scheme)[f] = x
    BY <1>5, TokLeft
<1>7. f \in Toks(scheme) /\ DecOf(scheme)[f] = x
  <2>1. SpecialIs(scheme, f.of)
      BY <1>5, SpecialToks
  <2>2. QED BY <1>5, <2>1 DEF SpecialIs
<1>8. x \in Seq(Byte)
    BY <1>5, TokLeft
<1> HIDE DEF x
<1> DEFINE ts == << f >>
<1>9. ts \in Seq(Toks(scheme)) /\ FlatOf(DecOf(scheme), ts) = x
    BY <1>7, <1>8, FlatOfOne
<1>10. Parted(scheme, frags, r, x)
    BY <1>3, <1>6 DEF Parted
<1>11. coded' = coded \o ts
    BY <1>1, <1>4, <1>7 DEF TodoRight
<1> HIDE DEF ts
<1>12. CodeOk(asked, scheme, r, <<>>, <<>>, {}, coded \o ts)
    BY <1>1, <1>9, <1>10, ToTokens DEF TodoRight
<1>13. QED BY <1>1, <1>4, <1>11, <1>12 DEF TodoRight, CodeInv

LEMMA LongestKeeps ==
    ASSUME CodeInv, Longest
    PROVE  CodeInv'
<1> DEFINE f == Head(frags)
<1>1. TodoRight
    BY TodoIs DEF Longest
<1>2. f \in FragsOf(scheme) /\ f.kind = "bytes"
  <2>1. HeadLeft(scheme, frags)
      BY <1>1, HeadIsLeft DEF TodoRight
  <2>2. QED BY <2>1 DEF HeadLeft, Longest
<1>3. scheme = "Other" /\ f.of \in Seq(Byte)
    BY <1>2, BytesAreOther
<1>4. PICK p \in Known["Other"] :
         /\ IsPrefix(Spelt(p), Ahead)
         /\ coded' = Append(coded, PieceTok(p)) /\ PastTo(Len(Spelt(p)))
    BY DEF Longest
<1>5. UNCHANGED <<word, syms, heap>> /\ UNCHANGED <<asked, scheme>>
    BY <1>4 DEF Longest, PastTo
<1> DEFINE x == Spelt(p)
           gs == PastOf(frags, Len(x))
           ts == << PieceTok(p) >>
<1>6. p \in Seq(UnitsOf(scheme))
    BY <1>3, TokenizerAssumption DEF TokenizerAssumption, Schemes
<1>7. x = FlatOf(SpOf(scheme), p)
    BY <1>6, SpeltIs
<1>8. x \in Seq(Byte)
    BY <1>6, <1>7, UnitsSpell, FlatOfIn
<1>9. Len(x) <= Len(f.of) /\ SubSeq(x, 1, Len(x)) = SubSeq(f.of, 1, Len(x))
    BY <1>4 DEF IsPrefix, Ahead
<1>10. frags' = gs
    BY <1>4 DEF PastTo, PastOf, Ahead
<1> HIDE DEF x
<1>11. IsPast(scheme, frags, Len(x), x)
    BY <1>1, <1>2, <1>8, <1>9, BytesArePast DEF TodoRight
<1> HIDE DEF gs
<1>12. Parted(scheme, frags, gs, x)
    BY <1>11 DEF IsPast, Parted, gs
<1>13. PieceIs(scheme, p)
    BY <1>6, PieceToks
<1>14. ts \in Seq(Toks(scheme)) /\ FlatOf(DecOf(scheme), ts) = x
  <2> DEFINE t == PieceTok(p)
  <2>1. t \in Toks(scheme) /\ DecOf(scheme)[t] = x
      BY <1>7, <1>13 DEF PieceIs
  <2> HIDE DEF t
  <2>2. << t >> \in Seq(Toks(scheme)) /\ FlatOf(DecOf(scheme), << t >>) = x
      BY <1>8, <2>1, FlatOfOne
  <2>3. QED BY <2>2 DEF t
<1>15. coded' = coded \o ts
  <2>1. PieceTok(p) \in Toks(scheme) /\ coded \in Seq(Toks(scheme))
      BY <1>1, <1>13 DEF PieceIs, TodoRight
  <2>2. QED BY <1>4, <2>1
<1> HIDE DEF ts
<1>16. CodeOk(asked, scheme, gs, <<>>, <<>>, {}, coded \o ts)
    BY <1>1, <1>12, <1>14, ToTokens DEF TodoRight
<1>17. QED BY <1>1, <1>5, <1>10, <1>15, <1>16 DEF TodoRight, CodeInv

-----------------------------------------------------------------------------
WordSaid(sc, w) == \A i \in 1 .. Len(w) : w[i] \in UnitsOf(sc) /\ << w[i] >> \in Known[sc]

LEMMA OpenedKeeps ==
    ASSUME TodoRight, scheme \in {"Qwen35", "Qwen2", "Gemma"},
           NEW w \in Seq(UnitsOf(scheme)), w # <<>>, WordSaid(scheme, w), Opened(w),
           NEW gs, NEW x, Parted(scheme, frags, gs, x), FlatOf(SpOf(scheme), w) = x,
           frags' = gs, UNCHANGED <<asked, scheme>>
    PROVE  CodeInv'
<1>1. CodeOk(asked, scheme, frags, <<>>, <<>>, {}, coded) /\ asked # <<>> /\ coded \in Seq(Toks(scheme))
      /\ frags \in Seq(FragsOf(scheme)) /\ word = <<>> /\ syms = <<>> /\ heap = {} /\ scheme \in Schemes
    BY DEF TodoRight
<1>2. CASE scheme \in WholeWords /\ w \in Known[scheme]
  <2> DEFINE t == PieceTok(w)
             ts == << t >>
  <2>1. coded' = Append(coded, t) /\ UNCHANGED <<word, syms, heap>>
      BY <1>2 DEF Opened
  <2>2. PieceIs(scheme, w)
      BY PieceToks
  <2>3. t \in Toks(scheme) /\ DecOf(scheme)[t] = x
      BY <2>2 DEF PieceIs
  <2>4. x \in Seq(Byte)
      BY UnitsSpell, FlatOfIn
  <2> HIDE DEF t
  <2>5. ts \in Seq(Toks(scheme)) /\ FlatOf(DecOf(scheme), ts) = x
      BY <2>3, <2>4, FlatOfOne
  <2>6. coded' = coded \o ts
    <3> DEFINE T == Toks(scheme)
    <3>1. coded \in Seq(T) /\ t \in T
        BY <1>1, <2>3
    <3> HIDE DEF T
    <3>2. Append(coded, t) = coded \o ts
        BY <3>1
    <3>3. QED BY <2>1, <3>2
  <2> HIDE DEF ts
  <2>7. CodeOk(asked, scheme, gs, <<>>, <<>>, {}, coded \o ts)
      BY <1>1, <2>5, ToTokens
  <2>8. QED BY <1>1, <2>1, <2>6, <2>7 DEF CodeInv
<1>3. CASE ~(scheme \in WholeWords /\ w \in Known[scheme])
  <2> DEFINE hp == UNION {BigramIn(Merges[scheme], w, Ones(w), i - 1, i) : i \in 2 .. Len(w)}
  <2>1. Begun(w) /\ UNCHANGED coded
      BY <1>3 DEF Opened
  <2>2. word' = w /\ syms' = Ones(w) /\ heap' = UNION {Bigram(w, Ones(w), i - 1, i) : i \in 2 .. Len(w)}
      BY <2>1 DEF Begun, Ones
  <2>3. heap' = hp
      BY <2>2, BigramIs
  <2>4. \A i \in 1 .. Len(w) : SaidAs(scheme, << w[i] >>)
    <3>1. ASSUME NEW i \in 1 .. Len(w) PROVE SaidAs(scheme, << w[i] >>)
      <4>1. w[i] \in UnitsOf(scheme) /\ << w[i] >> \in Known[scheme]
          BY DEF WordSaid
      <4>2. << w[i] >> \in Seq(UnitsOf(scheme))
          BY <4>1
      <4>3. QED BY <4>1, <4>2 DEF SaidAs
    <3>2. QED BY <3>1
  <2>5. WordOk(scheme, w, Ones(w), hp)
      BY <1>1, <2>4, WordBegun
  <2> DEFINE sz == Ones(w)
  <2> HIDE DEF hp, sz
  <2>6. WordOk(scheme, w, sz, hp)
      BY <2>5 DEF sz
  <2>7. CodeOk(asked, scheme, gs, w, sz, hp, coded)
      BY <1>1, <2>6, ToWord
  <2>8. QED BY <2>1, <2>2, <2>3, <2>7 DEF CodeInv, sz
<1>4. QED BY <1>2, <1>3

\* A piece of every byte.
LEMMA BytesAreKnown ==
    ASSUME scheme \in {"Qwen35", "Qwen2"}, NEW w \in Seq(Range(B2c))
    PROVE  WordSaid(scheme, w)
<1> SUFFICES ASSUME NEW i \in 1 .. Len(w)
             PROVE  w[i] \in UnitsOf(scheme) /\ << w[i] >> \in Known[scheme]
    BY DEF WordSaid
<1>1. w[i] \in Range(B2c)
    OBVIOUS
<1>2. PICK b \in Byte : w[i] = B2c[b]
    BY <1>1, TokenizerAssumption DEF Range, TokenizerAssumption
<1>3. << B2c[b] >> \in Known[scheme]
    BY TokenizerAssumption DEF TokenizerAssumption
<1>4. QED BY <1>1, <1>2, <1>3 DEF UnitsOf

LEMMA NextWordKeeps ==
    ASSUME CodeInv, NextWord
    PROVE  CodeInv'
<1> DEFINE n == WordEnd(Ahead)
           t == SubSeq(Ahead, 1, n)
           w == Units(t)
           x == Bytes(t)
           gs == PastOf(frags, n)
<1>1. TodoRight
    BY TodoIs DEF NextWord, InText
<1>2. scheme \in {"Qwen35", "Qwen2"} /\ Head(frags).kind = "text" /\ Opened(w) /\ PastTo(n)
    BY DEF NextWord, InText
<1>3. Ahead = Head(frags).of /\ Ahead \in Seq(Plain) \ {<<>>}
  <2>1. HeadLeft(scheme, frags)
      BY <1>1, HeadIsLeft DEF TodoRight
  <2>2. Head(frags).of \in Seq(Plain) \ {<<>>}
      BY <1>2, <2>1, TextIs DEF HeadLeft
  <2>3. QED BY <2>2 DEF Ahead
<1>4. n \in 1 .. Len(Head(frags).of)
  <2>1. n \in 1 .. Len(Ahead)
      BY <1>3, WordEnds
  <2>2. QED BY <1>3, <2>1
<1> HIDE DEF n
<1>5. TextPast(scheme, frags, n)
    BY <1>1, <1>2, <1>4, TextIsPast DEF TodoRight
<1>6. t \in Seq(Plain) /\ Len(t) = n /\ t # <<>> /\ IsPast(scheme, frags, n, x)
    BY <1>3, <1>5 DEF TextPast
<1> HIDE DEF t
<1>7. UnitsSay(t)
    BY <1>6, UnitsDo
<1> HIDE DEF w, x, gs
<1>8. w \in Seq(UnitsOf(scheme)) /\ FlatOf(SpOf(scheme), w) = x /\ w \in Seq(Range(B2c))
    BY <1>2, <1>7 DEF UnitsSay, w, x
<1>9. w # <<>>
  <2>1. CASE x = <<>>
    <3> DEFINE c == t[1]
               r == Tail(t)
    <3>1. c \in Plain /\ r \in Seq(Plain) /\ t = << c >> \o r
        BY <1>6
    <3> HIDE DEF c, r
    <3>2. c \in Char /\ << c >> \in Seq(Char) /\ r \in Seq(Char)
      <4>1. c \in Char
          BY <3>1 DEF Plain
      <4>2. << c >> \in Seq(Char)
          BY <4>1
      <4>3. r \in Seq(Char)
          BY <3>1, PlainIsChar
      <4>4. QED BY <4>1, <4>2, <4>3
    <3>3. BytesSplit(<< c >>, r)
        BY <3>2, BytesOfConcat
    <3>4. x = Bytes(<< c >>) \o Bytes(r)
        BY <3>1, <3>3 DEF BytesSplit, x
    <3>5. Bytes(<< c >>) = Utf8[c]
      <4>1. Utf8[c] \in Seq(Byte)
          BY <3>2, CharsHaveBytes DEF Spells
      <4>2. FlatOf(Utf8, << c >>) = Utf8[c]
          BY <4>1, FlatOfOne
      <4>3. QED BY <3>2, <4>2, BytesAre
    <3>6. Utf8[c] \in Seq(Byte) /\ Utf8[c] # <<>> /\ Bytes(r) \in Seq(Byte)
        BY <3>2, BytesAre, TokenizerAssumption DEF TokenizerAssumption
    <3> DEFINE a == Utf8[c]
               d == Bytes(r)
    <3>7. a \in Seq(Byte) /\ a # <<>> /\ d \in Seq(Byte) /\ a \o d = <<>>
        BY <2>1, <3>4, <3>5, <3>6
    <3> HIDE DEF a, d
    <3>8. FALSE
        BY <3>7
    <3>9. QED BY <3>8
  <2>2. CASE x # <<>>
      BY <1>8, <2>2, FlatOfNone
  <2>3. QED BY <2>1, <2>2
<1>10. WordSaid(scheme, w)
    BY <1>2, <1>8, BytesAreKnown
<1>11. frags' = gs /\ UNCHANGED <<asked, scheme>>
    BY <1>2 DEF PastTo, PastOf, Ahead, gs
<1>12. Parted(scheme, frags, gs, x)
    BY <1>6 DEF IsPast, Parted, gs
<1>13. QED BY <1>1, <1>2, <1>8, <1>9, <1>10, <1>11, <1>12, OpenedKeeps

-----------------------------------------------------------------------------
\* With Gemma the units of a part are a part of the units.
LEMMA GemmaPart ==
    ASSUME scheme = "Gemma", NEW a \in Seq(Plain), NEW n \in 1 .. Len(a)
    PROVE  Units(SubSeq(a, 1, n)) = SubSeq(Units(a), 1, n)
<1> DEFINE t == SubSeq(a, 1, n)
           u == Units(a)
           x == Units(t)
           y == SubSeq(u, 1, n)
           U == UnitsOf(scheme)
<1>1. n \in 0 .. Len(a) /\ Len(a) \in Nat /\ n \in Nat
    OBVIOUS
<1>2. t \in Seq(Plain) /\ Len(t) = n /\ \A i \in 1 .. n : t[i] = a[i]
    BY <1>1, TwoPartsAre DEF TwoParts
<1>3. u \in Seq(U) /\ Len(u) = Len(a) /\ x \in Seq(U) /\ Len(x) = n
  <2>1. UnitsSay(a)
      BY UnitsDo
  <2> HIDE DEF t
  <2>2. UnitsSay(t)
      BY <1>2, UnitsDo
  <2>3. QED BY <1>2, <2>1, <2>2 DEF UnitsSay
<1>4. u = [i \in DOMAIN a |-> GemmaUnit(a[i])] /\ x = [i \in DOMAIN t |-> GemmaUnit(t[i])]
    BY DEF Units, GemmaUnit
<1> HIDE DEF u, t, x, U
<1>5. y \in Seq(U) /\ Len(y) = n /\ \A i \in 1 .. n : y[i] = u[i]
  <2>1. n \in 0 .. Len(u)
      BY <1>1, <1>3
  <2>2. QED BY <1>3, <2>1, TwoPartsAre DEF TwoParts
<1>6. \A i \in 1 .. n : x[i] = y[i]
  <2>1. ASSUME NEW i \in 1 .. n PROVE x[i] = y[i]
    <3>1. i \in DOMAIN a /\ i \in DOMAIN t
        BY <1>1, <1>2
    <3>2. u[i] = GemmaUnit(a[i]) /\ x[i] = GemmaUnit(t[i])
        BY <1>4, <3>1
    <3>3. QED BY <1>2, <1>5, <3>2
  <2>2. QED BY <2>1
<1> HIDE DEF y
<1>7. x = y
    BY <1>3, <1>5, <1>6, SeqEqual
<1>8. QED BY <1>7 DEF x, y, u, t

LEMMA GemmaRunKeeps ==
    ASSUME CodeInv, GemmaRun
    PROVE  CodeInv'
<1> DEFINE a == Ahead
           u == Units(a)
           class == {c \in Char : << c >> \in Known["Gemma"]}
           n == RunEnd(u, 1, class)
<1>1. TodoRight
    BY TodoIs DEF GemmaRun, InText
<1>2. /\ scheme = "Gemma" /\ Head(frags).kind = "text"
      /\ \/ n > 0 /\ Opened(SubSeq(u, 1, n)) /\ PastTo(n)
         \/ ~(n > 0) /\ coded' = coded \o ByteToks(<< u[1] >>) /\ PastTo(1) /\ UNCHANGED <<word, syms, heap>>
    BY DEF GemmaRun, InText
<1>3. a = Head(frags).of /\ a \in Seq(Plain) \ {<<>>}
  <2>1. HeadLeft(scheme, frags)
      BY <1>1, HeadIsLeft DEF TodoRight
  <2>2. Head(frags).of \in Seq(Plain) \ {<<>>}
      BY <1>2, <2>1, TextIs DEF HeadLeft
  <2>3. QED BY <2>2 DEF Ahead
<1>4. u \in Seq(UnitsOf(scheme)) /\ Len(u) = Len(a) /\ Len(a) \in Nat /\ Len(a) >= 1
  <2>1. UnitsSay(a)
      BY <1>3, UnitsDo
  <2>2. QED BY <1>2, <1>3, <2>1 DEF UnitsSay
<1>5. RunIs(u, 1, class)
  <2>1. 1 \in 1 .. Len(u) + 1
      BY <1>4
  <2> HIDE DEF u, class
  <2>2. QED BY <1>4, <2>1, RunEnds
<1>6. u = [i \in DOMAIN a |-> GemmaUnit(a[i])]
    BY <1>2 DEF Units, GemmaUnit
<1>7. n \in 0 .. Len(a) /\ (\A k \in 1 .. n : u[k] \in class) /\ (u[1] \in class => n >= 1)
  <2> HIDE DEF u, class
  <2>1. n \in 1 - 1 .. Len(u) /\ (\A k \in 1 .. n : u[k] \in class) /\ (1 <= Len(u) /\ u[1] \in class => n >= 1)
      BY <1>5 DEF RunIs
  <2>2. QED BY <1>4, <2>1
<1> HIDE DEF a, u, n, class
<1>8. CASE n > 0 /\ Opened(SubSeq(u, 1, n)) /\ PastTo(n)
  <2> DEFINE t == SubSeq(a, 1, n)
             w == SubSeq(u, 1, n)
             x == Bytes(t)
             gs == PastOf(frags, n)
  <2>1. n \in 1 .. Len(a)
      BY <1>4, <1>7, <1>8
  <2>2. TextPast(scheme, frags, n)
    <3>1. n \in 1 .. Len(Head(frags).of)
        BY <1>3, <2>1
    <3>2. QED BY <1>1, <1>2, <3>1, TextIsPast DEF TodoRight
  <2>3. t \in Seq(Plain) /\ Len(t) = n /\ IsPast(scheme, frags, n, x)
      BY <1>3, <2>2 DEF TextPast
  <2>4. w = Units(t)
      BY <1>2, <1>3, <2>1, GemmaPart DEF u
  <2>5. \A i \in 1 .. n : w[i] = u[i]
    <3>1. n \in 0 .. Len(u)
        BY <1>4, <1>7
    <3>2. QED BY <1>4, <3>1, TwoPartsAre DEF TwoParts
  <2> HIDE DEF t, w, gs, x
  <2>6. UnitsSay(t)
      BY <2>3, UnitsDo
  <2>7. w \in Seq(UnitsOf(scheme)) /\ FlatOf(SpOf(scheme), w) = x /\ Len(w) = n
      BY <1>2, <2>3, <2>4, <2>6 DEF UnitsSay, x
  <2>8. w # <<>>
      BY <2>1, <2>7
  <2>9. WordSaid(scheme, w)
    <3> SUFFICES ASSUME NEW i \in 1 .. Len(w)
                 PROVE  w[i] \in UnitsOf(scheme) /\ << w[i] >> \in Known[scheme]
        BY DEF WordSaid
    <3>1. w[i] \in class
        BY <1>7, <2>5, <2>7
    <3>2. QED BY <1>2, <3>1 DEF class, UnitsOf
  <2>10. frags' = gs /\ UNCHANGED <<asked, scheme>>
      BY <1>8 DEF PastTo, PastOf, Ahead, gs
  <2>11. Parted(scheme, frags, gs, x)
      BY <2>3 DEF IsPast, Parted, gs
  <2>12. Opened(w) /\ scheme \in {"Qwen35", "Qwen2", "Gemma"}
      BY <1>2, <1>8 DEF w
  <2>13. QED BY <1>1, <2>7, <2>8, <2>9, <2>10, <2>11, <2>12, OpenedKeeps
<1>9. CASE ~(n > 0) /\ coded' = coded \o ByteToks(<< u[1] >>) /\ PastTo(1) /\ UNCHANGED <<word, syms, heap>>
  <2> DEFINE t == SubSeq(a, 1, 1)
             c == a[1]
             x == Bytes(t)
             gs == PastOf(frags, 1)
             ts == ByteToks(<< u[1] >>)
  <2>1. 1 \in 1 .. Len(a) /\ 1 \in 0 .. Len(a)
      BY <1>4
  <2>2. TextPast(scheme, frags, 1)
    <3>1. 1 \in 1 .. Len(Head(frags).of)
        BY <1>3, <2>1
    <3>2. QED BY <1>1, <1>2, <3>1, TextIsPast DEF TodoRight
  <2>3. t \in Seq(Plain) /\ Len(t) = 1 /\ IsPast(scheme, frags, 1, x)
      BY <1>3, <2>2 DEF TextPast
  <2>4. t[1] = c /\ c \in Plain
      BY <1>3, <2>1, TwoPartsAre DEF TwoParts
  <2> HIDE DEF t, c
  <2>5. t = << c >>
      BY <2>3, <2>4
  <2>6. u[1] \notin class
      BY <1>7, <1>9
  <2>7. u[1] = GemmaUnit(c)
    <3>1. 1 \in DOMAIN a
        BY <1>3, <2>1
    <3>2. QED BY <1>6, <3>1 DEF c
  <2>8. "_" \in class
      BY TokenizerAssumption DEF TokenizerAssumption, class
  <2>9. u[1] = c
      BY <2>6, <2>7, <2>8 DEF GemmaUnit
  <2>10. ts = ByteToks(t)
      BY <2>5, <2>9
  <2>11. t \in Seq(Char)
      BY <2>3, PlainIsChar
  <2>12. BytesSaid(scheme, t)
      BY <2>11, ByteToksSay
  <2> HIDE DEF ts, x, gs
  <2>13. ts \in Seq(Toks(scheme)) /\ FlatOf(DecOf(scheme), ts) = x
      BY <2>10, <2>12 DEF BytesSaid, x
  <2>14. frags' = gs /\ UNCHANGED <<asked, scheme>>
      BY <1>9 DEF PastTo, PastOf, Ahead, gs
  <2>15. Parted(scheme, frags, gs, x)
      BY <2>3 DEF IsPast, Parted, gs
  <2>16. CodeOk(asked, scheme, gs, <<>>, <<>>, {}, coded \o ts)
      BY <1>1, <2>13, <2>15, ToTokens DEF TodoRight
  <2>17. coded' = coded \o ts /\ word' = <<>> /\ syms' = <<>> /\ heap' = {}
      BY <1>1, <1>9 DEF TodoRight, ts
  <2>18. QED BY <2>14, <2>16, <2>17 DEF CodeInv
<1>10. QED BY <1>2, <1>8, <1>9

-----------------------------------------------------------------------------
\* The pairs PopPair pushes.
NewPairs(b, joined) ==
    LET before == {i \in 1 .. b.li - 1 : joined[i] > 0}
        after == {i \in b.ri + 1 .. Len(word) : joined[i] > 0}
    IN  (IF before = {} THEN {} ELSE Bigram(word, joined, Max(before), b.li))
            \cup (IF after = {} THEN {} ELSE Bigram(word, joined, b.li, Min(after)))

LEMMA NewPairsAre ==
    ASSUME NEW b, NEW J
    PROVE  NewPairs(b, J) = NewIn(Merges[scheme], word, J, b.li, b.ri)
BY BigramIs DEF NewPairs, NewIn

LEMMA PoppedIsLeast ==
    ASSUME NEW ms, NEW w, heap # {}, \A b \in heap : HeapPair(ms, w, b)
    PROVE  LeastOf(heap, Popped)
<1>1. PICK b : LeastOf(heap, b)
    BY LeastOfHeap
<1>2. b \in heap /\ \A c \in heap : b.rank < c.rank \/ (b.rank = c.rank /\ b.li <= c.li)
    BY <1>1 DEF LeastOf
<1>3. /\ Popped \in heap
      /\ \A c \in heap : Popped.rank < c.rank \/ (Popped.rank = c.rank /\ Popped.li <= c.li)
    BY <1>2 DEF Popped
<1>4. QED BY <1>3 DEF LeastOf

LEMMA PopPairKeeps ==
    ASSUME CodeInv, PopPair
    PROVE  CodeInv'
<1> DEFINE b == Popped
           J == [syms EXCEPT ![b.li] = @ + syms[b.ri], ![b.ri] = 0]
           ms == Merges[scheme]
<1>1. heap # {} /\ UNCHANGED <<asked, scheme, frags, word, coded>>
    BY DEF PopPair
<1>2. CodeOk(asked, scheme, frags, word, syms, heap, coded)
    BY DEF CodeInv
<1>3. /\ word # <<>> /\ scheme \in {"Qwen35", "Qwen2", "Gemma"}
      /\ WordOk(scheme, word, syms, heap) /\ word \in Seq(UnitsOf(scheme)) /\ scheme \in Schemes
    BY <1>1, <1>2 DEF CodeOk
<1>4. LeastOf(heap, b)
  <2>1. \A c \in heap : HeapPair(ms, word, c)
      BY <1>3 DEF WordOk, HeapOk
  <2> HIDE DEF ms
  <2>2. QED BY <1>1, <2>1, PoppedIsLeast
<1>5. b \in heap
    BY <1>4 DEF LeastOf
<1>6. \/ Stale(b) /\ heap' = heap \ {b} /\ UNCHANGED syms
      \/ ~Stale(b) /\ heap' = (heap \ {b}) \cup NewPairs(b, J) /\ syms' = J
    BY DEF PopPair, NewPairs
<1>7. J = JoinedAt(syms, b.li, b.ri)
    BY DEF JoinedAt
<1> HIDE DEF b, J
<1>8. WordOk(scheme, word, syms', heap')
  <2>1. CASE Stale(b) /\ heap' = heap \ {b} /\ UNCHANGED syms
    <3>1. ~FreshIn(syms, b)
        BY <2>1 DEF Stale, FreshIn
    <3>2. WordOk(scheme, word, syms, heap \ {b})
        BY <1>3, <1>5, <3>1, PairStale
    <3>3. QED BY <2>1, <3>2
  <2>2. CASE ~Stale(b) /\ heap' = (heap \ {b}) \cup NewPairs(b, J) /\ syms' = J
    <3>1. FreshIn(syms, b)
        BY <2>2 DEF Stale, FreshIn
    <3>2. WordOk(scheme, word, JoinedAt(syms, b.li, b.ri),
                 (heap \ {b}) \cup NewIn(Merges[scheme], word, JoinedAt(syms, b.li, b.ri), b.li, b.ri))
        BY <1>3, <1>4, <3>1, PairJoined
    <3>3. NewPairs(b, J) = NewIn(Merges[scheme], word, J, b.li, b.ri)
        BY NewPairsAre
    <3>4. QED BY <1>7, <2>2, <3>2, <3>3
  <2>3. QED BY <1>6, <2>1, <2>2
<1>9. CodeOk(asked, scheme, frags, word, syms', heap', coded)
    BY <1>2, <1>3, <1>8 DEF CodeOk
<1>10. QED BY <1>1, <1>9 DEF CodeInv

\* The texts of the symbols can all be written.
LEMMA SymbolsSaid ==
    ASSUME NEW sc, NEW w \in Seq(UnitsOf(sc)), NEW sy, NEW hp, WordOk(sc, w, sy, hp)
    PROVE  /\ SymTextsOf(w, sy) \in Seq(Seq(UnitsOf(sc)))
           /\ \A k \in 1 .. Len(SymTextsOf(w, sy)) : SaidAs(sc, SymTextsOf(w, sy)[k])
<1> DEFINE U == UnitsOf(sc)
           T == Seq(U)
           ss == SsOf(w, sy)
<1>1. Tiles(Len(w), sy) /\ w \in Seq(U) /\ sy \in [1 .. Len(w) -> Nat]
    BY DEF WordOk, Tiles
<1>2. SsRight(U, w, sy)
  <2> HIDE DEF U
  <2>1. QED BY <1>1, SsIs
<1>3. ss \in Seq(Seq(T)) /\ Len(ss) = Len(w)
    BY <1>2 DEF SsRight
<1>4. ASSUME NEW j \in 1 .. Len(w), NEW l \in 1 .. Len(ss[j])
      PROVE  SaidAs(sc, ss[j][l])
  <2>1. sy[j] \in Nat
      BY <1>1
  <2>2. CASE sy[j] = 0
    <3>1. Len(ss[j]) = 0
        BY <1>2, <2>2 DEF SsRight
    <3>2. QED BY <3>1
  <2>3. CASE sy[j] > 0
    <3>1. Len(ss[j]) = 1 /\ ss[j][1] = SymAt(w, sy, j)
        BY <1>2, <2>3 DEF SsRight
    <3>2. SaidAs(sc, SymAt(w, sy, j))
        BY <2>3 DEF WordOk
    <3> HIDE DEF ss
    <3>3. l = 1
        BY <3>1
    <3>4. QED BY <3>1, <3>2, <3>3
  <2>4. QED BY <2>1, <2>2, <2>3
<1> HIDE DEF ss, T
<1>5. FlattenSeq(ss) \in Seq(T)
    BY <1>3, FlattenHas
<1>6. ASSUME NEW k \in 1 .. Len(FlattenSeq(ss)) PROVE SaidAs(sc, FlattenSeq(ss)[k])
  <2>1. \E j \in 1 .. Len(ss) : \E l \in 1 .. Len(ss[j]) : FlattenSeq(ss)[k] = ss[j][l]
      BY <1>3, FlattenWithin
  <2>2. PICK j \in 1 .. Len(ss) : \E l \in 1 .. Len(ss[j]) : FlattenSeq(ss)[k] = ss[j][l]
      BY <2>1
  <2>3. PICK l \in 1 .. Len(ss[j]) : FlattenSeq(ss)[k] = ss[j][l]
      BY <2>2
  <2>4. j \in 1 .. Len(w)
      BY <1>3
  <2>5. QED BY <1>4, <2>3, <2>4
<1>7. SymTextsOf(w, sy) = FlattenSeq(ss)
    BY DEF SymTextsOf, ss
<1>8. QED BY <1>5, <1>6, <1>7 DEF T, U

LEMMA WordDoneKeeps ==
    ASSUME CodeInv, WordDone
    PROVE  CodeInv'
<1> DEFINE ps == SymTextsOf(word, syms)
           ts == AllIds(ps)
<1>1. word # <<>> /\ heap = {} /\ UNCHANGED <<asked, scheme, frags, heap>>
    BY DEF WordDone
<1>2. coded' = coded \o ts /\ word' = <<>> /\ syms' = <<>>
    BY SymTextsAre DEF WordDone, AllIds
<1>3. CodeOk(asked, scheme, frags, word, syms, heap, coded)
    BY DEF CodeInv
<1>4. /\ WordOk(scheme, word, syms, heap) /\ word \in Seq(UnitsOf(scheme)) /\ scheme \in Schemes
      /\ asked # <<>>
    BY <1>1, <1>3 DEF CodeOk
<1>5. /\ ps \in Seq(Seq(UnitsOf(scheme)))
      /\ \A k \in 1 .. Len(ps) : SaidAs(scheme, ps[k])
    BY <1>4, SymbolsSaid
<1>6. FlattenSeq(ps) = word
    BY <1>4 DEF WordOk
<1> HIDE DEF ps
<1>7. AllSaid(ps)
    BY <1>4, <1>5, AllIdsSay
<1>8. ts \in Seq(Toks(scheme)) /\ FlatOf(DecOf(scheme), ts) = FlatOf(SpOf(scheme), word)
    BY <1>6, <1>7 DEF AllSaid
<1> HIDE DEF ts
<1>9. CodeOk(asked, scheme, frags, <<>>, <<>>, {}, coded \o ts)
    BY <1>3, <1>4, <1>8, FromWord
<1>10. QED BY <1>1, <1>2, <1>9 DEF CodeInv

-----------------------------------------------------------------------------
(***************************************************************************)
(* From the start on, and through every step.                              *)
(***************************************************************************)
LEMMA CodeBegins ==
    ASSUME CodeInit
    PROVE  CodeInv
<1>1. /\ asked = <<>> /\ scheme = "Other" /\ frags = <<>>
      /\ word = <<>> /\ syms = <<>> /\ heap = {} /\ coded = <<>>
    BY DEF CodeInit
<1>2. Bytes(<<>>) = <<>>
  <2>1. Bytes(<<>>) = FlatOf(Utf8, <<>>)
      BY DEF Bytes, FlatOf
  <2>2. QED BY <2>1, FlatOfNone
<1>3. Spoken("Other", <<>>, <<>>, <<>>) = <<>>
    BY FlatOfNone DEF Spoken
<1>4. <<>> \in Seq(Plain) /\ <<>> \in Seq(FragsOf("Other")) /\ <<>> \in Seq(UnitsOf("Other")) /\ <<>> \in Seq(Toks("Other"))
    OBVIOUS
<1>5. "Other" \in Schemes
    BY DEF Schemes
<1>6. CodeOk(<<>>, "Other", <<>>, <<>>, <<>>, {}, <<>>)
    BY <1>2, <1>3, <1>4, <1>5 DEF CodeOk
<1>7. QED BY <1>1, <1>6 DEF CodeInv

LEMMA CodeKeeps ==
    ASSUME CodeInv, [CodeNext]_codeVars
    PROVE  CodeInv'
<1>1. CASE Encode
    BY <1>1, EncodeKeeps
<1>2. CASE SpecialToken
    BY <1>2, SpecialTokenKeeps
<1>3. CASE NextWord
    BY <1>3, NextWordKeeps
<1>4. CASE GemmaRun
    BY <1>4, GemmaRunKeeps
<1>5. CASE Longest
    BY <1>5, LongestKeeps
<1>6. CASE PopPair
    BY <1>6, PopPairKeeps
<1>7. CASE WordDone
    BY <1>7, WordDoneKeeps
<1>8. CASE UNCHANGED codeVars
    BY <1>8 DEF codeVars, CodeInv
<1>9. QED BY <1>1, <1>2, <1>3, <1>4, <1>5, <1>6, <1>7, <1>8 DEF CodeNext

\* What is behind, at and ahead of the word spell the text that was asked for
\* (encode_opts), and the symbols and the heap of the word are those of a
\* merging that is under way (merge).
THEOREM CodeInvariant == CodeSpec => []CodeInv
<1>1. CodeInit => CodeInv
    BY CodeBegins
<1>2. CodeInv /\ [CodeNext]_codeVars => CodeInv'
    BY CodeKeeps
<1>3. QED BY <1>1, <1>2, PTL DEF CodeSpec

\* The tokens of every text spell it, whatever was cut, split and merged, and
\* the heap leaves no pair that has a rank (encode_opts, merge).
THEOREM TokensSpellTheText == CodeSpec => []EncodesText
<1>1. CodeInv => EncodesText
    BY InvSaysText
<1>2. QED BY <1>1, CodeInvariant, PTL
=============================================================================
