--------------------------- MODULE SlotSchedProofs ---------------------------
(***************************************************************************)
(* Proofs about SlotSched: where a job is, who may enter a slot before     *)
(* whom, and that the scheduler is the server its clients see.  That the   *)
(* second loop lets nobody overtake depends on what the first one left:    *)
(* nothing cached to reclaim and nothing pending that fits.  SchedInv      *)
(* joins this with the places of the jobs and the count of the blocks.     *)
(***************************************************************************)
EXTENDS SlotSched, DataLemmas

Blocks(h, S) == Cardinality({x \in S \X (1 .. TotalBlocks) : x[2] <= h[x[1]]})

Distinct(q) == \A i, j \in DOMAIN q : q[i] = q[j] => i = j

ServedBy(f) == {f[s] : s \in {t \in Slot : f[t] # NoClient}}

OneSlotEach(f) == \A s, t \in Slot : f[s] = f[t] /\ f[s] # NoClient => s = t

PlacesInv ==
    /\ Distinct(queue) /\ Distinct(pending)
    /\ OneSlotEach(serves)
    /\ Range(queue) \cap Range(pending) = {}
    /\ (Range(queue) \cup Range(pending)) \cap ServedBy(serves) = {}
    /\ open = Range(queue) \cup Range(pending) \cup ServedBy(serves)

TurnInv ==
    /\ phase = "wait" => Idle = Slot /\ pending = <<>>
    /\ phase = "recv" /\ Idle # {} /\ ~freeze =>
          Cached = {} /\ \A i \in DOMAIN pending : ~Fits(pending[i])

SchedInv == SchedTypeOK /\ BlocksIn(Slot) <= TotalBlocks /\ PlacesInv /\ TurnInv

-----------------------------------------------------------------------------
(***************************************************************************)
(* The blocks of slots: those of one slot are as many as it holds, and     *)
(* holding less in each slot is holding less.                              *)
(***************************************************************************)
LEMMA BlocksFinite ==
  ASSUME NEW h, NEW S \in SUBSET Slot
  PROVE  /\ IsFiniteSet({x \in S \X (1 .. TotalBlocks) : x[2] <= h[x[1]]})
         /\ Blocks(h, S) \in Nat
  <1>1. IsFiniteSet(S)
    BY FS_Subset, SchedAssumption
  <1>2. IsFiniteSet(S \X (1 .. TotalBlocks))
    <2>1. IsFiniteSet(1 .. TotalBlocks)
      BY FS_Interval, SchedAssumption
    <2> QED  BY <1>1, <2>1, FS_Product
  <1>3. IsFiniteSet({x \in S \X (1 .. TotalBlocks) : x[2] <= h[x[1]]})
    BY <1>2, FS_Subset
  <1> QED
    BY <1>3, FS_CardinalityType DEF Blocks

LEMMA BlocksMonotone ==
  ASSUME NEW S \in SUBSET Slot, NEW g \in [Slot -> Nat], NEW h \in [Slot -> Nat],
         \A s \in S : g[s] <= h[s]
  PROVE  Blocks(g, S) <= Blocks(h, S)
  <1> DEFINE G == {x \in S \X (1 .. TotalBlocks) : x[2] <= g[x[1]]}
             H == {x \in S \X (1 .. TotalBlocks) : x[2] <= h[x[1]]}
  <1>1. G \subseteq H
    <2> SUFFICES ASSUME NEW x \in G PROVE x \in H
      OBVIOUS
    <2>1. x \in S \X (1 .. TotalBlocks) /\ x[2] <= g[x[1]] /\ x[1] \in S /\ x[2] \in Nat
      OBVIOUS
    <2> QED  BY <2>1
  <1>2. IsFiniteSet(H)
    BY BlocksFinite
  <1> QED
    BY <1>1, <1>2, FS_Subset DEF Blocks

LEMMA BlocksOfOne ==
  ASSUME NEW s \in Slot, NEW h \in [Slot -> Nat], h[s] <= TotalBlocks
  PROVE  Blocks(h, Slot) = Blocks(h, Slot \ {s}) + h[s]
  <1> DEFINE A == {x \in Slot \X (1 .. TotalBlocks) : x[2] <= h[x[1]]}
             B == {x \in (Slot \ {s}) \X (1 .. TotalBlocks) : x[2] <= h[x[1]]}
             C == {s} \X (1 .. h[s])
  <1>1. IsFiniteSet(C) /\ Cardinality(C) = h[s]
    <2>1. IsFiniteSet({s}) /\ Cardinality({s}) = 1
      BY FS_Singleton
    <2>2. IsFiniteSet(1 .. h[s]) /\ Cardinality(1 .. h[s]) = h[s]
      BY FS_Interval
    <2>3. Cardinality(C) = Cardinality({s}) * Cardinality(1 .. h[s])
      BY <2>1, <2>2, FS_Product
    <2>4. IsFiniteSet(C)
      BY <2>1, <2>2, FS_Product
    <2>5. h[s] \in Nat
      OBVIOUS
    <2> HIDE DEF C
    <2> QED  BY <2>1, <2>2, <2>3, <2>4, <2>5
  <1>2. A = B \cup C
    <2>1. ASSUME NEW x \in A PROVE x \in B \cup C
      <3>1. x \in Slot \X (1 .. TotalBlocks) /\ x[2] <= h[x[1]] /\ x = <<x[1], x[2]>>
        OBVIOUS
      <3> QED  BY <3>1
    <2>2. ASSUME NEW x \in B \cup C PROVE x \in A
      <3>1. CASE x \in B  BY <3>1
      <3>2. CASE x \in C
        <4>1. x[1] = s /\ x[2] \in 1 .. h[s] /\ x = <<x[1], x[2]>>
          BY <3>2
        <4>2. x[2] \in 1 .. TotalBlocks
          BY <4>1, SchedAssumption
        <4> QED  BY <4>1, <4>2
      <3> QED  BY <2>2, <3>1, <3>2
    <2> QED  BY <2>1, <2>2
  <1>3. B \cap C = {}
    OBVIOUS
  <1>4. IsFiniteSet(B)
    BY BlocksFinite
  <1>5. Cardinality(A) = Cardinality(B) + Cardinality(C) - Cardinality({})
    BY <1>1, <1>2, <1>3, <1>4, FS_Union
  <1>6. Cardinality({}) = 0 /\ Cardinality(B) \in Nat
    BY <1>4, FS_EmptySet, FS_CardinalityType
  <1> QED
    BY <1>1, <1>5, <1>6 DEF Blocks

(***************************************************************************)
(* A slot may be given as many blocks as are free besides its own.         *)
(***************************************************************************)
LEMMA BlocksGranted ==
  ASSUME NEW s \in Slot, NEW g \in [Slot -> Nat], NEW h \in [Slot -> Nat],
         g[s] <= TotalBlocks, h[s] <= TotalBlocks,
         \A t \in Slot \ {s} : g[t] <= h[t],
         g[s] <= TotalBlocks - Blocks(h, Slot) + h[s]
  PROVE  Blocks(g, Slot) <= TotalBlocks
  <1>1. Blocks(g, Slot) = Blocks(g, Slot \ {s}) + g[s]
    BY BlocksOfOne
  <1>2. Blocks(h, Slot) = Blocks(h, Slot \ {s}) + h[s]
    BY BlocksOfOne
  <1>3. Blocks(g, Slot \ {s}) <= Blocks(h, Slot \ {s})
    BY BlocksMonotone
  <1>4. Blocks(g, Slot \ {s}) \in Nat /\ Blocks(h, Slot \ {s}) \in Nat
    BY BlocksFinite
  <1>5. g[s] \in Nat /\ h[s] \in Nat /\ TotalBlocks \in Nat
    BY SchedAssumption
  <1> QED
    BY <1>1, <1>2, <1>3, <1>4, <1>5

-----------------------------------------------------------------------------
(***************************************************************************)
(* What lists and slots hold as one job is taken from them or put in.      *)
(***************************************************************************)
LEMMA TailMoves ==
  ASSUME NEW q \in Seq(Client), q # <<>>, Distinct(q)
  PROVE  /\ Tail(q) \in Seq(Client) /\ Len(Tail(q)) = Len(q) - 1
         /\ Head(q) \in Client /\ Head(q) \in Range(q)
         /\ Distinct(Tail(q)) /\ Range(Tail(q)) = Range(q) \ {Head(q)}
  <1>1. Len(q) \in Nat \ {0} /\ DOMAIN q = 1 .. Len(q) /\ Head(q) = q[1]
    OBVIOUS
  <1>2. /\ Tail(q) \in Seq(Client) /\ DOMAIN Tail(q) = 1 .. Len(q) - 1
        /\ \A i \in 1 .. Len(q) - 1 : Tail(q)[i] = q[i + 1]
    BY <1>1
  <1>3. Distinct(Tail(q))
    BY <1>1, <1>2 DEF Distinct
  <1>4. Range(Tail(q)) = Range(q) \ {Head(q)}
    <2>1. ASSUME NEW c \in Range(Tail(q)) PROVE c \in Range(q) \ {Head(q)}
      <3>1. PICK i \in 1 .. Len(q) - 1 : c = q[i + 1]
        BY <1>2 DEF Range
      <3>2. i + 1 \in DOMAIN q /\ 1 \in DOMAIN q /\ i + 1 # 1
        BY <1>1
      <3> QED  BY <1>1, <3>1, <3>2 DEF Range, Distinct
    <2>2. ASSUME NEW c \in Range(q) \ {Head(q)} PROVE c \in Range(Tail(q))
      <3>1. PICK i \in DOMAIN q : c = q[i]
        BY DEF Range
      <3>2. i # 1 /\ i - 1 \in 1 .. Len(q) - 1 /\ (i - 1) + 1 = i
        BY <1>1, <3>1
      <3> QED  BY <1>2, <3>1, <3>2 DEF Range
    <2> QED  BY <2>1, <2>2
  <1>5. Head(q) \in Client /\ Head(q) \in Range(q)
    BY <1>1 DEF Range
  <1>6. Len(Tail(q)) = Len(q) - 1
    BY <1>1
  <1> QED
    BY <1>2, <1>3, <1>4, <1>5, <1>6

LEMMA AppendMoves ==
  ASSUME NEW q \in Seq(Client), NEW c \in Client, Distinct(q), c \notin Range(q)
  PROVE  /\ Append(q, c) \in Seq(Client) /\ Len(Append(q, c)) = Len(q) + 1
         /\ Distinct(Append(q, c)) /\ Range(Append(q, c)) = Range(q) \cup {c}
  <1>1. /\ Append(q, c) \in Seq(Client) /\ DOMAIN Append(q, c) = 1 .. Len(q) + 1
        /\ Len(q) \in Nat /\ DOMAIN q = 1 .. Len(q)
        /\ \A i \in 1 .. Len(q) : Append(q, c)[i] = q[i]
        /\ Append(q, c)[Len(q) + 1] = c /\ Len(Append(q, c)) = Len(q) + 1
    OBVIOUS
  <1>2. Distinct(Append(q, c))
    BY <1>1 DEF Distinct, Range
  <1>3. Range(Append(q, c)) = Range(q) \cup {c}
    <2>1. ASSUME NEW d \in Range(Append(q, c)) PROVE d \in Range(q) \cup {c}
      BY <1>1 DEF Range
    <2>2. ASSUME NEW d \in Range(q) \cup {c} PROVE d \in Range(Append(q, c))
      <3>1. CASE d = c  BY <1>1, <3>1 DEF Range
      <3>2. CASE d \in Range(q)
        <4>1. PICK i \in DOMAIN q : d = q[i]
          BY <3>2 DEF Range
        <4> QED  BY <1>1, <4>1 DEF Range
      <3> QED  BY <3>1, <3>2
    <2> QED  BY <2>1, <2>2
  <1> QED
    BY <1>1, <1>2, <1>3

LEMMA RemoveAtMoves ==
  ASSUME NEW q \in Seq(Client), NEW k \in DOMAIN q, Distinct(q)
  PROVE  /\ RemoveAt(q, k) \in Seq(Client) /\ q[k] \in Client /\ q[k] \in Range(q)
         /\ Distinct(RemoveAt(q, k)) /\ Range(RemoveAt(q, k)) = Range(q) \ {q[k]}
  <1> DEFINE r == RemoveAt(q, k)
             a == SubSeq(q, 1, k - 1)
             b == SubSeq(q, k + 1, Len(q))
  <1>1. Len(q) \in Nat /\ DOMAIN q = 1 .. Len(q) /\ k \in 1 .. Len(q)
    OBVIOUS
  <1>2. /\ a \in Seq(Client) /\ Len(a) = k - 1
        /\ \A i \in 1 .. k - 1 : a[i] = q[i]
    BY <1>1
  <1>3. /\ b \in Seq(Client) /\ Len(b) = Len(q) - k
        /\ \A i \in 1 .. Len(q) - k : b[i] = q[k + i]
    BY <1>1
  <1>4. r = a \o b
    BY DEF RemoveAt
  <1> HIDE DEF a, b, r
  <1>5. r \in Seq(Client) /\ Len(r) = Len(q) - 1 /\ DOMAIN r = 1 .. Len(q) - 1
    <2>1. r \in Seq(Client) /\ Len(r) = Len(a) + Len(b)
      BY <1>2, <1>3, <1>4, ConcatProperties
    <2>2. Len(a) + Len(b) = Len(q) - 1
      BY <1>1, <1>2, <1>3
    <2>3. DOMAIN r = 1 .. Len(r)
      BY <2>1
    <2> QED  BY <2>1, <2>2, <2>3
  <1>6. \A i \in 1 .. Len(q) - 1 : r[i] = IF i < k THEN q[i] ELSE q[i + 1]
    <2> SUFFICES ASSUME NEW i \in 1 .. Len(q) - 1
                 PROVE  r[i] = IF i < k THEN q[i] ELSE q[i + 1]
      OBVIOUS
    <2>1. CASE i < k
      BY <1>1, <1>2, <1>3, <1>4, <2>1
    <2>2. CASE ~(i < k)
      <3>1. r[i] = b[i - Len(a)]
        BY <1>1, <1>2, <1>3, <1>4, <2>2
      <3>2. i - Len(a) \in 1 .. Len(q) - k /\ k + (i - Len(a)) = i + 1
        BY <1>1, <1>2, <2>2
      <3> QED  BY <1>3, <2>2, <3>1, <3>2
    <2> QED  BY <2>1, <2>2
  <1>7. Distinct(r)
    <2> SUFFICES ASSUME NEW i \in 1 .. Len(q) - 1, NEW j \in 1 .. Len(q) - 1, r[i] = r[j]
                 PROVE  i = j
      BY <1>5 DEF Distinct
    <2> QED  BY <1>1, <1>6 DEF Distinct
  <1>8. Range(r) = Range(q) \ {q[k]}
    <2>1. ASSUME NEW c \in Range(r) PROVE c \in Range(q) \ {q[k]}
      <3>1. PICK i \in 1 .. Len(q) - 1 : c = r[i]
        BY <1>5 DEF Range
      <3>2. \E j \in DOMAIN q : j # k /\ c = q[j]
        BY <1>1, <1>6, <3>1
      <3> QED  BY <3>2 DEF Range, Distinct
    <2>2. ASSUME NEW c \in Range(q) \ {q[k]} PROVE c \in Range(r)
      <3>1. PICK j \in DOMAIN q : c = q[j] /\ j # k
        BY DEF Range
      <3>2. CASE j < k
        <4>1. j \in 1 .. Len(q) - 1 /\ r[j] = c
          BY <1>1, <1>6, <3>1, <3>2
        <4> QED  BY <1>5, <4>1 DEF Range
      <3>3. CASE j > k
        <4>1. j - 1 \in 1 .. Len(q) - 1 /\ r[j - 1] = c
          BY <1>1, <1>6, <3>1, <3>3
        <4> QED  BY <1>5, <4>1 DEF Range
      <3> QED  BY <1>1, <3>1, <3>2, <3>3
    <2> QED  BY <2>1, <2>2
  <1> QED
    <2>1. q[k] \in Client /\ q[k] \in Range(q)
      BY <1>1 DEF Range
    <2> QED  BY <1>5, <1>7, <1>8, <2>1 DEF r

(***************************************************************************)
(* A slot that takes a job, and slots that give theirs up.                 *)
(***************************************************************************)
LEMMA ServeMoves ==
  ASSUME NEW f \in [Slot -> Client \cup {NoClient}], NEW s \in Slot, NEW c \in Client,
         NEW g, g = [f EXCEPT ![s] = c], f[s] = NoClient, c \notin ServedBy(f),
         OneSlotEach(f)
  PROVE  /\ g \in [Slot -> Client \cup {NoClient}]
         /\ ServedBy(g) = ServedBy(f) \cup {c}
         /\ OneSlotEach(g)
  <1>1. c # NoClient
    BY SchedAssumption
  <1>2. \A t \in Slot : g[t] = IF t = s THEN c ELSE f[t]
    OBVIOUS
  <1>3. g \in [Slot -> Client \cup {NoClient}]
    OBVIOUS
  <1>4. ServedBy(g) = ServedBy(f) \cup {c}
    <2>1. ASSUME NEW d \in ServedBy(g) PROVE d \in ServedBy(f) \cup {c}
      BY <1>2 DEF ServedBy
    <2>2. ASSUME NEW d \in ServedBy(f) PROVE d \in ServedBy(g)
      <3>1. PICK t \in Slot : f[t] = d /\ d # NoClient
        BY DEF ServedBy
      <3>2. t # s /\ g[t] = d
        BY <1>2, <3>1
      <3> QED  BY <3>1, <3>2 DEF ServedBy
    <2>3. c \in ServedBy(g)
      BY <1>1, <1>2 DEF ServedBy
    <2> QED  BY <2>1, <2>2, <2>3
  <1>5. OneSlotEach(g)
    BY <1>2 DEF ServedBy, OneSlotEach
  <1> QED
    BY <1>3, <1>4, <1>5

LEMMA FreeMoves ==
  ASSUME NEW f \in [Slot -> Client \cup {NoClient}], NEW g, NEW D \in SUBSET Slot,
         g = [s \in Slot |-> IF s \in D THEN NoClient ELSE f[s]],
         OneSlotEach(f)
  PROVE  /\ g \in [Slot -> Client \cup {NoClient}]
         /\ ServedBy(g) = ServedBy(f) \ {f[s] : s \in D}
         /\ OneSlotEach(g)
  <1>1. \A t \in Slot : g[t] = IF t \in D THEN NoClient ELSE f[t]
    OBVIOUS
  <1>2. g \in [Slot -> Client \cup {NoClient}]
    OBVIOUS
  <1>3. ServedBy(g) = ServedBy(f) \ {f[s] : s \in D}
    <2>1. ASSUME NEW d \in ServedBy(g) PROVE d \in ServedBy(f) \ {f[s] : s \in D}
      <3>1. PICK t \in Slot : g[t] = d /\ d # NoClient
        BY DEF ServedBy
      <3>2. t \notin D /\ f[t] = d
        BY <1>1, <3>1
      <3>3. d \notin {f[s] : s \in D}
        BY <3>1, <3>2 DEF OneSlotEach
      <3> QED  BY <3>1, <3>2, <3>3 DEF ServedBy
    <2>2. ASSUME NEW d \in ServedBy(f) \ {f[s] : s \in D} PROVE d \in ServedBy(g)
      <3>1. PICK t \in Slot : f[t] = d /\ d # NoClient
        BY DEF ServedBy
      <3>2. t \notin D
        BY <2>2, <3>1
      <3>3. g[t] = d
        BY <1>1, <3>1, <3>2
      <3> QED  BY <3>1, <3>3 DEF ServedBy
    <2> QED  BY <2>1, <2>2
  <1>4. OneSlotEach(g)
    BY <1>1 DEF OneSlotEach
  <1> QED
    BY <1>2, <1>3, <1>4

-----------------------------------------------------------------------------
(***************************************************************************)
(* What Assign does, however it chooses: an idle slot takes job c, or it   *)
(* stays empty and c is answered.                                          *)
(***************************************************************************)
Assigned(c, s, ok) ==
    /\ serves' = [serves EXCEPT ![s] = IF ok THEN c ELSE NoClient]
    /\ held' \in [Slot -> 0 .. TotalBlocks] /\ Blocks(held', Slot) <= TotalBlocks
    /\ \A t \in Slot \ {s} : held'[t] = held[t]
    /\ ~ok => held'[s] = 0
    /\ toRead' \in [Slot -> Nat] /\ toGen' \in [Slot -> Nat]
    /\ errs' = errs
    /\ IF ok THEN UNCHANGED <<open, gone>> ELSE Answer({c})

LEMMA AssignIs ==
  ASSUME SchedTypeOK, BlocksIn(Slot) <= TotalBlocks, Idle # {}, NEW c \in Client, Assign(c)
  PROVE  \E s \in Idle, ok \in BOOLEAN : Assigned(c, s, ok)
  <1>1. Cached \subseteq Idle /\ Min(Idle) \in Idle /\ Idle \subseteq Slot
    <2>1. Idle \in SUBSET Nat
      BY SchedAssumption DEF Idle
    <2> QED  BY <2>1, MinOfNats DEF Cached, Idle
  <1>2. PICK s \in Idle : \E keep \in {0, held[s]} : \E copied \in BOOLEAN :
             LET ok == copied /\ NeedOf[c] <= Free + held[s]
             IN  \E n \in IF keep = 0 THEN {ChunksOf[c]} ELSE 1 .. ChunksOf[c] :
                 /\ serves' = [serves EXCEPT ![s] = IF ok THEN c ELSE NoClient]
                 /\ held' = [held EXCEPT ![s] = IF ok THEN Max({keep, NeedOf[c]}) ELSE 0]
                 /\ toRead' = [toRead EXCEPT ![s] = IF ok THEN n ELSE 0]
                 /\ toGen' = [toGen EXCEPT ![s] = IF ok THEN TokensOf[c] ELSE 0]
                 /\ UNCHANGED errs
                 /\ AnswerUnless(ok, c)
    BY <1>1 DEF Assign
  <1>3. PICK keep \in {0, held[s]}, copied \in BOOLEAN :
             LET ok == copied /\ NeedOf[c] <= Free + held[s]
             IN  \E n \in IF keep = 0 THEN {ChunksOf[c]} ELSE 1 .. ChunksOf[c] :
                 /\ serves' = [serves EXCEPT ![s] = IF ok THEN c ELSE NoClient]
                 /\ held' = [held EXCEPT ![s] = IF ok THEN Max({keep, NeedOf[c]}) ELSE 0]
                 /\ toRead' = [toRead EXCEPT ![s] = IF ok THEN n ELSE 0]
                 /\ toGen' = [toGen EXCEPT ![s] = IF ok THEN TokensOf[c] ELSE 0]
                 /\ UNCHANGED errs
                 /\ AnswerUnless(ok, c)
    BY <1>2
  <1> DEFINE ok == copied /\ NeedOf[c] <= Free + held[s]
             m == Max({keep, NeedOf[c]})
  <1>4. PICK n \in IF keep = 0 THEN {ChunksOf[c]} ELSE 1 .. ChunksOf[c] :
                 /\ serves' = [serves EXCEPT ![s] = IF ok THEN c ELSE NoClient]
                 /\ held' = [held EXCEPT ![s] = IF ok THEN m ELSE 0]
                 /\ toRead' = [toRead EXCEPT ![s] = IF ok THEN n ELSE 0]
                 /\ toGen' = [toGen EXCEPT ![s] = IF ok THEN TokensOf[c] ELSE 0]
                 /\ UNCHANGED errs
                 /\ AnswerUnless(ok, c)
    BY <1>3
  <1>5. /\ s \in Slot /\ held \in [Slot -> Nat] /\ held[s] \in 0 .. TotalBlocks
        /\ NeedOf[c] \in Nat /\ ChunksOf[c] \in Nat /\ TokensOf[c] \in Nat /\ keep \in Nat
        /\ TotalBlocks \in Nat
    BY <1>1, SchedAssumption DEF SchedTypeOK
  <1>6. m \in Nat /\ (m = keep \/ m = NeedOf[c]) /\ NeedOf[c] <= m
    <2>1. m \in {keep, NeedOf[c]} /\ \A y \in {keep, NeedOf[c]} : m >= y
      <3>1. \E x \in {keep, NeedOf[c]} : \A y \in {keep, NeedOf[c]} : x >= y
        BY <1>5
      <3> QED  BY <3>1 DEF Max
    <2> QED  BY <1>5, <2>1
  <1> HIDE DEF m
  <1>7. Blocks(held, Slot) = Blocks(held, Slot \ {s}) + held[s]
        /\ Blocks(held, Slot \ {s}) \in Nat
    <2>1. Slot \ {s} \in SUBSET Slot
      OBVIOUS
    <2>2. Blocks(held, Slot \ {s}) \in Nat
      BY <2>1, BlocksFinite
    <2>3. held[s] <= TotalBlocks
      BY <1>5
    <2> QED  BY <1>5, <2>2, <2>3, BlocksOfOne
  <1>8. Free = TotalBlocks - Blocks(held, Slot) /\ Blocks(held, Slot) <= TotalBlocks
    BY DEF Free, BlocksIn, Blocks
  <1>9. ok => m <= TotalBlocks /\ m <= TotalBlocks - Blocks(held, Slot) + held[s]
    BY <1>5, <1>6, <1>7, <1>8
  <1>10. held' \in [Slot -> Nat] /\ held'[s] = (IF ok THEN m ELSE 0)
         /\ \A t \in Slot \ {s} : held'[t] = held[t]
    BY <1>4, <1>5, <1>6
  <1>11. held' \in [Slot -> 0 .. TotalBlocks]
    <2>1. \A t \in Slot : held[t] \in 0 .. TotalBlocks
      BY DEF SchedTypeOK
    <2>2. \A t \in Slot : held'[t] \in 0 .. TotalBlocks
      BY <1>5, <1>6, <1>9, <1>10, <2>1
    <2> QED  BY <1>10, <2>2
  <1>12. Blocks(held', Slot) <= TotalBlocks
    <2>1. held'[s] <= TotalBlocks /\ held'[s] <= TotalBlocks - Blocks(held, Slot) + held[s]
      BY <1>5, <1>7, <1>8, <1>9, <1>10
    <2>2. \A t \in Slot \ {s} : held'[t] <= held[t]
      BY <1>5, <1>10
    <2> QED  BY <1>5, <1>10, <2>1, <2>2, BlocksGranted
  <1>13. toRead' \in [Slot -> Nat] /\ toGen' \in [Slot -> Nat]
    <2>1. n \in Nat
      BY <1>5
    <2> QED  BY <1>4, <1>5, <2>1 DEF SchedTypeOK
  <1>14. Assigned(c, s, ok)
    BY <1>4, <1>10, <1>11, <1>12, <1>13 DEF Assigned, AnswerUnless
  <1> QED
    BY <1>14

LEMMA AssignPlaces ==
  ASSUME SchedTypeOK, PlacesInv, NEW c \in Client, NEW s \in Idle, NEW ok \in BOOLEAN,
         Assigned(c, s, ok), c \in Range(queue) \cup Range(pending),
         Distinct(queue'), Distinct(pending'),
         Range(queue') \subseteq Range(queue), Range(pending') \subseteq Range(pending),
         Range(queue') \cup Range(pending') = (Range(queue) \cup Range(pending)) \ {c}
  PROVE  /\ PlacesInv'
         /\ serves' \in [Slot -> Client \cup {NoClient}]
         /\ open' \subseteq Client /\ gone' \subseteq open'
  <1>1. s \in Slot /\ serves[s] = NoClient /\ serves \in [Slot -> Client \cup {NoClient}]
    BY DEF Idle, SchedTypeOK
  <1>2. c \notin ServedBy(serves) /\ c \in open
    BY DEF PlacesInv
  <1>3. CASE ok
    <2>1. /\ serves' \in [Slot -> Client \cup {NoClient}]
          /\ ServedBy(serves') = ServedBy(serves) \cup {c}
          /\ OneSlotEach(serves')
      <3>1. serves' = [serves EXCEPT ![s] = c]
        BY <1>3 DEF Assigned
      <3>2. OneSlotEach(serves)
        BY DEF PlacesInv
      <3> QED  BY <1>1, <1>2, <3>1, <3>2, ServeMoves
    <2>2. open' = open /\ gone' = gone
      BY <1>3 DEF Assigned
    <2> QED
      BY <1>2, <2>1, <2>2 DEF PlacesInv, SchedTypeOK
  <1>4. CASE ~ok
    <2>1. serves' = serves
      BY <1>1, <1>4 DEF Assigned
    <2>2. open' = open \ {c} /\ gone' = gone \ {c}
      BY <1>4 DEF Assigned, Answer
    <2>3. PlacesInv'
      BY <1>1, <1>2, <2>1, <2>2 DEF PlacesInv
    <2> QED
      BY <1>1, <2>1, <2>2, <2>3 DEF SchedTypeOK
  <1> QED
    BY <1>3, <1>4

(***************************************************************************)
(* Jobs that leave their slots are answered and nowhere else.              *)
(***************************************************************************)
Freed(D) ==
    /\ Answer({serves[s] : s \in D})
    /\ serves' = [s \in Slot |-> IF s \in D THEN NoClient ELSE serves[s]]
    /\ held' \in [Slot -> Nat] /\ \A t \in Slot : held'[t] <= held[t]

LEMMA FreedPlaces ==
  ASSUME SchedTypeOK, PlacesInv, BlocksIn(Slot) <= TotalBlocks, NEW D \in SUBSET (Slot \ Idle),
         Freed(D), UNCHANGED <<queue, pending>>
  PROVE  /\ PlacesInv'
         /\ serves' \in [Slot -> Client \cup {NoClient}]
         /\ open' \subseteq Client /\ gone' \subseteq open'
         /\ held' \in [Slot -> 0 .. TotalBlocks] /\ BlocksIn(Slot)' <= TotalBlocks
  <1>1. D \in SUBSET Slot /\ serves \in [Slot -> Client \cup {NoClient}]
    BY DEF SchedTypeOK
  <1>2. /\ serves' \in [Slot -> Client \cup {NoClient}]
        /\ ServedBy(serves') = ServedBy(serves) \ {serves[s] : s \in D}
        /\ OneSlotEach(serves')
    <2>1. serves' = [s \in Slot |-> IF s \in D THEN NoClient ELSE serves[s]]
      BY DEF Freed
    <2>2. OneSlotEach(serves)
      BY DEF PlacesInv
    <2> QED  BY ONLY <1>1, <2>1, <2>2, FreeMoves
  <1>3. {serves[s] : s \in D} \subseteq ServedBy(serves)
    BY DEF ServedBy, Idle
  <1>4. open' = open \ {serves[s] : s \in D} /\ gone' = gone \ {serves[s] : s \in D}
    BY DEF Freed, Answer
  <1>5. PlacesInv'
    BY <1>2, <1>3, <1>4 DEF PlacesInv
  <1>6. held' \in [Slot -> 0 .. TotalBlocks] /\ BlocksIn(Slot)' <= TotalBlocks
    <2>1. held \in [Slot -> Nat] /\ held' \in [Slot -> Nat]
          /\ \A t \in Slot : held'[t] <= held[t] /\ held[t] \in 0 .. TotalBlocks
      BY SchedAssumption DEF Freed, SchedTypeOK
    <2>2. Blocks(held', Slot) <= Blocks(held, Slot)
      BY <2>1, BlocksMonotone
    <2>3. Blocks(held', Slot) \in Nat /\ Blocks(held, Slot) \in Nat /\ TotalBlocks \in Nat
      BY BlocksFinite, SchedAssumption
    <2>4. BlocksIn(Slot)' = Blocks(held', Slot) /\ BlocksIn(Slot) = Blocks(held, Slot)
      BY DEF BlocksIn, Blocks
    <2>5. \A t \in Slot : held'[t] \in 0 .. TotalBlocks
      BY <2>1, <2>3
    <2> QED  BY <2>1, <2>2, <2>3, <2>4, <2>5
  <1> QED
    BY <1>2, <1>4, <1>5, <1>6 DEF SchedTypeOK

(***************************************************************************)
(* What one step of decoding leaves: Finish and Counted.                   *)
(***************************************************************************)
LEMMA FinishIs ==
  ASSUME SchedTypeOK, NEW S \in SUBSET (Slot \ Idle), NEW at, Finish(S, at)
  PROVE  \E D \in SUBSET S : Freed(D)
  <1> DEFINE dead == {s \in S : at[s] = Failed /\ errs[s] + 1 >= ErrMax}
             over == {s \in S : at[s] = 0}
             D == dead \cup over
  <1>1. /\ Answer({serves[s] : s \in D})
        /\ serves' = [s \in Slot |-> IF s \in D THEN NoClient ELSE serves[s]]
        /\ held' = [s \in Slot |-> IF s \in dead THEN 0 ELSE held[s]]
    BY DEF Finish
  <1>2. held \in [Slot -> Nat]
    BY SchedAssumption DEF SchedTypeOK
  <1>3. held' \in [Slot -> Nat] /\ \A t \in Slot : held'[t] <= held[t]
    <2> HIDE DEF dead
    <2> QED  BY <1>1, <1>2
  <1>4. D \in SUBSET S
    OBVIOUS
  <1>5. Freed(D)
    BY <1>1, <1>3 DEF Freed
  <1> QED
    BY <1>4, <1>5

LEMMA CountedIs ==
  ASSUME SchedTypeOK, NEW S \in SUBSET Slot, NEW at, Counted(S, at)
  PROVE  errs' \in [Slot -> 0 .. ErrMax - 1]
  <1>1. ErrMax \in Nat \ {0} /\ \A s \in Slot : errs[s] \in 0 .. ErrMax - 1
    BY SchedAssumption DEF SchedTypeOK
  <1> QED
    BY <1>1 DEF Counted

LEMMA TurnKept ==
  ASSUME TurnInv, UNCHANGED <<phase, serves, held, pending, freeze>>
  PROVE  TurnInv'
  BY DEF TurnInv, Idle, Cached, Fits, Free, BlocksIn

LEMMA TurnElsewhere ==
  ASSUME phase' \notin {"wait", "recv"}
  PROVE  TurnInv'
  BY DEF TurnInv

-----------------------------------------------------------------------------
LEMMA SchedInvInit == SchedInit => SchedInv
  <1> SUFFICES ASSUME SchedInit PROVE SchedInv
    OBVIOUS
  <1>1. SchedTypeOK
    <2>1. ErrMax \in Nat \ {0} /\ TotalBlocks \in Nat /\ QCap \in Nat
      BY SchedAssumption
    <2>2. queue \in Seq(Client) /\ Len(queue) <= QCap /\ pending \in Seq(Client)
      BY <2>1 DEF SchedInit
    <2>3. held \in [Slot -> 0 .. TotalBlocks] /\ errs \in [Slot -> 0 .. ErrMax - 1]
      BY <2>1 DEF SchedInit
    <2>4. freeze \in BOOLEAN /\ measured \in BOOLEAN /\ worked \in BOOLEAN
      BY DEF SchedInit
    <2> QED  BY <2>2, <2>3, <2>4 DEF SchedInit, SchedTypeOK
  <1>2. BlocksIn(Slot) <= TotalBlocks
    <2>1. {x \in Slot \X (1 .. TotalBlocks) : x[2] <= held[x[1]]} = {}
      BY SchedAssumption DEF SchedInit
    <2> QED  BY <2>1, FS_EmptySet, SchedAssumption DEF BlocksIn
  <1>3. PlacesInv
    <2>1. Range(queue) = {} /\ Range(pending) = {} /\ Distinct(queue) /\ Distinct(pending)
      BY DEF SchedInit, Distinct, Range
    <2>2. \A s \in Slot : serves[s] = NoClient
      BY DEF SchedInit
    <2>3. ServedBy(serves) = {} /\ OneSlotEach(serves)
      BY <2>2 DEF ServedBy, OneSlotEach
    <2>4. open = {}
      BY DEF SchedInit
    <2> QED  BY <2>1, <2>3, <2>4 DEF PlacesInv
  <1>4. TurnInv
    BY DEF SchedInit, TurnInv
  <1> QED
    BY <1>1, <1>2, <1>3, <1>4 DEF SchedInv

(***************************************************************************)
(* A job that is put into a slot, or refused, leaves its list.             *)
(***************************************************************************)
LEMMA PickedLeaves ==
  ASSUME SchedTypeOK, PlacesInv, NEW k \in DOMAIN pending,
         pending' = RemoveAt(pending, k), queue' = queue
  PROVE  /\ pending[k] \in Client /\ pending[k] \in Range(queue) \cup Range(pending)
         /\ pending' \in Seq(Client) /\ queue' \in Seq(Client) /\ Len(queue') <= QCap
         /\ Distinct(queue') /\ Distinct(pending')
         /\ Range(queue') \subseteq Range(queue) /\ Range(pending') \subseteq Range(pending)
         /\ Range(queue') \cup Range(pending') = (Range(queue) \cup Range(pending)) \ {pending[k]}
  <1>1. pending \in Seq(Client) /\ Distinct(pending) /\ Distinct(queue)
        /\ Range(queue) \cap Range(pending) = {}
        /\ queue \in Seq(Client) /\ Len(queue) <= QCap
    BY DEF SchedTypeOK, PlacesInv
  <1>2. /\ pending' \in Seq(Client) /\ pending[k] \in Client /\ pending[k] \in Range(pending)
        /\ Distinct(pending') /\ Range(pending') = Range(pending) \ {pending[k]}
    BY <1>1, RemoveAtMoves
  <1> QED
    BY <1>1, <1>2

LEMMA ReceivedLeaves ==
  ASSUME SchedTypeOK, PlacesInv, queue # <<>>, queue' = Tail(queue), pending' = pending
  PROVE  /\ Head(queue) \in Client /\ Head(queue) \in Range(queue) \cup Range(pending)
         /\ pending' \in Seq(Client) /\ queue' \in Seq(Client) /\ Len(queue') <= QCap
         /\ Distinct(queue') /\ Distinct(pending')
         /\ Range(queue') \subseteq Range(queue) /\ Range(pending') \subseteq Range(pending)
         /\ Range(queue') \cup Range(pending') = (Range(queue) \cup Range(pending)) \ {Head(queue)}
  <1>1. pending \in Seq(Client) /\ Distinct(pending) /\ Distinct(queue)
        /\ Range(queue) \cap Range(pending) = {}
        /\ queue \in Seq(Client) /\ Len(queue) <= QCap /\ QCap \in Nat
    BY SchedAssumption DEF SchedTypeOK, PlacesInv
  <1>2. /\ queue' \in Seq(Client) /\ Len(queue') = Len(queue) - 1
        /\ Head(queue) \in Client /\ Head(queue) \in Range(queue)
        /\ Distinct(queue') /\ Range(queue') = Range(queue) \ {Head(queue)}
    BY <1>1, TailMoves
  <1>3. Len(queue) \in Nat /\ Len(queue') <= QCap
    BY <1>1, <1>2
  <1> QED
    BY <1>1, <1>2, <1>3

LEMMA RefusedPlaces ==
  ASSUME SchedTypeOK, PlacesInv, NEW c \in Client, Answer({c}), serves' = serves,
         c \in Range(queue) \cup Range(pending),
         Distinct(queue'), Distinct(pending'),
         Range(queue') \subseteq Range(queue), Range(pending') \subseteq Range(pending),
         Range(queue') \cup Range(pending') = (Range(queue) \cup Range(pending)) \ {c}
  PROVE  PlacesInv' /\ open' \subseteq Client /\ gone' \subseteq open'
  <1>1. c \notin ServedBy(serves) /\ open' = open \ {c} /\ gone' = gone \ {c}
    BY DEF PlacesInv, Answer
  <1>2. PlacesInv'
    BY <1>1 DEF PlacesInv
  <1> QED
    BY <1>1, <1>2 DEF SchedTypeOK

LEMMA PlacesKept ==
  ASSUME PlacesInv, UNCHANGED <<open, queue, pending, serves>>
  PROVE  PlacesInv'
  BY DEF PlacesInv

\* Blocks that are given back, or left as they are.
LEMMA LessHeld ==
  ASSUME SchedTypeOK, BlocksIn(Slot) <= TotalBlocks,
         held' \in [Slot -> Nat], \A t \in Slot : held'[t] <= held[t]
  PROVE  held' \in [Slot -> 0 .. TotalBlocks] /\ BlocksIn(Slot)' <= TotalBlocks
  <1>1. held \in [Slot -> Nat] /\ \A t \in Slot : held[t] \in 0 .. TotalBlocks
    BY SchedAssumption DEF SchedTypeOK
  <1>2. Blocks(held', Slot) <= Blocks(held, Slot)
    BY <1>1, BlocksMonotone
  <1>3. Blocks(held', Slot) \in Nat /\ Blocks(held, Slot) \in Nat /\ TotalBlocks \in Nat
    BY BlocksFinite, SchedAssumption
  <1>4. BlocksIn(Slot)' = Blocks(held', Slot) /\ BlocksIn(Slot) = Blocks(held, Slot)
    BY DEF BlocksIn, Blocks
  <1>5. \A t \in Slot : held'[t] \in 0 .. TotalBlocks
    BY <1>1, <1>3
  <1> QED
    BY <1>1, <1>2, <1>3, <1>4, <1>5

LEMMA ReclaimGives ==
  ASSUME SchedTypeOK, NEW s \in Slot, Reclaim(s)
  PROVE  held' \in [Slot -> Nat] /\ \A t \in Slot : held'[t] <= held[t]
  <1>1. held \in [Slot -> Nat]
    BY SchedAssumption DEF SchedTypeOK
  <1> QED
    BY <1>1 DEF Reclaim

(***************************************************************************)
(* The invariant is kept by every step: first by what puts jobs in slots.  *)
(***************************************************************************)
LEMMA AssignedKeeps ==
  ASSUME SchedInv, Idle # {}, NEW c \in Client, Assign(c),
         c \in Range(queue) \cup Range(pending),
         pending' \in Seq(Client), queue' \in Seq(Client), Len(queue') <= QCap,
         Distinct(queue'), Distinct(pending'),
         Range(queue') \subseteq Range(queue), Range(pending') \subseteq Range(pending),
         Range(queue') \cup Range(pending') = (Range(queue) \cup Range(pending)) \ {c},
         UNCHANGED <<freeze, measured, worked>>, phase' \in {phase, "decide"}
  PROVE  /\ SchedTypeOK' /\ BlocksIn(Slot)' <= TotalBlocks /\ PlacesInv'
         /\ Cached = {} => Cached' = {} /\ Free' <= Free
         /\ Idle' \subseteq Idle
  <1>1. SchedTypeOK /\ BlocksIn(Slot) <= TotalBlocks /\ PlacesInv
    BY DEF SchedInv
  <1>2. PICK s \in Idle, ok \in BOOLEAN : Assigned(c, s, ok)
    BY <1>1, AssignIs
  <1>3. /\ PlacesInv' /\ serves' \in [Slot -> Client \cup {NoClient}]
        /\ open' \subseteq Client /\ gone' \subseteq open'
    BY <1>1, <1>2, AssignPlaces
  <1>4. BlocksIn(Slot)' <= TotalBlocks
    BY <1>2 DEF Assigned, Blocks, BlocksIn
  <1>5. SchedTypeOK'
    <2>1. /\ held' \in [Slot -> 0 .. TotalBlocks] /\ errs' = errs
          /\ toRead' \in [Slot -> Nat] /\ toGen' \in [Slot -> Nat]
      BY <1>2 DEF Assigned
    <2> QED  BY <1>1, <1>3, <2>1 DEF SchedTypeOK
  <1>6. s \in Slot /\ serves[s] = NoClient /\ c # NoClient
    BY <1>2, SchedAssumption DEF Idle
  <1>7. \A t \in Slot \ {s} : serves'[t] = serves[t] /\ held'[t] = held[t]
    BY <1>1, <1>2 DEF Assigned, SchedTypeOK
  <1>8. Idle' \subseteq Idle
    BY <1>6, <1>7 DEF Idle
  <1>9. ASSUME Cached = {}
        PROVE  Cached' = {} /\ Free' <= Free
    <2>1. \A t \in Slot : held[t] \in Nat /\ held'[t] \in Nat
      BY <1>1, <1>2 DEF Assigned, SchedTypeOK
    <2>2. held[s] = 0
      BY <1>2, <1>9, <2>1, <1>6 DEF Cached
    <2>3. ok => serves'[s] = c
      BY <1>1, <1>2, <1>6 DEF Assigned, SchedTypeOK
    <2>4. ~ok => held'[s] = 0
      BY <1>2 DEF Assigned
    <2>5. Cached' = {}
      <3> SUFFICES ASSUME NEW t \in Slot, serves'[t] = NoClient, held'[t] > 0 PROVE FALSE
        BY DEF Cached, Idle
      <3>1. t # s
        BY <1>6, <2>3, <2>4
      <3>2. serves[t] = NoClient /\ held[t] > 0
        BY <1>7, <3>1
      <3> QED  BY <1>9, <3>2 DEF Cached, Idle
    <2>6. held \in [Slot -> Nat] /\ held' \in [Slot -> Nat]
      BY <1>1, <1>2, SchedAssumption DEF Assigned, SchedTypeOK
    <2>7. \A t \in Slot : held[t] <= held'[t]
      BY <1>7, <2>1, <2>2
    <2>8. Blocks(held, Slot) <= Blocks(held', Slot)
      BY <2>6, <2>7, BlocksMonotone
    <2>9. Blocks(held, Slot) \in Nat /\ Blocks(held', Slot) \in Nat /\ TotalBlocks \in Nat
      BY BlocksFinite, SchedAssumption
    <2>10. Free = TotalBlocks - Blocks(held, Slot) /\ Free' = TotalBlocks - Blocks(held', Slot)
      BY DEF Free, BlocksIn, Blocks
    <2>11. Free' <= Free
      BY <2>8, <2>9, <2>10
    <2> QED  BY <2>5, <2>11
  <1> QED
    BY <1>3, <1>4, <1>5, <1>8, <1>9
(***************************************************************************)
(* The steps that leave the jobs where they are, and those that refuse one *)
(* from its list.                                                          *)
(***************************************************************************)
Phases == {"decide", "take", "refuse", "recv", "decode", "prefill", "tail", "wait"}

LEMMA QuietKeeps ==
  ASSUME SchedInv, UNCHANGED <<open, gone, queue, pending, serves, work>>,
         held' \in [Slot -> Nat], \A t \in Slot : held'[t] <= held[t],
         freeze' \in BOOLEAN, measured' = measured, worked' = worked, phase' \in Phases
  PROVE  SchedTypeOK' /\ BlocksIn(Slot)' <= TotalBlocks /\ PlacesInv'
  <1>1. SchedTypeOK /\ BlocksIn(Slot) <= TotalBlocks /\ PlacesInv
    BY DEF SchedInv
  <1>2. held' \in [Slot -> 0 .. TotalBlocks] /\ BlocksIn(Slot)' <= TotalBlocks
    BY <1>1, LessHeld
  <1>3. PlacesInv'
    BY <1>1, PlacesKept
  <1>4. SchedTypeOK'
    BY <1>1, <1>2 DEF SchedTypeOK, work, Phases
  <1> QED
    BY <1>2, <1>3, <1>4

LEMMA HeldItself ==
  ASSUME SchedInv, held' = held
  PROVE  held' \in [Slot -> Nat] /\ \A t \in Slot : held'[t] <= held[t]
  <1>1. held \in [Slot -> Nat]
    BY SchedAssumption DEF SchedInv, SchedTypeOK
  <1> QED
    BY <1>1

LEMMA RefusedKeeps ==
  ASSUME SchedInv, NEW c \in Client, Answer({c}), c \in Range(queue) \cup Range(pending),
         UNCHANGED <<serves, held, work, freeze, measured, worked>>,
         pending' \in Seq(Client), queue' \in Seq(Client), Len(queue') <= QCap,
         Distinct(queue'), Distinct(pending'),
         Range(queue') \subseteq Range(queue), Range(pending') \subseteq Range(pending),
         Range(queue') \cup Range(pending') = (Range(queue) \cup Range(pending)) \ {c},
         phase' \in Phases
  PROVE  SchedTypeOK' /\ BlocksIn(Slot)' <= TotalBlocks /\ PlacesInv'
  <1>1. SchedTypeOK /\ BlocksIn(Slot) <= TotalBlocks /\ PlacesInv
    BY DEF SchedInv
  <1>2. PlacesInv' /\ open' \subseteq Client /\ gone' \subseteq open'
    BY <1>1, RefusedPlaces
  <1>3. SchedTypeOK'
    BY <1>1, <1>2 DEF SchedTypeOK, work, Phases
  <1>4. BlocksIn(Slot)' <= TotalBlocks
    BY <1>1 DEF BlocksIn
  <1> QED
    BY <1>2, <1>3, <1>4

(***************************************************************************)
(* The least of the picks or of the refused is a job of the pending list.  *)
(***************************************************************************)
LEMMA LeastPending ==
  ASSUME SchedTypeOK, NEW P \in SUBSET DOMAIN pending, P # {}
  PROVE  Min(P) \in P /\ Min(P) \in DOMAIN pending /\ \A i \in P : Min(P) <= i
  <1>1. P \in SUBSET Nat
    BY DEF SchedTypeOK
  <1> QED
    BY <1>1, MinOfNats

-----------------------------------------------------------------------------
LEMMA DecideKeeps == SchedInv /\ Decide => SchedInv'
  <1> SUFFICES ASSUME SchedInv, Decide PROVE SchedInv'
    OBVIOUS
  <1>1. freeze' \in BOOLEAN
    BY DEF Decide
  <1>2. SchedTypeOK' /\ BlocksIn(Slot)' <= TotalBlocks /\ PlacesInv'
    BY <1>1, HeldItself, QuietKeeps DEF Decide, work, Phases
  <1>3. TurnInv'
    BY TurnElsewhere DEF Decide
  <1> QED
    BY <1>2, <1>3 DEF SchedInv

LEMMA TakePickKeeps == SchedInv /\ TakePick => SchedInv'
  <1> SUFFICES ASSUME SchedInv, TakePick PROVE SchedInv'
    OBVIOUS
  <1> DEFINE k == Min(Picks)
  <1>1. SchedTypeOK /\ PlacesInv
    BY DEF SchedInv
  <1>2. k \in DOMAIN pending
    BY <1>1, LeastPending DEF TakePick, Picks
  <1> HIDE DEF k
  <1>3. pending' = RemoveAt(pending, k) /\ queue' = queue /\ Assign(pending[k]) /\ Idle # {}
    BY DEF TakePick, k
  <1>4. SchedTypeOK' /\ BlocksIn(Slot)' <= TotalBlocks /\ PlacesInv'
    <2>1. UNCHANGED <<freeze, measured, worked>> /\ phase' = phase
      BY DEF TakePick
    <2> QED  BY <1>1, <1>2, <1>3, <2>1, PickedLeaves, AssignedKeeps
  <1>5. TurnInv'
    BY TurnElsewhere DEF TakePick
  <1> QED
    BY <1>4, <1>5 DEF SchedInv

LEMMA TakeRefuseKeeps == SchedInv /\ TakeRefuse => SchedInv'
  <1> SUFFICES ASSUME SchedInv, TakeRefuse PROVE SchedInv'
    OBVIOUS
  <1> DEFINE k == Min(Refused)
  <1>1. SchedTypeOK /\ PlacesInv
    BY DEF SchedInv
  <1>2. k \in DOMAIN pending
    BY <1>1, LeastPending DEF TakeRefuse, Refused
  <1> HIDE DEF k
  <1>3. pending' = RemoveAt(pending, k) /\ queue' = queue /\ Answer({pending[k]})
    BY DEF TakeRefuse, k
  <1>4. SchedTypeOK' /\ BlocksIn(Slot)' <= TotalBlocks /\ PlacesInv'
    <2>1. UNCHANGED <<serves, held, work, freeze, measured, worked>> /\ phase' \in Phases
      BY DEF TakeRefuse, Phases
    <2> QED  BY <1>1, <1>2, <1>3, <2>1, PickedLeaves, RefusedKeeps
  <1>5. TurnInv'
    BY TurnElsewhere DEF TakeRefuse
  <1> QED
    BY <1>4, <1>5 DEF SchedInv

LEMMA TakeReclaimKeeps == SchedInv /\ TakeReclaim => SchedInv'
  <1> SUFFICES ASSUME SchedInv, TakeReclaim PROVE SchedInv'
    OBVIOUS
  <1>1. PICK s \in Slot : Reclaim(s)
    BY DEF TakeReclaim, Victims, Cached, Idle
  <1>2. SchedTypeOK' /\ BlocksIn(Slot)' <= TotalBlocks /\ PlacesInv'
    <2>1. SchedTypeOK /\ freeze' \in BOOLEAN /\ phase' \in Phases
      BY DEF TakeReclaim, SchedInv, SchedTypeOK, Phases
    <2> QED  BY <1>1, <2>1, ReclaimGives, QuietKeeps DEF TakeReclaim
  <1>3. TurnInv'
    BY TurnElsewhere DEF TakeReclaim
  <1> QED
    BY <1>2, <1>3 DEF SchedInv

LEMMA TakeEndKeeps == SchedInv /\ TakeEnd => SchedInv'
  <1> SUFFICES ASSUME SchedInv, TakeEnd PROVE SchedInv'
    OBVIOUS
  <1>1. SchedTypeOK' /\ BlocksIn(Slot)' <= TotalBlocks /\ PlacesInv'
    <2>1. freeze' \in BOOLEAN /\ phase' \in Phases
      BY DEF TakeEnd, SchedInv, SchedTypeOK, Phases
    <2> QED  BY <2>1, HeldItself, QuietKeeps DEF TakeEnd
  <1>2. TurnInv'
    <2> SUFFICES ASSUME Idle' # {}, ~freeze'
                 PROVE  Cached' = {} /\ \A i \in DOMAIN pending' : ~Fits(pending[i])'
      BY DEF TurnInv, TakeEnd
    <2>1. Idle' = Idle /\ Cached' = Cached /\ Free' = Free /\ pending' = pending /\ ~freeze
      BY DEF TakeEnd, Idle, Cached, Free, BlocksIn
    <2>2. Picks = {} /\ Cached = {}
      BY <2>1 DEF TakeEnd, Victims
    <2>3. \A i \in DOMAIN pending : ~Fits(pending[i])
      BY <2>1, <2>2 DEF Picks
    <2> QED  BY <2>1, <2>2, <2>3 DEF Fits
  <1> QED
    BY <1>1, <1>2 DEF SchedInv

(***************************************************************************)
(* What the second loop keeps of what the first one left: a job that is    *)
(* pending after a step was pending before, or does not fit.               *)
(***************************************************************************)
StillWaits(i) ==
    /\ pending'[i] \in Client
    /\ \/ i \in DOMAIN pending /\ pending'[i] = pending[i]
       \/ ~(NeedOf[pending'[i]] <= Free')

LEMMA RecvKeepsTurn ==
  ASSUME SchedInv, phase = "recv", Idle' \subseteq Idle, freeze' = freeze, phase' = phase,
         ~freeze /\ Cached = {} => Cached' = {} /\ Free' <= Free
                                   /\ \A i \in DOMAIN pending' : StillWaits(i)
  PROVE  TurnInv'
  <1> SUFFICES ASSUME Idle' # {}, ~freeze
               PROVE  Cached' = {} /\ \A i \in DOMAIN pending' : ~(NeedOf[pending'[i]] <= Free')
    BY DEF TurnInv, Fits
  <1>1. Cached = {} /\ \A i \in DOMAIN pending : ~Fits(pending[i])
    BY DEF SchedInv, TurnInv
  <1>2. Cached' = {} /\ Free' <= Free /\ \A i \in DOMAIN pending' : StillWaits(i)
    BY <1>1
  <1>3. Free \in Int /\ Free' \in Int
    <2>1. Slot \in SUBSET Slot /\ TotalBlocks \in Nat
      BY SchedAssumption
    <2>2. Blocks(held, Slot) \in Nat
      BY <2>1, BlocksFinite
    <2>3. Blocks(held', Slot) \in Nat
      BY <2>1, BlocksFinite
    <2>4. Free = TotalBlocks - Blocks(held, Slot) /\ Free' = TotalBlocks - Blocks(held', Slot)
      BY DEF Free, BlocksIn, Blocks
    <2> QED  BY <2>1, <2>2, <2>3, <2>4
  <1>4. ASSUME NEW i \in DOMAIN pending' PROVE ~(NeedOf[pending'[i]] <= Free')
    <2>1. StillWaits(i)
      BY <1>2
    <2>2. CASE i \in DOMAIN pending /\ pending'[i] = pending[i]
      <3>1. NeedOf[pending[i]] \in Nat /\ ~(NeedOf[pending[i]] <= Free)
        BY <1>1, <2>1, <2>2, SchedAssumption DEF StillWaits, Fits
      <3> QED  BY <1>2, <1>3, <2>2, <3>1
    <2> QED  BY <2>1, <2>2 DEF StillWaits
  <1> QED
    BY <1>2, <1>4

LEMMA RecvAssignKeeps == SchedInv /\ RecvAssign => SchedInv'
  <1> SUFFICES ASSUME SchedInv, RecvAssign PROVE SchedInv'
    OBVIOUS
  <1>1. /\ SchedTypeOK /\ PlacesInv /\ Idle # {} /\ queue # <<>> /\ phase = "recv"
        /\ Assign(Head(queue)) /\ queue' = Tail(queue) /\ pending' = pending
        /\ UNCHANGED <<freeze, measured, worked>> /\ phase' = phase
    BY DEF RecvAssign, SchedInv
  <1>2. /\ SchedTypeOK' /\ BlocksIn(Slot)' <= TotalBlocks /\ PlacesInv'
        /\ (Cached = {} => Cached' = {} /\ Free' <= Free) /\ Idle' \subseteq Idle
    BY <1>1, ReceivedLeaves, AssignedKeeps
  <1>3. \A i \in DOMAIN pending' : StillWaits(i)
    BY <1>1 DEF StillWaits, SchedTypeOK
  <1>4. TurnInv'
    BY <1>1, <1>2, <1>3, RecvKeepsTurn
  <1> QED
    BY <1>2, <1>4 DEF SchedInv

LEMMA RecvRefuseKeeps == SchedInv /\ RecvRefuse => SchedInv'
  <1> SUFFICES ASSUME SchedInv, RecvRefuse PROVE SchedInv'
    OBVIOUS
  <1>1. /\ SchedTypeOK /\ PlacesInv /\ queue # <<>> /\ phase = "recv"
        /\ Answer({Head(queue)}) /\ queue' = Tail(queue) /\ pending' = pending
        /\ UNCHANGED <<serves, held, work, freeze, measured, worked>> /\ phase' = phase
    BY DEF RecvRefuse, SchedInv
  <1>2. phase' \in Phases
    BY <1>1 DEF Phases
  <1>3. SchedTypeOK' /\ BlocksIn(Slot)' <= TotalBlocks /\ PlacesInv'
    BY <1>1, <1>2, ReceivedLeaves, RefusedKeeps
  <1>4. TurnInv'
    BY <1>1, TurnKept DEF SchedInv
  <1> QED
    BY <1>3, <1>4 DEF SchedInv

\* A job that passes from one place to another is in the new one only.
LEMMA RecvWaitPlaces ==
  ASSUME SchedTypeOK, PlacesInv, queue # <<>>, UNCHANGED <<open, gone, serves>>,
         queue' = Tail(queue), pending' = Append(pending, Head(queue))
  PROVE  /\ PlacesInv' /\ queue' \in Seq(Client) /\ Len(queue') <= QCap
         /\ pending' \in Seq(Client)
  <1>1. /\ queue \in Seq(Client) /\ Distinct(queue) /\ pending \in Seq(Client)
        /\ Distinct(pending) /\ Range(queue) \cap Range(pending) = {}
        /\ Len(queue) \in Nat /\ Len(queue) <= QCap /\ QCap \in Nat
    BY SchedAssumption DEF SchedTypeOK, PlacesInv
  <1>2. /\ queue' \in Seq(Client) /\ Len(queue') = Len(queue) - 1 /\ Distinct(queue')
        /\ Head(queue) \in Client /\ Head(queue) \in Range(queue)
        /\ Range(queue') = Range(queue) \ {Head(queue)}
    BY <1>1, TailMoves
  <1>3. /\ pending' \in Seq(Client) /\ Distinct(pending')
        /\ Range(pending') = Range(pending) \cup {Head(queue)}
    BY <1>1, <1>2, AppendMoves
  <1>4. PlacesInv'
    BY <1>2, <1>3 DEF PlacesInv
  <1> QED
    BY <1>1, <1>2, <1>3, <1>4

LEMMA RecvWaitKeeps == SchedInv /\ RecvWait => SchedInv'
  <1> SUFFICES ASSUME SchedInv, RecvWait PROVE SchedInv'
    OBVIOUS
  <1>1. /\ SchedTypeOK /\ PlacesInv /\ BlocksIn(Slot) <= TotalBlocks
        /\ queue # <<>> /\ phase = "recv"
        /\ queue' = Tail(queue) /\ pending' = Append(pending, Head(queue))
        /\ UNCHANGED <<open, gone, serves, work, freeze, measured, worked, phase>>
    BY DEF RecvWait, SchedInv
  <1>2. /\ PlacesInv' /\ queue' \in Seq(Client) /\ Len(queue') <= QCap
        /\ pending' \in Seq(Client)
    BY <1>1, RecvWaitPlaces
  <1>3. held' \in [Slot -> 0 .. TotalBlocks] /\ BlocksIn(Slot)' <= TotalBlocks
    <2>1. CASE freeze \/ Cached = {}
      BY <1>1, <2>1, HeldItself, LessHeld DEF RecvWait
    <2>2. CASE ~(freeze \/ Cached = {})
      <3>1. PICK s \in Slot : Reclaim(s)
        BY <2>2 DEF RecvWait, Cached, Idle
      <3> QED  BY <1>1, <3>1, ReclaimGives, LessHeld
    <2> QED  BY <2>1, <2>2
  <1>4. SchedTypeOK'
    BY <1>1, <1>2, <1>3 DEF SchedTypeOK, work
  <1>5. ASSUME ~freeze, Cached = {}
        PROVE  Cached' = {} /\ Free' <= Free /\ \A i \in DOMAIN pending' : StillWaits(i)
    <2>1. held' = held /\ ~Fits(Head(queue))
      BY <1>5 DEF RecvWait
    <2>2. Cached' = Cached /\ Free' = Free
      BY <1>1, <2>1 DEF Cached, Idle, Free, BlocksIn
    <2>3. Free \in Int
      <3>1. Slot \in SUBSET Slot
        OBVIOUS
      <3>2. Blocks(held, Slot) \in Nat
        BY <3>1, BlocksFinite
      <3> QED  BY <3>2, SchedAssumption DEF Free, BlocksIn, Blocks
    <2>4. pending \in Seq(Client) /\ Head(queue) \in Client
      BY <1>1 DEF SchedTypeOK
    <2>5. ASSUME NEW i \in DOMAIN pending' PROVE StillWaits(i)
      <3>1. i \in 1 .. Len(pending) + 1 /\ Len(pending) \in Nat /\ DOMAIN pending = 1 .. Len(pending)
        BY <1>1, <2>4
      <3>2. CASE i = Len(pending) + 1
        BY <1>1, <2>1, <2>2, <2>4, <3>2 DEF StillWaits, Fits
      <3>3. CASE i # Len(pending) + 1
        BY <1>1, <2>4, <3>1, <3>3 DEF StillWaits
      <3> QED  BY <3>2, <3>3
    <2> QED  BY <1>5, <2>2, <2>3, <2>5
  <1>6. Idle' = Idle
    BY <1>1 DEF Idle
  <1>7. TurnInv'
    BY <1>1, <1>5, <1>6, RecvKeepsTurn
  <1> QED
    BY <1>2, <1>3, <1>4, <1>7 DEF SchedInv

LEMMA RecvEndKeeps == SchedInv /\ RecvEnd => SchedInv'
  <1> SUFFICES ASSUME SchedInv, RecvEnd PROVE SchedInv'
    OBVIOUS
  <1>1. SchedTypeOK' /\ BlocksIn(Slot)' <= TotalBlocks /\ PlacesInv'
    <2>1. freeze' \in BOOLEAN /\ phase' \in Phases
      BY DEF RecvEnd, SchedInv, SchedTypeOK, Phases
    <2> QED  BY <2>1, HeldItself, QuietKeeps DEF RecvEnd
  <1>2. TurnInv'
    BY TurnElsewhere DEF RecvEnd
  <1> QED
    BY <1>1, <1>2 DEF SchedInv

-----------------------------------------------------------------------------
(***************************************************************************)
(* The steps in which slots give up their jobs.                            *)
(***************************************************************************)
LEMMA FreedKeeps ==
  ASSUME SchedInv, NEW D \in SUBSET (Slot \ Idle), Freed(D), UNCHANGED <<queue, pending, freeze>>,
         toRead' \in [Slot -> Nat], toGen' \in [Slot -> Nat],
         errs' \in [Slot -> 0 .. ErrMax - 1],
         measured' \in BOOLEAN, worked' \in BOOLEAN, phase' \in Phases
  PROVE  SchedTypeOK' /\ BlocksIn(Slot)' <= TotalBlocks /\ PlacesInv'
  <1>1. SchedTypeOK /\ PlacesInv /\ BlocksIn(Slot) <= TotalBlocks
    BY DEF SchedInv
  <1>2. /\ PlacesInv' /\ serves' \in [Slot -> Client \cup {NoClient}]
        /\ open' \subseteq Client /\ gone' \subseteq open'
        /\ held' \in [Slot -> 0 .. TotalBlocks] /\ BlocksIn(Slot)' <= TotalBlocks
    BY <1>1, FreedPlaces
  <1>3. SchedTypeOK'
    BY <1>1, <1>2 DEF SchedTypeOK, Phases
  <1> QED
    BY <1>2, <1>3

LEMMA DecodeKeeps == SchedInv /\ Decode => SchedInv'
  <1> SUFFICES ASSUME SchedInv, Decode PROVE SchedInv'
    OBVIOUS
  <1>1. SchedTypeOK /\ Active \in SUBSET (Slot \ Idle) /\ Active \in SUBSET Slot
    BY DEF SchedInv, Active
  <1>2. PICK at \in [Active -> {Failed} \union UNION {0 .. toGen[s] - 1 : s \in Active}] :
          /\ Finish(Active, at)
          /\ Counted(Active, at)
          /\ toGen' = [s \in Slot |->
                IF s \notin Active THEN toGen[s]
                ELSE IF serves'[s] = NoClient THEN 0
                ELSE IF at[s] = Failed THEN toGen[s] ELSE at[s]]
    BY DEF Decode
  <1>3. PICK D \in SUBSET Active : Freed(D)
    BY <1>1, <1>2, FinishIs
  <1>4. errs' \in [Slot -> 0 .. ErrMax - 1]
    BY <1>1, <1>2, CountedIs
  <1>5. toGen \in [Slot -> Nat] /\ toRead' \in [Slot -> Nat]
    BY <1>1 DEF Decode, SchedTypeOK
  <1>6. \A s \in Active : at[s] # Failed => at[s] \in Nat
    BY <1>1, <1>2, <1>5
  <1>7. toGen' \in [Slot -> Nat]
    <2>1. ASSUME NEW s \in Slot
          PROVE  (IF s \notin Active THEN toGen[s]
                  ELSE IF serves'[s] = NoClient THEN 0
                  ELSE IF at[s] = Failed THEN toGen[s] ELSE at[s]) \in Nat
      BY <1>5, <1>6
    <2> QED  BY <1>2, <2>1
  <1>8. /\ UNCHANGED <<queue, pending, freeze>> /\ phase' \in Phases
        /\ measured' \in BOOLEAN /\ worked' \in BOOLEAN
    BY <1>1 DEF Decode, SchedTypeOK, Phases
  <1>9. D \in SUBSET (Slot \ Idle)
    BY <1>1
  <1>10. SchedTypeOK' /\ BlocksIn(Slot)' <= TotalBlocks /\ PlacesInv'
    BY <1>3, <1>4, <1>5, <1>7, <1>8, <1>9, FreedKeeps
  <1>11. TurnInv'
    BY TurnElsewhere DEF Decode
  <1> QED
    BY <1>10, <1>11 DEF SchedInv

LEMMA PrefillKeeps == SchedInv /\ Prefill => SchedInv'
  <1> SUFFICES ASSUME SchedInv, Prefill PROVE SchedInv'
    OBVIOUS
  <1>1. SchedTypeOK
    BY DEF SchedInv
  <1>2. PICK s \in Reading :
        \E left \in {toRead[s] - 1, toRead[s]} :
           \E n \in IF left = 0 THEN 0 .. toGen[s] - 1 ELSE {toGen[s]} :
              LET failed == left = toRead[s]
                  at == [t \in {s} |-> IF failed THEN Failed ELSE n]
              IN  /\ Finish({s}, at)
                  /\ IF failed \/ left = 0 THEN Counted({s}, at) ELSE UNCHANGED errs
                  /\ toRead' = [toRead EXCEPT ![s] = IF serves'[s] = NoClient THEN 0 ELSE left]
                  /\ toGen' = [toGen EXCEPT ![s] = IF serves'[s] = NoClient THEN 0 ELSE n]
    BY DEF Prefill
  <1>3. PICK left \in {toRead[s] - 1, toRead[s]} :
           \E n \in IF left = 0 THEN 0 .. toGen[s] - 1 ELSE {toGen[s]} :
              LET failed == left = toRead[s]
                  at == [t \in {s} |-> IF failed THEN Failed ELSE n]
              IN  /\ Finish({s}, at)
                  /\ IF failed \/ left = 0 THEN Counted({s}, at) ELSE UNCHANGED errs
                  /\ toRead' = [toRead EXCEPT ![s] = IF serves'[s] = NoClient THEN 0 ELSE left]
                  /\ toGen' = [toGen EXCEPT ![s] = IF serves'[s] = NoClient THEN 0 ELSE n]
    BY <1>2
  <1> DEFINE failed == left = toRead[s]
  <1>4. PICK n \in IF left = 0 THEN 0 .. toGen[s] - 1 ELSE {toGen[s]} :
             LET at == [t \in {s} |-> IF failed THEN Failed ELSE n]
             IN  /\ Finish({s}, at)
                 /\ IF failed \/ left = 0 THEN Counted({s}, at) ELSE UNCHANGED errs
                 /\ toRead' = [toRead EXCEPT ![s] = IF serves'[s] = NoClient THEN 0 ELSE left]
                 /\ toGen' = [toGen EXCEPT ![s] = IF serves'[s] = NoClient THEN 0 ELSE n]
    BY <1>3
  <1> DEFINE at == [t \in {s} |-> IF failed THEN Failed ELSE n]
  <1>5. /\ Finish({s}, at)
        /\ IF failed \/ left = 0 THEN Counted({s}, at) ELSE UNCHANGED errs
        /\ toRead' = [toRead EXCEPT ![s] = IF serves'[s] = NoClient THEN 0 ELSE left]
        /\ toGen' = [toGen EXCEPT ![s] = IF serves'[s] = NoClient THEN 0 ELSE n]
    BY <1>4
  <1> HIDE DEF at, failed
  <1>6. /\ s \in Slot /\ {s} \in SUBSET Slot /\ {s} \in SUBSET (Slot \ Idle) /\ toRead[s] > 0
        /\ toRead \in [Slot -> Nat] /\ toGen \in [Slot -> Nat]
    BY <1>1 DEF Reading, SchedTypeOK
  <1>7. left \in Nat /\ n \in Nat
    BY <1>6
  <1>8. toRead' \in [Slot -> Nat] /\ toGen' \in [Slot -> Nat]
    BY <1>5, <1>6, <1>7
  <1>9. PICK D \in SUBSET {s} : Freed(D)
    BY <1>1, <1>5, <1>6, FinishIs
  <1>10. errs' \in [Slot -> 0 .. ErrMax - 1]
    <2>1. CASE failed \/ left = 0
      BY <1>1, <1>5, <1>6, <2>1, CountedIs
    <2>2. CASE ~(failed \/ left = 0)
      BY <1>1, <1>5, <2>2 DEF SchedTypeOK
    <2> QED  BY <2>1, <2>2
  <1>11. /\ UNCHANGED <<queue, pending, freeze>> /\ phase' \in {"prefill", "tail"}
         /\ measured' \in BOOLEAN /\ worked' \in BOOLEAN /\ phase' \in Phases
    BY <1>1 DEF Prefill, SchedTypeOK, Phases
  <1>12. D \in SUBSET (Slot \ Idle)
    BY <1>6
  <1>13. SchedTypeOK' /\ BlocksIn(Slot)' <= TotalBlocks /\ PlacesInv'
    BY <1>8, <1>9, <1>10, <1>11, <1>12, FreedKeeps
  <1>14. TurnInv'
    BY <1>11, TurnElsewhere
  <1> QED
    BY <1>13, <1>14 DEF SchedInv

LEMMA HungUpFrees ==
  ASSUME SchedTypeOK, PrefillHungUp
  PROVE  /\ \E D \in SUBSET (Slot \ Idle) : Freed(D)
         /\ toRead' \in [Slot -> Nat] /\ toGen' \in [Slot -> Nat]
         /\ errs' \in [Slot -> 0 .. ErrMax - 1]
  <1>1. serves \in [Slot -> Client \cup {NoClient}] /\ held \in [Slot -> Nat]
    BY SchedAssumption DEF SchedTypeOK
  <1>2. PICK s \in Reading :
        /\ Answer({serves[s]})
        /\ serves' = [serves EXCEPT ![s] = NoClient]
        /\ held' = [held EXCEPT ![s] = 0]
        /\ toRead' = [toRead EXCEPT ![s] = 0]
        /\ toGen' = [toGen EXCEPT ![s] = 0]
        /\ errs' = [errs EXCEPT ![s] = 0]
    BY DEF PrefillHungUp
  <1>3. {s} \in SUBSET (Slot \ Idle) /\ s \in Slot
    BY DEF Reading
  <1>4. Freed({s})
    <2>1. {serves[t] : t \in {s}} = {serves[s]}
      OBVIOUS
    <2>2. serves' = [t \in Slot |-> IF t \in {s} THEN NoClient ELSE serves[t]]
      BY <1>1, <1>2
    <2>3. held' \in [Slot -> Nat] /\ \A t \in Slot : held'[t] <= held[t]
      BY <1>1, <1>2, <1>3
    <2> QED  BY <1>2, <2>1, <2>2, <2>3 DEF Freed
  <1>5. /\ toRead' \in [Slot -> Nat] /\ toGen' \in [Slot -> Nat]
        /\ errs' \in [Slot -> 0 .. ErrMax - 1]
    <2>1. 0 \in 0 .. ErrMax - 1
      BY SchedAssumption
    <2> QED  BY <1>1, <1>2, <1>3, <2>1 DEF SchedTypeOK
  <1> QED
    BY <1>3, <1>4, <1>5

LEMMA PrefillHungUpKeeps == SchedInv /\ PrefillHungUp => SchedInv'
  <1> SUFFICES ASSUME SchedInv, PrefillHungUp PROVE SchedInv'
    OBVIOUS
  <1>1. SchedTypeOK
    BY DEF SchedInv
  <1>2. /\ \E D \in SUBSET (Slot \ Idle) : Freed(D)
        /\ toRead' \in [Slot -> Nat] /\ toGen' \in [Slot -> Nat]
        /\ errs' \in [Slot -> 0 .. ErrMax - 1]
    BY <1>1, HungUpFrees
  <1>3. /\ UNCHANGED <<queue, pending, freeze>> /\ phase' \in {"tail", "decide"}
        /\ measured' \in BOOLEAN /\ worked' \in BOOLEAN /\ phase' \in Phases
    BY <1>1 DEF PrefillHungUp, AfterPrefill, SchedTypeOK, Phases
  <1>4. SchedTypeOK' /\ BlocksIn(Slot)' <= TotalBlocks /\ PlacesInv'
    BY <1>2, <1>3, FreedKeeps
  <1>5. TurnInv'
    BY <1>3, TurnElsewhere
  <1> QED
    BY <1>4, <1>5 DEF SchedInv

LEMMA PrefillNoneKeeps == SchedInv /\ PrefillNone => SchedInv'
  <1> SUFFICES ASSUME SchedInv, PrefillNone PROVE SchedInv'
    OBVIOUS
  <1>1. freeze' \in BOOLEAN /\ phase' \in {"tail", "decide"} /\ phase' \in Phases
    BY DEF PrefillNone, AfterPrefill, SchedInv, SchedTypeOK, Phases
  <1>2. SchedTypeOK' /\ BlocksIn(Slot)' <= TotalBlocks /\ PlacesInv'
    BY <1>1, HeldItself, QuietKeeps DEF PrefillNone
  <1>3. TurnInv'
    BY <1>1, TurnElsewhere
  <1> QED
    BY <1>2, <1>3 DEF SchedInv

-----------------------------------------------------------------------------
(***************************************************************************)
(* The end of a turn, and the clients.                                     *)
(***************************************************************************)
LEMMA TurnKeeps == SchedInv /\ Turn => SchedInv'
  <1> SUFFICES ASSUME SchedInv, Turn PROVE SchedInv'
    OBVIOUS
  <1>1. freeze' \in BOOLEAN /\ phase' \in {"wait", "decide"} /\ phase' \in Phases
    BY DEF Turn, SchedInv, SchedTypeOK, Phases
  <1>2. SchedTypeOK' /\ BlocksIn(Slot)' <= TotalBlocks /\ PlacesInv'
    BY <1>1, HeldItself, QuietKeeps DEF Turn
  <1>3. TurnInv'
    BY DEF Turn, TurnInv, Idle
  <1> QED
    BY <1>2, <1>3 DEF SchedInv

LEMMA WokenReclaimKeeps == SchedInv /\ WokenReclaim => SchedInv'
  <1> SUFFICES ASSUME SchedInv, WokenReclaim PROVE SchedInv'
    OBVIOUS
  <1>1. PICK s \in Slot : Reclaim(s)
    BY DEF WokenReclaim, Cached, Idle
  <1>2. SchedTypeOK' /\ BlocksIn(Slot)' <= TotalBlocks /\ PlacesInv'
    <2>1. SchedTypeOK /\ freeze' \in BOOLEAN /\ phase' \in Phases
      BY DEF WokenReclaim, SchedInv, SchedTypeOK, Phases
    <2> QED  BY <1>1, <2>1, ReclaimGives, QuietKeeps DEF WokenReclaim
  <1>3. TurnInv'
    BY DEF WokenReclaim, SchedInv, TurnInv, Idle
  <1> QED
    BY <1>2, <1>3 DEF SchedInv

LEMMA WokenKeeps == SchedInv /\ Woken => SchedInv'
  <1> SUFFICES ASSUME SchedInv, Woken PROVE SchedInv'
    OBVIOUS
  <1>1. /\ SchedTypeOK /\ PlacesInv /\ queue # <<>> /\ phase = "wait" /\ Idle = Slot
        /\ Slot # {} /\ queue' = Tail(queue) /\ pending' = pending
        /\ UNCHANGED <<freeze, measured, worked>> /\ phase' = "decide"
    BY SchedAssumption DEF Woken, SchedInv, TurnInv
  <1>2. SchedTypeOK' /\ BlocksIn(Slot)' <= TotalBlocks /\ PlacesInv'
    <2>1. CASE Assign(Head(queue))
      BY <1>1, <2>1, ReceivedLeaves, AssignedKeeps
    <2>2. CASE Answer({Head(queue)}) /\ UNCHANGED <<serves, held, work>>
      <3>1. phase' \in Phases
        BY <1>1 DEF Phases
      <3> QED  BY <1>1, <2>2, <3>1, ReceivedLeaves, RefusedKeeps
    <2> QED  BY <2>1, <2>2 DEF Woken
  <1>3. TurnInv'
    BY <1>1, TurnElsewhere
  <1> QED
    BY <1>2, <1>3 DEF SchedInv

LEMMA SendKeeps ==
  ASSUME SchedInv, NEW c \in Client, Send(c)
  PROVE  SchedInv'
  <1>1. /\ SchedTypeOK /\ PlacesInv /\ BlocksIn(Slot) <= TotalBlocks /\ TurnInv
        /\ c \notin open /\ Len(queue) < QCap /\ queue' = Append(queue, c)
        /\ open' = open \cup {c}
        /\ UNCHANGED <<gone, pending, serves, held, work, freeze, measured, worked, phase>>
    BY DEF SchedInv, Send
  <1>2. /\ queue \in Seq(Client) /\ Distinct(queue) /\ Len(queue) \in Nat /\ QCap \in Nat
        /\ c \notin Range(queue) /\ c \notin Range(pending) /\ c \notin ServedBy(serves)
    BY <1>1, SchedAssumption DEF SchedTypeOK, PlacesInv
  <1>3. /\ queue' \in Seq(Client) /\ Len(queue') = Len(queue) + 1 /\ Distinct(queue')
        /\ Range(queue') = Range(queue) \cup {c}
    BY <1>1, <1>2, AppendMoves
  <1>4. Len(queue') <= QCap
    BY <1>1, <1>2, <1>3
  <1>5. PlacesInv'
    BY <1>1, <1>2, <1>3 DEF PlacesInv
  <1>6. SchedTypeOK'
    BY <1>1, <1>3, <1>4 DEF SchedTypeOK, work
  <1>7. BlocksIn(Slot)' <= TotalBlocks /\ TurnInv'
    BY <1>1, TurnKept DEF BlocksIn
  <1> QED
    BY <1>5, <1>6, <1>7 DEF SchedInv

LEMMA HangUpKeeps ==
  ASSUME SchedInv, NEW c \in Client, HangUp(c)
  PROVE  SchedInv'
  <1>1. /\ SchedTypeOK /\ PlacesInv /\ BlocksIn(Slot) <= TotalBlocks /\ TurnInv
        /\ c \in open /\ gone' = gone \cup {c}
        /\ UNCHANGED <<open, queue, pending, serves, held, work, freeze, measured, worked, phase>>
    BY DEF SchedInv, HangUp
  <1>2. SchedTypeOK'
    BY <1>1 DEF SchedTypeOK, work
  <1>3. PlacesInv' /\ BlocksIn(Slot)' <= TotalBlocks /\ TurnInv'
    BY <1>1, PlacesKept, TurnKept DEF BlocksIn
  <1> QED
    BY <1>2, <1>3 DEF SchedInv

LEMMA SchedInvStep == SchedInv /\ [SchedNext]_schedVars => SchedInv'
  <1> SUFFICES ASSUME SchedInv, [SchedNext]_schedVars PROVE SchedInv'
    OBVIOUS
  <1>1. CASE Scheduler
    BY <1>1, DecideKeeps, TakePickKeeps, TakeRefuseKeeps, TakeReclaimKeeps, TakeEndKeeps,
       RecvAssignKeeps, RecvRefuseKeeps, RecvWaitKeeps, RecvEndKeeps,
       DecodeKeeps, PrefillKeeps, PrefillHungUpKeeps, PrefillNoneKeeps,
       TurnKeeps, WokenReclaimKeeps, WokenKeeps DEF Scheduler
  <1>2. CASE \E c \in Client : Send(c) \/ HangUp(c)
    BY <1>2, SendKeeps, HangUpKeeps
  <1>3. CASE UNCHANGED schedVars
    <2>1. UNCHANGED <<open, gone, queue, pending, serves, held, toRead, toGen, errs,
                      freeze, measured, worked, phase>>
      BY <1>3 DEF schedVars
    <2>2. SchedTypeOK'
      BY <2>1 DEF SchedInv, SchedTypeOK
    <2>3. PlacesInv' /\ BlocksIn(Slot)' <= TotalBlocks /\ TurnInv'
      BY <2>1, PlacesKept, TurnKept DEF SchedInv, BlocksIn
    <2> QED  BY <2>2, <2>3 DEF SchedInv
  <1> QED
    BY <1>1, <1>2, <1>3 DEF SchedNext

LEMMA SchedInvariant == SchedSpec => []SchedInv
  BY SchedInvInit, SchedInvStep, PTL DEF SchedSpec

-----------------------------------------------------------------------------
(***************************************************************************)
(* The state of the scheduler keeps its shape: the channel its bound,      *)
(* every slot no more blocks than the pool has, and fewer errors in a row  *)
(* than fail a job, and who has hung up still waits for an answer.         *)
(***************************************************************************)
THEOREM SchedTypeCorrect == SchedSpec => []SchedTypeOK
  <1>1. SchedInv => SchedTypeOK
    BY DEF SchedInv
  <1> QED
    BY <1>1, SchedInvariant, PTL

\* Where a request that the server keeps can be, it is alone.
LEMMA AnsweredOnceHolds == SchedInv => AnsweredOnce
  <1> SUFFICES ASSUME SchedInv, NEW c \in Client
               PROVE  Cardinality(Places(c)) = IF c \in open THEN 1 ELSE 0
    BY DEF AnsweredOnce
  <1>1. /\ Distinct(queue) /\ Distinct(pending) /\ OneSlotEach(serves)
        /\ Range(queue) \cap Range(pending) = {}
        /\ (Range(queue) \cup Range(pending)) \cap ServedBy(serves) = {}
        /\ open = Range(queue) \cup Range(pending) \cup ServedBy(serves)
    BY DEF SchedInv, PlacesInv
  <1>2. c # NoClient
    BY SchedAssumption
  <1> DEFINE Q == {i \in DOMAIN queue : queue[i] = c}
             P == {i \in DOMAIN pending : pending[i] = c}
             S == {s \in Slot : serves[s] = c}
  <1>3. /\ Q # {} <=> c \in Range(queue)
        /\ P # {} <=> c \in Range(pending)
        /\ S # {} <=> c \in ServedBy(serves)
    BY <1>2 DEF Range, ServedBy
  <1>4. /\ \A i, j \in Q : i = j
        /\ \A i, j \in P : i = j
        /\ \A s, t \in S : s = t
    <2>1. \A i, j \in Q : i = j
      BY <1>1 DEF Distinct
    <2>2. \A i, j \in P : i = j
      BY <1>1 DEF Distinct
    <2>3. \A s, t \in S : s = t
      BY <1>1, <1>2 DEF OneSlotEach
    <2> QED  BY <2>1, <2>2, <2>3
  <1>5. Places(c) = {<<"queue", i>> : i \in Q} \cup {<<"pending", i>> : i \in P}
                    \cup {<<"slot", s>> : s \in S}
    BY DEF Places
  <1> HIDE DEF Q, P, S
  <1>6. CASE c \notin open
    <2>1. Q = {} /\ P = {} /\ S = {}
      BY <1>1, <1>3, <1>6
    <2>2. Places(c) = {}
      BY <1>5, <2>1
    <2> QED  BY <1>6, <2>2, FS_EmptySet
  <1>7. CASE c \in open
    <2>1. \E x : Places(c) = {x}
      <3>1. CASE c \in Range(queue)
        <4>1. P = {} /\ S = {}
          BY <1>1, <1>3, <3>1
        <4>2. PICK i \in Q : Q = {i}
          BY <1>3, <1>4, <3>1
        <4>3. Places(c) = {<<"queue", i>>}
          BY <1>5, <4>1, <4>2
        <4> QED  BY <4>3
      <3>2. CASE c \in Range(pending)
        <4>1. Q = {} /\ S = {}
          BY <1>1, <1>3, <3>2
        <4>2. PICK i \in P : P = {i}
          BY <1>3, <1>4, <3>2
        <4>3. Places(c) = {<<"pending", i>>}
          BY <1>5, <4>1, <4>2
        <4> QED  BY <4>3
      <3>3. CASE c \in ServedBy(serves)
        <4>1. Q = {} /\ P = {}
          BY <1>1, <1>3, <3>3
        <4>2. PICK s \in S : S = {s}
          BY <1>3, <1>4, <3>3
        <4>3. Places(c) = {<<"slot", s>>}
          BY <1>5, <4>1, <4>2
        <4> QED  BY <4>3
      <3> QED  BY <1>1, <1>7, <3>1, <3>2, <3>3
    <2> QED  BY <1>7, <2>1, FS_Singleton
  <1> QED
    BY <1>6, <1>7

(***************************************************************************)
(* A request waits in the channel, in the pending list or in one slot      *)
(* until it is answered, for any number of clients, slots and blocks, and  *)
(* is nowhere afterwards.                                                  *)
(***************************************************************************)
THEOREM EachAnsweredOnce == SchedSpec => []AnsweredOnce
  BY SchedInvariant, AnsweredOnceHolds, PTL
-----------------------------------------------------------------------------
(***************************************************************************)
(* Who may enter a slot.                                                   *)
(***************************************************************************)
LEMMA NobodyEnters ==
  ASSUME SchedTypeOK, \A s \in Slot : serves'[s] = serves[s] \/ serves'[s] = NoClient,
         NEW c \in Client
  PROVE  ~Enters(c)
  BY SchedAssumption DEF Enters

LEMMA AssignedEnters ==
  ASSUME SchedInv, Idle # {}, NEW c \in Client, Assign(c), NEW d \in Client, Enters(d)
  PROVE  d = c
  <1>1. SchedTypeOK /\ BlocksIn(Slot) <= TotalBlocks /\ serves \in [Slot -> Client \cup {NoClient}]
    BY DEF SchedInv, SchedTypeOK
  <1>2. PICK s \in Idle, ok \in BOOLEAN : Assigned(c, s, ok)
    BY <1>1, AssignIs
  <1>3. PICK t \in Slot : serves[t] # d /\ serves'[t] = d
    BY DEF Enters
  <1>4. serves' = [serves EXCEPT ![s] = IF ok THEN c ELSE NoClient] /\ d # NoClient
    BY <1>2, SchedAssumption DEF Assigned
  <1> QED
    BY <1>1, <1>3, <1>4

LEMMA FreedEnters ==
  ASSUME NEW D, Freed(D)
  PROVE  \A s \in Slot : serves'[s] = serves[s] \/ serves'[s] = NoClient
  BY DEF Freed

\* The least of the picks stands before every other job that fits.
LEMMA TakePickOvertakes ==
  ASSUME SchedInv, TakePick, NEW d \in Client
  PROVE  ~Overtaken(d)
  <1> DEFINE k == Min(Picks)
  <1>1. /\ SchedTypeOK /\ Picks # {} /\ Idle # {} /\ pending \in Seq(Client)
        /\ Picks \in SUBSET DOMAIN pending
    BY DEF TakePick, SchedInv, SchedTypeOK, Picks
  <1>2. k \in Picks /\ k \in DOMAIN pending /\ \A i \in Picks : k <= i
    BY <1>1, LeastPending
  <1>3. Assign(pending[k])
    BY DEF TakePick
  <1> HIDE DEF k
  <1>4. pending[k] \in Client /\ DOMAIN pending = 1 .. Len(pending) /\ Len(pending) \in Nat
    BY <1>1, <1>2
  <1> SUFFICES ASSUME Enters(d), NEW i \in Ahead(d), freeze \/ Fits(pending[i])
               PROVE  FALSE
    BY DEF Overtaken
  <1>5. d = pending[k]
    BY <1>1, <1>3, <1>4, AssignedEnters
  <1>6. i \in DOMAIN pending /\ \A j \in 1 .. i : pending[j] # d
    BY DEF Ahead
  <1>7. i \in 1 .. Len(pending) /\ k \in 1 .. Len(pending)
    BY <1>2, <1>4, <1>6
  <1>8. ~(k <= i)
    BY <1>4, <1>5, <1>6, <1>7
  <1>9. CASE freeze
    BY <1>2, <1>7, <1>8, <1>9 DEF Picks
  <1>10. CASE ~freeze
    <2>1. i \in Picks
      BY <1>6, <1>10 DEF Picks
    <2> QED  BY <1>2, <1>8, <2>1
  <1> QED
    BY <1>9, <1>10

\* In the second loop nothing that is pending fits.
LEMMA RecvAssignOvertakes ==
  ASSUME SchedInv, RecvAssign, NEW d \in Client
  PROVE  ~Overtaken(d)
  BY DEF SchedInv, TurnInv, RecvAssign, Overtaken, Ahead

\* Whoever wakes the server finds nobody pending.
LEMMA WokenOvertakes ==
  ASSUME SchedInv, Woken, NEW d \in Client
  PROVE  ~Overtaken(d)
  <1>1. pending = <<>>
    BY DEF SchedInv, TurnInv, Woken
  <1> QED
    BY <1>1 DEF Overtaken, Ahead

LEMMA EndingOvertakes ==
  ASSUME SchedInv, Decode \/ Prefill \/ PrefillHungUp, NEW d \in Client
  PROVE  ~Overtaken(d)
  <1>1. SchedTypeOK /\ serves \in [Slot -> Client \cup {NoClient}]
    BY DEF SchedInv, SchedTypeOK
  <1>2. \A s \in Slot : serves'[s] = serves[s] \/ serves'[s] = NoClient
    <2>1. CASE \E S, at : Finish(S, at)
      BY <2>1 DEF Finish
    <2>2. CASE PrefillHungUp
      BY <1>1, <2>2 DEF PrefillHungUp
    <2>3. Decode \/ Prefill => \E S, at : Finish(S, at)
      <3>1. Decode => \E S, at : Finish(S, at)
        BY DEF Decode
      <3>2. Prefill => \E S, at : Finish(S, at)
        BY DEF Prefill
      <3> QED  BY <3>1, <3>2
    <2> QED  BY <2>1, <2>2, <2>3
  <1> QED
    BY <1>1, <1>2, NobodyEnters DEF Overtaken

LEMMA NobodyOvertaken ==
  ASSUME SchedInv, [SchedNext]_schedVars, NEW d \in Client
  PROVE  ~Overtaken(d)
  <1>1. CASE serves' = serves
    BY <1>1 DEF Overtaken, Enters
  <1>2. CASE TakePick \/ RecvAssign \/ Woken
    BY <1>2, TakePickOvertakes, RecvAssignOvertakes, WokenOvertakes
  <1>3. CASE Decode \/ Prefill \/ PrefillHungUp
    BY <1>3, EndingOvertakes
  <1>4. \/ serves' = serves
        \/ TakePick \/ RecvAssign \/ Woken \/ Decode \/ Prefill \/ PrefillHungUp
    BY DEF SchedNext, Scheduler, schedVars, Decide, TakeRefuse, TakeReclaim, TakeEnd,
           RecvRefuse, RecvWait, RecvEnd, PrefillNone, Turn, WokenReclaim, Send, HangUp
  <1> QED
    BY <1>1, <1>2, <1>3, <1>4

(***************************************************************************)
(* No job enters a slot past a pending one that fits, or past a frozen     *)
(* head, whichever of the three ways it takes in.                          *)
(***************************************************************************)
THEOREM NoneOvertakes == SchedSpec => NoOvertaking
  <1>1. SchedInv /\ [SchedNext]_schedVars => [\A c \in Client : ~Overtaken(c)]_schedVars
    BY NobodyOvertaken
  <1> QED
    BY <1>1, SchedInvariant, PTL DEF SchedSpec, NoOvertaking

-----------------------------------------------------------------------------
(***************************************************************************)
(* The refinement: every step of the scheduler is a step of the server     *)
(* that its clients see, or changes nothing they see.                      *)
(***************************************************************************)
Waiting == Range(queue) \cup Range(pending)

Served == {serves[s] : s \in Slot \ Idle}

LEMMA ServedIs == Served = ServedBy(serves) /\ Served' = ServedBy(serves)'
  BY DEF Served, ServedBy, Idle

\* While a slot is idle there is a lane for one request more.
LEMMA LaneFree ==
  ASSUME NEW s \in Idle
  PROVE  Cardinality(Served) < Cardinality(Slot)
  <1> DEFINE Busy == Slot \ Idle
             f == [t \in Busy |-> serves[t]]
  <1>1. s \in Slot /\ IsFiniteSet(Slot)
    BY SchedAssumption DEF Idle
  <1>2. f \in Surjection(Busy, Served)
    BY DEF Surjection, Served
  <1>3. IsFiniteSet(Slot \ {s}) /\ Cardinality(Slot \ {s}) = Cardinality(Slot) - 1
    BY <1>1, FS_RemoveElement
  <1>4. Busy \in SUBSET (Slot \ {s})
    OBVIOUS
  <1> HIDE DEF Busy, f
  <1>5. IsFiniteSet(Busy) /\ Cardinality(Busy) <= Cardinality(Slot \ {s})
    BY <1>3, <1>4, FS_Subset
  <1>6. IsFiniteSet(Served) /\ Cardinality(Served) <= Cardinality(Busy)
    BY <1>2, <1>5, FS_Surjection
  <1>7. Cardinality(Slot) \in Nat /\ Cardinality(Busy) \in Nat /\ Cardinality(Served) \in Nat
    BY <1>1, <1>5, <1>6, FS_CardinalityType
  <1> QED
    BY <1>3, <1>5, <1>6, <1>7

LEMMA ServerQuiet ==
  ASSUME serves' = serves, Waiting' = Waiting
  PROVE  UNCHANGED Server!serverVars
  BY DEF Waiting, Idle, Server!serverVars

LEMMA ServerRefuses ==
  ASSUME NEW c \in Client, c \in Waiting, Waiting' = Waiting \ {c}, serves' = serves
  PROVE  Server!ServerNext
  <1>1. Server!Refuse(c)
    BY DEF Waiting, Idle, Server!Refuse
  <1> QED
    BY <1>1 DEF Server!ServerNext

\* RequestServer counts its lanes by an instance of the same operator.
LEMMA SameCount ==
  ASSUME NEW S
  PROVE  Server!Cardinality(S) = Cardinality(S)
  BY DEF Cardinality, Server!Cardinality

LEMMA ServerAssigns ==
  ASSUME SchedInv, Idle # {}, NEW c \in Client, Assign(c), c \in Waiting,
         Waiting' = Waiting \ {c}
  PROVE  Server!ServerNext
  <1>1. /\ SchedTypeOK /\ BlocksIn(Slot) <= TotalBlocks /\ PlacesInv
        /\ serves \in [Slot -> Client \cup {NoClient}]
    BY DEF SchedInv, SchedTypeOK
  <1>2. PICK s \in Idle, ok \in BOOLEAN : Assigned(c, s, ok)
    BY <1>1, AssignIs
  <1>3. s \in Slot /\ serves[s] = NoClient
    BY DEF Idle
  <1>4. CASE ok
    <2>1. ServedBy(serves') = ServedBy(serves) \cup {c}
      <3>1. serves' = [serves EXCEPT ![s] = c]
        BY <1>2, <1>4 DEF Assigned
      <3>2. OneSlotEach(serves) /\ c \notin ServedBy(serves)
        BY <1>1 DEF PlacesInv, Waiting
      <3> QED  BY <1>1, <1>3, <3>1, <3>2, ServeMoves
    <2>2. Served' = Served \cup {c}
      BY <2>1, ServedIs DEF ServedBy
    <2>3. Cardinality(Served) < Cardinality(Slot)
      BY LaneFree
    <2>4. Server!Serve(c)
      BY <2>2, <2>3, SameCount DEF Server!Serve, Waiting, Served
    <2> QED  BY <2>4 DEF Server!ServerNext
  <1>5. CASE ~ok
    <2>1. serves' = serves
      BY <1>1, <1>2, <1>3, <1>5 DEF Assigned
    <2> QED  BY <2>1, ServerRefuses
  <1> QED
    BY <1>4, <1>5

LEMMA ServerAnswers ==
  ASSUME SchedInv, NEW D \in SUBSET (Slot \ Idle), Freed(D), UNCHANGED <<queue, pending>>
  PROVE  Server!ServerNext
  <1>1. /\ D \in SUBSET Slot /\ serves \in [Slot -> Client \cup {NoClient}]
        /\ OneSlotEach(serves)
    BY DEF SchedInv, SchedTypeOK, PlacesInv
  <1>2. {serves[s] : s \in D} \in SUBSET Client
    BY <1>1 DEF Idle
  <1>3. PICK C \in SUBSET Client : C = {serves[s] : s \in D}
    BY <1>2
  <1>4. serves' = [s \in Slot |-> IF s \in D THEN NoClient ELSE serves[s]]
    BY DEF Freed
  <1>5. ServedBy(serves') = ServedBy(serves) \ C
    BY ONLY <1>1, <1>3, <1>4, FreeMoves
  <1>6. Served' = Served \ C
    BY <1>5, ServedIs DEF ServedBy
  <1>7. C \subseteq Served
    BY <1>3 DEF Served
  <1>8. Server!Answer(C)
    BY <1>6, <1>7 DEF Server!Answer, Served
  <1> QED
    BY <1>8 DEF Server!ServerNext

\* Each action of the scheduler, seen by the clients.
LEMMA ServerStep ==
  SchedInv /\ [SchedNext]_schedVars => [Server!ServerNext]_Server!serverVars
  <1> SUFFICES ASSUME SchedInv, [SchedNext]_schedVars
               PROVE  Server!ServerNext \/ UNCHANGED Server!serverVars
    OBVIOUS
  <1>0. /\ SchedTypeOK /\ PlacesInv /\ BlocksIn(Slot) <= TotalBlocks
        /\ Range(queue) \cap Range(pending) = {}
    BY DEF SchedInv, PlacesInv
  <1>1. CASE UNCHANGED <<queue, pending, serves>>
    BY <1>1, ServerQuiet DEF Waiting
  <1>2. CASE TakePick \/ TakeRefuse
    <2>1. PICK k \in DOMAIN pending :
             /\ pending' = RemoveAt(pending, k) /\ queue' = queue
             /\ (Assign(pending[k]) /\ Idle # {}) \/ serves' = serves
      <3>1. CASE TakePick
        BY <1>0, <3>1, LeastPending DEF TakePick, Picks
      <3>2. CASE TakeRefuse
        BY <1>0, <3>2, LeastPending DEF TakeRefuse, Refused
      <3> QED  BY <1>2, <3>1, <3>2
    <2>2. pending[k] \in Client /\ pending[k] \in Waiting /\ Waiting' = Waiting \ {pending[k]}
      BY <1>0, <2>1, PickedLeaves DEF Waiting
    <2> QED  BY <2>1, <2>2, ServerAssigns, ServerRefuses
  <1>3. CASE RecvAssign \/ RecvRefuse \/ Woken
    <2>1. /\ queue # <<>> /\ pending' = pending /\ queue' = Tail(queue)
          /\ (Assign(Head(queue)) /\ Idle # {}) \/ serves' = serves
      BY <1>3, SchedAssumption DEF RecvAssign, RecvRefuse, Woken, SchedInv, TurnInv
    <2>2. Head(queue) \in Client /\ Head(queue) \in Waiting /\ Waiting' = Waiting \ {Head(queue)}
      BY <1>0, <2>1, ReceivedLeaves DEF Waiting
    <2> QED  BY <2>1, <2>2, ServerAssigns, ServerRefuses
  <1>4. CASE RecvWait
    <2>1. /\ queue # <<>> /\ queue' = Tail(queue) /\ pending' = Append(pending, Head(queue))
          /\ serves' = serves /\ queue \in Seq(Client) /\ Distinct(queue)
          /\ pending \in Seq(Client) /\ Distinct(pending)
      BY <1>0, <1>4 DEF RecvWait, SchedTypeOK, PlacesInv
    <2>2. /\ Head(queue) \in Client /\ Head(queue) \in Range(queue)
          /\ Range(queue') = Range(queue) \ {Head(queue)}
      BY <2>1, TailMoves
    <2>3. Range(pending') = Range(pending) \cup {Head(queue)}
      BY <1>0, <2>1, <2>2, AppendMoves
    <2>4. Waiting' = Waiting
      BY <2>2, <2>3 DEF Waiting
    <2> QED  BY <2>1, <2>4, ServerQuiet
  <1>5. CASE Decode \/ Prefill \/ PrefillHungUp
    <2>1. \E D \in SUBSET (Slot \ Idle) : Freed(D)
      <3>1. CASE \E S \in SUBSET (Slot \ Idle) : \E at : Finish(S, at)
        BY <1>0, <3>1, FinishIs
      <3>2. Decode => \E S \in SUBSET (Slot \ Idle) : \E at : Finish(S, at)
        BY DEF Decode, Active
      <3>3. Prefill => \E S \in SUBSET (Slot \ Idle) : \E at : Finish(S, at)
        BY DEF Prefill, Reading
      <3>4. CASE PrefillHungUp
        BY <1>0, <3>4, HungUpFrees
      <3> QED  BY <1>5, <3>1, <3>2, <3>3, <3>4
    <2>2. UNCHANGED <<queue, pending>>
      BY <1>5 DEF Decode, Prefill, PrefillHungUp
    <2> QED  BY <2>1, <2>2, ServerAnswers
  <1>6. ASSUME NEW c \in Client, Send(c)
        PROVE  Server!ServerNext
    <2>1. /\ queue' = Append(queue, c) /\ pending' = pending /\ serves' = serves
          /\ c \notin Waiting /\ c \notin ServedBy(serves)
          /\ queue \in Seq(Client) /\ Distinct(queue)
      BY <1>0, <1>6 DEF Send, SchedTypeOK, PlacesInv, Waiting
    <2>2. Range(queue') = Range(queue) \cup {c}
      BY <2>1, AppendMoves DEF Waiting
    <2>3. Waiting' = Waiting \cup {c} /\ Served' = Served /\ c \notin Served
      BY <2>1, <2>2, ServedIs DEF Waiting, Served, Idle
    <2>4. Server!Accept(c)
      BY <2>1, <2>3 DEF Server!Accept, Waiting, Served
    <2> QED  BY <2>4 DEF Server!ServerNext
  <1>7. \/ UNCHANGED <<queue, pending, serves>>
        \/ TakePick \/ TakeRefuse \/ RecvAssign \/ RecvRefuse \/ RecvWait \/ Woken
        \/ Decode \/ Prefill \/ PrefillHungUp
        \/ \E c \in Client : Send(c)
    BY DEF SchedNext, Scheduler, schedVars, Decide, TakeReclaim, TakeEnd,
           RecvEnd, PrefillNone, Turn, WokenReclaim, HangUp
  <1> QED
    BY <1>1, <1>2, <1>3, <1>4, <1>5, <1>6, <1>7

(***************************************************************************)
(* The scheduler is the server its clients see: a request that was         *)
(* accepted waits, is served once in one of the slots, never put back,     *)
(* and leaves with one answer, for any number of clients, slots and        *)
(* blocks.                                                                 *)
(***************************************************************************)
THEOREM SchedulerServesOnce == SchedSpec => ServesOnce
  <1>1. SchedInit => Server!ServerInit
    BY DEF SchedInit, Server!ServerInit, Range, Idle
  <1> QED
    BY <1>1, ServerStep, SchedInvariant, PTL DEF SchedSpec, ServesOnce, Server!ServerSpec
=============================================================================
