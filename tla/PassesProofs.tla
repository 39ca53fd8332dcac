---------------------------- MODULE PassesProofs ----------------------------
(***************************************************************************)
(* Proofs about what a pass finds on the device: the blocks of its rows    *)
(* (KvSlots), and what the stretch before left of a text (FnText).         *)
(*                                                                         *)
(* Of KvSlots, the invariants the runs check are not inductive one by one: *)
(* that a pass finds its blocks depends on the reservation, that the       *)
(* reservation covers the window depends on how far the trimming floor     *)
(* stays behind the position, and that a reused prefix is intact depends   *)
(* on what an idle slot kept.  SlotInv joins them.  The trimmed prefix is  *)
(* where the Gemma engine differs from what one would like (see the        *)
(* README): the theorems assume that no request shares only a part of a    *)
(* cached conversation in that engine.                                     *)
(*                                                                         *)
(* Of FnText, StretchInv says that every cache is a function of the number *)
(* of positions done, wherever the stretches began.                        *)
(***************************************************************************)
EXTENDS KvSlots, FnText, DataLemmas

WholeSharing == Gemma => ~PartialSharing

\* The rows of slot s that were written and not trimmed.
Live(s) == {e \in Entry :
    /\ e[2] * BT < pos[s]
    /\ ~(e[1] \in Sliding /\ e[2] * BT + BT <= kvFloor[s])}

JobInv == \A s \in Slot : ~Idle(s) =>
    /\ pos[s] < job[s].prompt \/ pos[s] + 2 <= job[s].prompt + job[s].predict
    /\ Want(Need(job[s]), kvFloor[s]) \subseteq mapped[s]

IdleInv == \A s \in Slot : Idle(s) =>
    /\ cached[s] = 0 => mapped[s] = {}
    /\ cached[s] > 0 => mapped[s] # {} /\ Live(s) \subseteq mapped[s]

FloorInv == \A s \in Slot :
    /\ \E k \in Nat : kvFloor[s] = k * BT
    /\ kvFloor[s] = 0 \/ (Gemma /\ kvFloor[s] + SW + BT <= pos[s])

HollowInv == \A s \in Slot : hollow[s] = {}

SlotInv == SlotsTypeOK /\ JobInv /\ IdleInv /\ FloorInv /\ HollowInv /\ ~exhausted

-----------------------------------------------------------------------------
(***************************************************************************)
(* Arithmetic of blocks and rows.                                          *)
(***************************************************************************)
LEMMA DivLe == ASSUME NEW d \in Nat \ {0}, NEW m \in Nat
               PROVE  m \div d \in Nat /\ (m \div d) * d <= m
  OBVIOUS

LEMMA DivBelow == ASSUME NEW d \in Nat \ {0}, NEW m \in Nat, NEW e \in Nat,
                         e < m \div d
                  PROVE  e * d + d <= m
  <1> DEFINE q == m \div d
  <1>1. q \in Nat /\ q * d <= m
    BY DivLe
  <1>2. e + 1 <= q
    BY <1>1
  <1> HIDE DEF q
  <1>3. (e + 1) * d <= q * d
    BY <1>1, <1>2
  <1>4. (e + 1) * d = e * d + d
    OBVIOUS
  <1> QED
    BY <1>1, <1>3, <1>4

LEMMA DivAbove == ASSUME NEW d \in Nat \ {0}, NEW m \in Nat, NEW e \in Nat,
                         e * d <= m
                  PROVE  e <= m \div d
  OBVIOUS

LEMMA TimesLess == ASSUME NEW d \in Nat \ {0}, NEW a \in Nat, NEW b \in Nat,
                          a * d < b * d
                   PROVE  a < b
  <1>1. SUFFICES ASSUME b <= a PROVE FALSE
    OBVIOUS
  <1>2. b * d <= a * d
    BY <1>1
  <1> QED
    BY <1>2

-----------------------------------------------------------------------------
(***************************************************************************)
(* Facts about the operators of the model.                                 *)
(***************************************************************************)
LEMMA CapNat == Cap \in Nat /\ Cardinality(Layer) \in Nat \ {0}
  <1>1. Cap \in Nat
    BY SlotsAssumption DEF Cap
  <1>2. Cardinality(Layer) \in Nat /\ Cardinality(Layer) # 0
    BY SlotsAssumption, FS_CardinalityType, FS_EmptySet
  <1> QED
    BY <1>1, <1>2

LEMMA ClampedNat == ASSUME NEW p \in Nat, NEW n \in Nat
                    PROVE  Clamped(p, n) \in Nat \ {0}
  BY SlotsAssumption DEF Clamped, MaxOf, MinOf

\* A job that passed the front end fits the context with its slack.
LEMMA JobFits == ASSUME NEW j \in Jobs
                 PROVE  /\ j.prompt \in Nat \ {0} /\ j.predict \in Nat \ {0}
                        /\ j = [prompt |-> j.prompt, predict |-> j.predict]
                        /\ Need(j) = j.prompt + j.predict + VerifyMax
                        /\ Need(j) \in Nat /\ Need(j) <= Cap
                        /\ j # NoJob
  <1>1. j.prompt \in Prompts /\ j = [prompt |-> j.prompt, predict |-> j.predict]
    BY DEF Jobs
  <1>2. j.prompt \in Nat \ {0}
    BY <1>1, SlotsAssumption
  <1>3. PICK n \in Predicts : j.predict = Clamped(j.prompt, n)
    BY DEF Jobs
  <1>4. j.predict \in Nat \ {0}
    BY <1>2, <1>3, ClampedNat, SlotsAssumption
  <1>5. PoolCap \in Int /\ PoolCap <= Cap
    <2> DEFINE c == (TotalBlocks \div Cardinality(Layer)) * BT - 2
    <2>1. TotalBlocks \div Cardinality(Layer) \in Nat
      BY CapNat, DivLe, SlotsAssumption
    <2>2. c \in Int
      BY <2>1, SlotsAssumption
    <2> HIDE DEF c
    <2>3. PoolCap = IF c >= BT THEN MinOf(Cap, c) ELSE Cap
      BY DEF PoolCap, c
    <2> QED
      BY <2>2, <2>3, CapNat, SlotsAssumption DEF MinOf
  <1>6. j.prompt + j.predict + VerifyMax <= PoolCap
    BY DEF Jobs
  <1>7. j # NoJob
    BY <1>2 DEF NoJob
  <1> QED
    BY <1>1, <1>2, <1>4, <1>5, <1>6, <1>7, CapNat, SlotsAssumption DEF Need

\* Less rows want fewer blocks, and so does a higher floor.
LEMMA WantMonotone == ASSUME NEW m \in Nat, NEW n \in Nat, m <= n,
                             NEW f \in Nat, NEW g \in Nat, f <= g
                      PROVE  Want(m, g) \subseteq Want(n, f)
  <1> SUFFICES ASSUME NEW e \in Want(m, g)
               PROVE  e \in Want(n, f)
    OBVIOUS
  <1>1. e \in Entry /\ e[2] \in Nat
    BY SlotsAssumption DEF Want, Entry
  <1>2. e[2] * BT \in Nat
    BY <1>1, SlotsAssumption
  <1> QED
    BY <1>1, <1>2, SlotsAssumption DEF Want

LEMMA EntryFinite == IsFiniteSet(Entry)
  <1>1. IsFiniteSet(0 .. Mb - 1)
    BY FS_Interval, SlotsAssumption
  <1> QED
    BY <1>1, FS_Product, SlotsAssumption DEF Entry

\* kv_blocks_needed counts at least what kv_grow will ask for.
LEMMA WantCount == ASSUME NEW n \in Nat, NEW f \in Nat
                   PROVE  /\ IsFiniteSet(Want(n, f))
                          /\ Cardinality(Want(n, f)) <= BlocksNeeded(n)
                          /\ BlocksNeeded(n) \in Nat
  <1> DEFINE b == BlocksOf(n)
             m == n + 2 + BT - 1
             R == Layer \X (0 .. b - 1)
  <1>1. m \in Nat /\ m \div BT \in Nat
    BY DivLe, SlotsAssumption
  <1>2. b \in Nat
    BY <1>1, SlotsAssumption DEF BlocksOf, MinOf
  <1>3. Want(n, f) \subseteq R
    <2> SUFFICES ASSUME NEW e \in Want(n, f)
                 PROVE  e \in R
      OBVIOUS
    <2>1. e \in Entry /\ e[2] * BT < n + 2
      BY DEF Want
    <2>2. e[1] \in Layer /\ e[2] \in 0 .. Mb - 1 /\ e = <<e[1], e[2]>>
      BY <2>1 DEF Entry
    <2>3. (e[2] + 1) * BT = e[2] * BT + BT /\ e[2] * BT \in Nat /\ e[2] + 1 \in Nat
      BY <2>2, SlotsAssumption
    <2>4. (e[2] + 1) * BT <= m
      BY <2>1, <2>3, SlotsAssumption
    <2>5. e[2] + 1 <= m \div BT
      BY <1>1, <2>3, <2>4, DivAbove, SlotsAssumption
    <2>6. e[2] <= b - 1
      BY <1>1, <2>2, <2>5, SlotsAssumption DEF BlocksOf, MinOf
    <2> QED
      BY <1>2, <2>2, <2>6
  <1> HIDE DEF b
  <1>4. IsFiniteSet(0 .. b - 1) /\ Cardinality(0 .. b - 1) = b
    BY <1>2, FS_Interval
  <1>5. /\ IsFiniteSet(R)
        /\ Cardinality(R) = Cardinality(Layer) * b
    BY <1>4, FS_Product, SlotsAssumption
  <1>6. IsFiniteSet(Want(n, f)) /\ Cardinality(Want(n, f)) <= Cardinality(R)
    BY <1>3, <1>5, FS_Subset
  <1>7. BlocksNeeded(n) = Cardinality(R) /\ BlocksNeeded(n) \in Nat
    BY <1>2, <1>5, CapNat DEF BlocksNeeded, b
  <1> QED
    BY <1>6, <1>7

LEMMA FloorBehind == ASSUME NEW p \in Nat
                     PROVE  /\ FloorForPos(p) \in Nat
                            /\ \E k \in Nat : FloorForPos(p) = k * BT
                            /\ FloorForPos(p) = 0 \/ FloorForPos(p) + SW + BT <= p
  <1>1. CASE p > SW + BT
    <2> DEFINE m == p - SW - BT
    <2>1. m \in Nat
      BY <1>1, SlotsAssumption
    <2> HIDE DEF m
    <2>2. m \div BT \in Nat /\ (m \div BT) * BT <= m
      BY <2>1, DivLe, SlotsAssumption
    <2>3. FloorForPos(p) = (m \div BT) * BT
      BY <1>1 DEF FloorForPos, m
    <2>4. FloorForPos(p) \in Nat
      BY <2>2, <2>3, SlotsAssumption
    <2> QED
      BY <2>1, <2>2, <2>3, <2>4, SlotsAssumption DEF m
  <1>2. CASE ~(p > SW + BT)
    <2>1. FloorForPos(p) = 0 /\ 0 = 0 * BT
      BY <1>2, SlotsAssumption DEF FloorForPos
    <2> QED
      BY <2>1
  <1> QED
    BY <1>1, <1>2

\* Trimming to a floor gives no wanted block back.
LEMMA TrimKeepsWanted == ASSUME NEW n \in Nat, NEW f \in Nat, NEW g \in Nat, f <= g,
                                NEW held, Want(n, f) \subseteq held
                         PROVE  Want(n, g) \subseteq Trimmed(held, g)
  <1> SUFFICES ASSUME NEW e \in Want(n, g)
               PROVE  e \in Trimmed(held, g)
    OBVIOUS
  <1>1. e \in held
    BY WantMonotone
  <1>2. e[2] \in Nat /\ ~(e[1] \in Sliding /\ e[2] * BT + BT <= g)
    BY SlotsAssumption DEF Want, Entry
  <1>3. e[2] < g \div BT => e[2] * BT + BT <= g
    BY <1>2, DivBelow, SlotsAssumption
  <1> QED
    BY <1>1, <1>2, <1>3 DEF Trimmed

\* A floor inside the context leaves a block to hold.
LEMMA WantSome == ASSUME NEW n \in Nat, NEW f \in Nat, f < n, n <= Cap,
                         NEW k \in Nat, f = k * BT
                  PROVE  Want(n, f) # {}
  <1>1. PICK l \in Layer : TRUE
    BY SlotsAssumption
  <1>2. k < Mb
    BY TimesLess, SlotsAssumption, CapNat DEF Cap
  <1>3. <<l, k>> \in Entry
    BY <1>2, SlotsAssumption DEF Entry
  <1>4. <<l, k>> \in Want(n, f)
    BY <1>3, SlotsAssumption DEF Want
  <1> QED
    BY <1>4

\* What is live below row n is wanted for n rows.
LEMMA LiveWanted == ASSUME NEW s \in Slot, pos[s] \in Nat, NEW n \in Nat, pos[s] <= n
                    PROVE  Live(s) \subseteq Want(n, kvFloor[s])
  <1> SUFFICES ASSUME NEW e \in Live(s)
               PROVE  e \in Want(n, kvFloor[s])
    OBVIOUS
  <1>1. e \in Entry /\ e[2] * BT \in Nat
    BY SlotsAssumption DEF Live, Entry
  <1> QED
    BY <1>1 DEF Live, Want

-----------------------------------------------------------------------------
(***************************************************************************)
(* A pass that stays within the reservation keeps the invariant.           *)
(***************************************************************************)
LEMMA PassKeeps ==
  ASSUME SlotInv, NEW s \in Slot, ~Idle(s),
         NEW t \in Nat, NEW k \in Nat, k <= t, NEW trims \in BOOLEAN, trims => Gemma,
         pos[s] + t + 2 <= Need(job[s]),
         Pass(s, t, k, trims)
  PROVE  SlotInv'
  <1> DEFINE j == job[s]
             ask == pos[s] + t + IF Gemma THEN 0 ELSE 2
             skip == ~Gemma /\ ask <= kvAssigned[s]
             E == IF skip THEN {} ELSE Want(ask, kvFloor[s])
             p == pos[s] + k
             fl == IF trims /\ FloorForPos(p) > kvFloor[s]
                   THEN FloorForPos(p) ELSE kvFloor[s]
             grown == mapped[s] \union E
             new == IF fl > kvFloor[s] THEN Trimmed(grown, fl) ELSE grown
  <1> USE SlotsAssumption
  <1>1. j \in Jobs /\ pos[s] \in Nat /\ kvFloor[s] \in Nat /\ kvAssigned[s] \in Nat
    BY DEF SlotInv, SlotsTypeOK, Idle
  <1>2. /\ j.prompt \in Nat \ {0} /\ j.predict \in Nat \ {0}
        /\ Need(j) \in Nat /\ Need(j) <= Cap
        /\ Need(j) = j.prompt + j.predict + VerifyMax
    BY <1>1, JobFits
  <1>3. Want(Need(j), kvFloor[s]) \subseteq mapped[s]
    BY DEF SlotInv, JobInv
  <1>4. ask \in Nat /\ ask <= Need(j) /\ p \in Nat
    BY <1>1, <1>2
  <1>5. E \subseteq mapped[s] /\ grown = mapped[s]
    <2>1. Want(ask, kvFloor[s]) \subseteq Want(Need(j), kvFloor[s])
      BY <1>1, <1>2, <1>4, WantMonotone
    <2> QED
      BY <1>3, <2>1
  <1>6. fl \in Nat /\ kvFloor[s] <= fl
    BY <1>1, <1>4, FloorBehind
  <1>7. /\ \E m \in Nat : fl = m * BT
        /\ fl = 0 \/ (Gemma /\ fl + SW + BT <= p)
    <2>1. /\ \E m \in Nat : kvFloor[s] = m * BT
          /\ kvFloor[s] = 0 \/ (Gemma /\ kvFloor[s] + SW + BT <= pos[s])
      BY DEF SlotInv, FloorInv
    <2>2. CASE fl = kvFloor[s]
      <3>1. pos[s] <= p
        BY <1>1
      <3> HIDE DEF fl, p
      <3>2. kvFloor[s] + SW + BT <= pos[s] => kvFloor[s] + SW + BT <= p
        BY <3>1, <1>1, <1>4
      <3> QED
        BY <2>1, <2>2, <3>2
    <2>3. CASE trims /\ fl = FloorForPos(p)
      <3> HIDE DEF fl, p
      <3>1. /\ \E m \in Nat : FloorForPos(p) = m * BT
            /\ FloorForPos(p) = 0 \/ FloorForPos(p) + SW + BT <= p
        BY <1>4, FloorBehind
      <3> QED
        BY <2>3, <3>1
    <2> QED
      BY <2>2, <2>3
  <1>8. Want(Need(j), fl) \subseteq new
    <2>1. CASE fl > kvFloor[s]
      BY <2>1, <1>1, <1>2, <1>3, <1>5, <1>6, TrimKeepsWanted
    <2>2. CASE ~(fl > kvFloor[s])
      BY <2>2, <1>1, <1>3, <1>5, <1>6
    <2> QED
      BY <2>1, <2>2
  <1>9. new # {} /\ new \subseteq Entry
    <2>1. fl < Need(j)
      BY <1>1, <1>2, <1>4, <1>6, <1>7
    <2>2. Want(Need(j), fl) # {}
      BY <1>2, <1>6, <1>7, <2>1, WantSome
    <2>3. new \subseteq mapped[s]
      BY <1>5 DEF Trimmed
    <2> QED
      BY <1>8, <2>2, <2>3 DEF SlotInv, SlotsTypeOK
  <1>10. Suffices(s, mapped[s], E)
    BY <1>5 DEF Suffices
  <1>11. /\ mapped' = [mapped EXCEPT ![s] = new]
         /\ hollow' = [hollow EXCEPT ![s] = @ \union Before(E \ mapped[s], pos[s])]
         /\ kvFloor' = [kvFloor EXCEPT ![s] = fl]
         /\ kvAssigned' = [kvAssigned EXCEPT ![s] = IF skip THEN @ ELSE MaxOf(@, ask)]
         /\ pos' = [pos EXCEPT ![s] = p]
         /\ Finish(s, p)
         /\ exhausted' = exhausted
    BY <1>10 DEF Pass
  <1>12. Before(E \ mapped[s], pos[s]) = {}
    BY <1>5 DEF Before
  <1> HIDE DEF ask, skip, E, p, fl, grown, new
  <1>13. /\ mapped'[s] = new /\ kvFloor'[s] = fl /\ pos'[s] = p
         /\ \A x \in Slot \ {s} : /\ mapped'[x] = mapped[x] /\ kvFloor'[x] = kvFloor[x]
                                  /\ pos'[x] = pos[x]
    BY <1>11 DEF SlotInv, SlotsTypeOK
  <1>14. \/ /\ p - j.prompt + 1 < j.predict
            /\ job' = job /\ cached' = cached
         \/ /\ p >= j.prompt
            /\ job' = [job EXCEPT ![s] = NoJob]
            /\ \E c \in Nat \ {0} : cached' = [cached EXCEPT ![s] = c]
    <2>1. ASSUME p - j.prompt + 1 >= 1,
                 NEW c \in j.prompt .. j.prompt + MinOf(p - j.prompt + 1, j.predict)
          PROVE  c \in Nat \ {0}
      BY <1>2
    <2> QED
      BY <1>2, <1>4, <1>11, <2>1 DEF Finish
  <1>15. \A x \in Slot \ {s} : job'[x] = job[x] /\ cached'[x] = cached[x]
    BY <1>14 DEF SlotInv, SlotsTypeOK
  <1>16. SlotsTypeOK'
    <2>1. kvAssigned' \in [Slot -> Nat]
      BY <1>1, <1>4, <1>11 DEF SlotInv, SlotsTypeOK, MaxOf
    <2>2. job' \in [Slot -> Jobs \union {NoJob}] /\ cached' \in [Slot -> Nat]
      BY <1>14 DEF SlotInv, SlotsTypeOK
    <2>3. hollow' \in [Slot -> SUBSET Entry]
      BY <1>11, <1>12 DEF SlotInv, SlotsTypeOK
    <2>4. mapped' \in [Slot -> SUBSET Entry]
      BY <1>9, <1>11 DEF SlotInv, SlotsTypeOK
    <2>5. kvFloor' \in [Slot -> Nat] /\ pos' \in [Slot -> Nat] /\ exhausted' \in BOOLEAN
      BY <1>4, <1>6, <1>11 DEF SlotInv, SlotsTypeOK
    <2> QED
      BY <2>1, <2>2, <2>3, <2>4, <2>5 DEF SlotsTypeOK
  <1>17. HollowInv'
    BY <1>11, <1>12 DEF SlotInv, SlotsTypeOK, HollowInv
  <1>18. FloorInv'
    <2> SUFFICES ASSUME NEW x \in Slot
                 PROVE  /\ \E m \in Nat : kvFloor'[x] = m * BT
                        /\ kvFloor'[x] = 0 \/ (Gemma /\ kvFloor'[x] + SW + BT <= pos'[x])
      BY DEF FloorInv
    <2> QED
      BY <1>7, <1>13 DEF SlotInv, FloorInv
  <1>19. JobInv'
    <2> SUFFICES ASSUME NEW x \in Slot, job'[x] # NoJob
                 PROVE  /\ \/ pos'[x] < job'[x].prompt
                           \/ pos'[x] + 2 <= job'[x].prompt + job'[x].predict
                        /\ Want(Need(job'[x]), kvFloor'[x]) \subseteq mapped'[x]
      BY DEF JobInv, Idle, Need, Want
    <2>1. CASE x # s
      BY <2>1, <1>13, <1>15 DEF SlotInv, JobInv, Idle
    <2>2. CASE x = s
      <3>1. p - j.prompt + 1 < j.predict /\ job'[s] = j
        BY <2>2, <1>14 DEF SlotInv, SlotsTypeOK
      <3> QED
        BY <2>2, <3>1, <1>2, <1>4, <1>8, <1>13
    <2> QED
      BY <2>1, <2>2
  <1>20. IdleInv'
    <2> SUFFICES ASSUME NEW x \in Slot, job'[x] = NoJob
                 PROVE  /\ cached'[x] = 0 => mapped'[x] = {}
                        /\ cached'[x] > 0 =>
                              mapped'[x] # {} /\ Live(x)' \subseteq mapped'[x]
      BY DEF IdleInv, Idle
    <2>1. CASE x # s
      <3>1. Live(x)' = Live(x)
        BY <2>1, <1>13 DEF Live
      <3> QED
        BY <2>1, <3>1, <1>13, <1>15 DEF SlotInv, IdleInv, Idle
    <2>2. CASE x = s
      <3>1. cached'[s] \in Nat \ {0}
        <4>1. job # job'
          BY <2>2 DEF Idle
        <4> QED
          BY <4>1, <1>14 DEF SlotInv, SlotsTypeOK
      <3>2. Live(s)' \subseteq Want(Need(j), fl)
        <4> SUFFICES ASSUME NEW e \in Live(s)'
                     PROVE  e \in Want(Need(j), fl)
          OBVIOUS
        <4>1. /\ e \in Entry /\ e[2] * BT \in Nat /\ e[2] * BT < p
              /\ ~(e[1] \in Sliding /\ e[2] * BT + BT <= fl)
          BY <1>13 DEF Live, Entry
        <4>2. p < Need(j) + 2
          BY <1>1, <1>2, <1>4 DEF p
        <4> QED
          BY <1>2, <1>4, <4>1, <4>2 DEF Want
      <3> QED
        BY <2>2, <3>1, <3>2, <1>8, <1>9, <1>13
    <2> QED
      BY <2>1, <2>2
  <1> QED
    BY <1>11, <1>16, <1>17, <1>18, <1>19, <1>20 DEF SlotInv

LEMMA PrefillKeeps ==
  ASSUME SlotInv, NEW s \in Slot, NEW c \in 1 .. job[s].prompt - pos[s], Prefill(s, c)
  PROVE  SlotInv'
  <1> USE SlotsAssumption
  <1>1. ~Idle(s) /\ Pass(s, c, c, Gemma)
    BY DEF Prefill
  <1>2. job[s] \in Jobs /\ pos[s] \in Nat
    BY <1>1 DEF SlotInv, SlotsTypeOK, Idle
  <1>3. /\ job[s].prompt \in Nat /\ job[s].predict \in Nat \ {0}
        /\ Need(job[s]) = job[s].prompt + job[s].predict + VerifyMax
    BY <1>2, JobFits
  <1>4. c \in Nat /\ pos[s] + c + 2 <= Need(job[s])
    BY <1>2, <1>3
  <1> QED
    BY <1>1, <1>4, PassKeeps

LEMMA DecodeKeeps ==
  ASSUME SlotInv, NEW s \in Slot, NEW t \in 1 .. VerifyMax, NEW k \in 1 .. t,
         NEW trims \in BOOLEAN, Decode(s, t, k, trims)
  PROVE  SlotInv'
  <1> USE SlotsAssumption
  <1>1. ~Idle(s) /\ pos[s] >= job[s].prompt /\ Pass(s, t, k, trims)
    BY DEF Decode
  <1>2. trims => Gemma
    BY DEF Decode
  <1>3. job[s] \in Jobs /\ pos[s] \in Nat
    BY <1>1 DEF SlotInv, SlotsTypeOK, Idle
  <1>4. /\ job[s].prompt \in Nat /\ job[s].predict \in Nat
        /\ Need(job[s]) = job[s].prompt + job[s].predict + VerifyMax
    BY <1>3, JobFits
  <1>5. pos[s] + 2 <= job[s].prompt + job[s].predict
    BY <1>1, <1>3, <1>4 DEF SlotInv, JobInv
  <1>6. t \in Nat /\ k \in Nat /\ k <= t /\ pos[s] + t + 2 <= Need(job[s])
    BY <1>3, <1>4, <1>5
  <1> QED
    BY <1>1, <1>2, <1>6, PassKeeps

(***************************************************************************)
(* A slot that is wiped and left idle keeps the invariant, whatever its    *)
(* position: the common part of Fail, Reclaim and a failed admission.      *)
(***************************************************************************)
LEMMA WipeKeeps ==
  ASSUME SlotInv, NEW s \in Slot, NEW p \in Nat,
         mapped' = [mapped EXCEPT ![s] = {}],
         hollow' = [hollow EXCEPT ![s] = {}],
         kvAssigned' = [kvAssigned EXCEPT ![s] = 0],
         kvFloor' = [kvFloor EXCEPT ![s] = 0],
         pos' = [pos EXCEPT ![s] = p],
         job' = [job EXCEPT ![s] = NoJob],
         cached' = [cached EXCEPT ![s] = 0],
         exhausted' = exhausted
  PROVE  SlotInv'
  <1> USE SlotsAssumption
  <1>1. SlotsTypeOK'
    BY DEF SlotInv, SlotsTypeOK
  <1>2. HollowInv'
    BY DEF SlotInv, SlotsTypeOK, HollowInv
  <1>3. \A x \in Slot \ {s} :
            /\ mapped'[x] = mapped[x] /\ kvFloor'[x] = kvFloor[x] /\ pos'[x] = pos[x]
            /\ job'[x] = job[x] /\ cached'[x] = cached[x]
    BY DEF SlotInv, SlotsTypeOK
  <1>4. mapped'[s] = {} /\ kvFloor'[s] = 0 /\ job'[s] = NoJob /\ cached'[s] = 0
    BY DEF SlotInv, SlotsTypeOK
  <1>5. FloorInv'
    <2> SUFFICES ASSUME NEW x \in Slot
                 PROVE  /\ \E m \in Nat : kvFloor'[x] = m * BT
                        /\ kvFloor'[x] = 0 \/ (Gemma /\ kvFloor'[x] + SW + BT <= pos'[x])
      BY DEF FloorInv
    <2>1. 0 = 0 * BT
      OBVIOUS
    <2>2. CASE x = s
      BY <1>4, <2>1, <2>2
    <2>3. CASE x # s
      BY <1>3, <2>3 DEF SlotInv, FloorInv
    <2> QED
      BY <2>2, <2>3
  <1>6. JobInv'
    <2> SUFFICES ASSUME NEW x \in Slot, job'[x] # NoJob
                 PROVE  /\ \/ pos'[x] < job'[x].prompt
                           \/ pos'[x] + 2 <= job'[x].prompt + job'[x].predict
                        /\ Want(Need(job'[x]), kvFloor'[x]) \subseteq mapped'[x]
      BY DEF JobInv, Idle, Need, Want
    <2>1. x # s
      BY <1>4
    <2> QED
      BY <1>3, <2>1 DEF SlotInv, JobInv, Idle
  <1>7. IdleInv'
    <2> SUFFICES ASSUME NEW x \in Slot, job'[x] = NoJob
                 PROVE  /\ cached'[x] = 0 => mapped'[x] = {}
                        /\ cached'[x] > 0 =>
                              mapped'[x] # {} /\ Live(x)' \subseteq mapped'[x]
      BY DEF IdleInv, Idle
    <2>1. CASE x = s
      BY <1>4, <2>1
    <2>2. CASE x # s
      <3>1. Live(x)' = Live(x)
        BY <1>3, <2>2 DEF Live
      <3> QED
        BY <1>3, <2>2, <3>1 DEF SlotInv, IdleInv, Idle
    <2> QED
      BY <2>1, <2>2
  <1> QED
    BY <1>1, <1>2, <1>5, <1>6, <1>7 DEF SlotInv

LEMMA FailKeeps ==
  ASSUME SlotInv, NEW s \in Slot, Fail(s)
  PROVE  SlotInv'
  <1>1. PICK p \in Nat : pos' = [pos EXCEPT ![s] = p]
    BY DEF Fail
  <1>2. /\ mapped' = [mapped EXCEPT ![s] = {}]
        /\ hollow' = [hollow EXCEPT ![s] = {}]
        /\ kvAssigned' = [kvAssigned EXCEPT ![s] = 0]
        /\ kvFloor' = [kvFloor EXCEPT ![s] = 0]
        /\ job' = [job EXCEPT ![s] = NoJob]
        /\ cached' = [cached EXCEPT ![s] = 0]
        /\ exhausted' = exhausted
    BY DEF Fail
  <1> QED
    BY <1>1, <1>2, WipeKeeps

LEMMA ReclaimKeeps ==
  ASSUME SlotInv, NEW s \in Slot, Reclaim(s)
  PROVE  SlotInv'
  <1>1. mapped[s] # {} /\ cached' = [cached EXCEPT ![s] = 0]
    BY DEF Reclaim, SlotInv, IdleInv
  <1>2. pos' = [pos EXCEPT ![s] = pos[s]] /\ job' = [job EXCEPT ![s] = NoJob]
    BY DEF Reclaim, SlotInv, SlotsTypeOK, Idle
  <1>3. pos[s] \in Nat
    BY DEF SlotInv, SlotsTypeOK
  <1>4. PICK p \in Nat : pos' = [pos EXCEPT ![s] = p]
    BY <1>2, <1>3
  <1>5. /\ mapped' = [mapped EXCEPT ![s] = {}]
        /\ hollow' = [hollow EXCEPT ![s] = {}]
        /\ kvAssigned' = [kvAssigned EXCEPT ![s] = 0]
        /\ kvFloor' = [kvFloor EXCEPT ![s] = 0]
        /\ exhausted' = exhausted
    BY DEF Reclaim
  <1> QED
    BY <1>1, <1>2, <1>4, <1>5, WipeKeeps

-----------------------------------------------------------------------------
(***************************************************************************)
(* What assign_slot reuses is a prefix of what the idle slot still holds.  *)
(***************************************************************************)
LEMMA ReuseSound ==
  ASSUME WholeSharing, SlotInv, NEW s \in Slot, NEW j \in Jobs,
         NEW l \in Shared(s, j), NEW r \in Reuse(s, j, l), r # 0
  PROVE  /\ r \in Nat /\ r <= pos[s] /\ r < j.prompt /\ cached[s] > 0
         /\ Gemma => r = pos[s]
  <1> USE SlotsAssumption
  <1>1. j.prompt \in Nat \ {0}
    BY JobFits
  <1>2. pos[s] \in Nat /\ cached[s] \in Nat
    BY DEF SlotInv, SlotsTypeOK
  <1>3. /\ l \in Nat /\ l <= pos[s] /\ l <= cached[s] /\ l < j.prompt
        /\ Gemma => l = 0 \/ (l = cached[s] /\ l = pos[s])
    BY <1>1, <1>2 DEF Shared, MinOf, WholeSharing
  <1>4. l # 0 /\ r \in (IF l = cached[s] /\ l = pos[s] THEN {l} ELSE Restored(s, l))
    BY DEF Reuse
  <1>5. CASE l = cached[s] /\ l = pos[s]
    BY <1>2, <1>3, <1>4, <1>5
  <1>6. CASE ~(l = cached[s] /\ l = pos[s])
    <2>1. ~Gemma
      BY <1>3, <1>4, <1>6
    <2>2. r \in 0 .. l
      BY <1>4, <1>6, <2>1 DEF Restored
    <2> QED
      <3>1. l \in Nat /\ l # 0 /\ l <= pos[s] /\ l <= cached[s] /\ l < j.prompt
        BY <1>3, <1>4
      <3> QED
        BY <3>1, <1>1, <1>2, <2>1, <2>2
  <1> QED
    BY <1>5, <1>6

LEMMA AdmitKeeps ==
  ASSUME WholeSharing, SlotInv, NEW s \in Slot, NEW j \in Jobs,
         NEW l \in Shared(s, j), NEW r \in Reuse(s, j, l), Admit(s, j, l, r)
  PROVE  SlotInv'
  <1> DEFINE held == IF r = 0 THEN {} ELSE mapped[s]
             fl == IF r = 0 THEN 0 ELSE kvFloor[s]
             rows == IF r = 0 THEN 0 ELSE kvAssigned[s]
             E == Want(Need(j), fl)
  <1> USE SlotsAssumption
  <1>1. /\ j.prompt \in Nat \ {0} /\ j.predict \in Nat \ {0}
        /\ Need(j) \in Nat /\ Need(j) <= Cap /\ j # NoJob
        /\ Need(j) = j.prompt + j.predict + VerifyMax
    BY JobFits
  <1>2. /\ mapped[s] \subseteq Entry /\ pos[s] \in Nat /\ kvFloor[s] \in Nat
        /\ kvAssigned[s] \in Nat /\ cached[s] \in Nat /\ hollow[s] = {}
    BY DEF SlotInv, SlotsTypeOK, HollowInv
  <1>3. Idle(s) /\ BlocksNeeded(Need(j)) <= FreeBlocks
    BY DEF Admit
  <1>4. fl \in Nat /\ rows \in Nat /\ held \subseteq mapped[s]
    BY <1>2
  <1>5. r \in Nat /\ r < j.prompt
    BY <1>1, ReuseSound
  <1>6. Suffices(s, held, E)
    <2>1. IsFiniteSet(E) /\ Cardinality(E) <= BlocksNeeded(Need(j))
      BY <1>1, <1>4, WantCount
    <2>2. /\ Cardinality(E \ held) \in Nat /\ Cardinality(E \ held) <= Cardinality(E)
          /\ Cardinality(E) \in Nat
      BY <2>1, FS_Subset, FS_CardinalityType
    <2>3. Cardinality(mapped[s] \ held) \in Nat
      <3>1. IsFiniteSet(mapped[s] \ held)
        BY <1>2, EntryFinite, FS_Subset
      <3> QED
        BY <3>1, FS_CardinalityType
    <2>4. FreeBlocks \in Int
      <3>1. IsFiniteSet(Slot \X Entry)
        BY EntryFinite, FS_Product
      <3>2. IsFiniteSet(Taken)
        BY <3>1, FS_Subset DEF Taken
      <3> QED
        BY <3>2, FS_CardinalityType DEF FreeBlocks
    <2>5. BlocksNeeded(Need(j)) \in Nat
      BY <1>1, <1>4, WantCount
    <2> HIDE DEF E, held
    <2> QED
      BY <1>3, <2>1, <2>2, <2>3, <2>4, <2>5 DEF Suffices
  <1>7. Before((hollow[s] \intersect held) \union (E \ held), r) = {}
    <2> SUFFICES ASSUME NEW e \in E \ held, e[2] * BT < r
                 PROVE  FALSE
      BY <1>2 DEF Before
    <2>1. r # 0 /\ e \in Entry /\ e[2] * BT \in Nat
      BY <1>5 DEF Want, Entry
    <2>2. r <= pos[s] /\ cached[s] > 0
      BY <2>1, ReuseSound
    <2>3. e \in Live(s)
      BY <1>2, <1>5, <2>1, <2>2 DEF Want, Live
    <2> QED
      BY <1>3, <2>1, <2>2, <2>3 DEF SlotInv, IdleInv
  <1>8. /\ mapped' = [mapped EXCEPT ![s] = held \union E]
        /\ hollow' = [hollow EXCEPT ![s] = {}]
        /\ kvAssigned' = [kvAssigned EXCEPT ![s] = MaxOf(rows, Need(j))]
        /\ kvFloor' = [kvFloor EXCEPT ![s] = fl]
        /\ pos' = [pos EXCEPT ![s] = r]
        /\ job' = [job EXCEPT ![s] = j]
        /\ cached' = [cached EXCEPT ![s] = cached[s]]
        /\ exhausted' = exhausted
    <2>1. ~exhausted
      BY DEF SlotInv
    <2> HIDE DEF E, held
    <2> QED
      BY <1>6, <1>7, <2>1 DEF Admit, E, held, SlotInv, SlotsTypeOK
  <1>9. /\ \E m \in Nat : fl = m * BT
        /\ fl = 0 \/ (Gemma /\ fl + SW + BT <= r)
    <2>1. CASE r = 0
      <3>1. fl = 0 /\ 0 = 0 * BT
        BY <2>1
      <3> QED
        BY <3>1
    <2>2. CASE r # 0
      <3>1. /\ \E m \in Nat : kvFloor[s] = m * BT
            /\ kvFloor[s] = 0 \/ (Gemma /\ kvFloor[s] + SW + BT <= pos[s])
        BY DEF SlotInv, FloorInv
      <3>2. Gemma => r = pos[s]
        BY <2>2, ReuseSound
      <3> QED
        BY <2>2, <3>1, <3>2
    <2> QED
      BY <2>1, <2>2
  <1>10. E \subseteq Entry
    BY DEF Want
  <1> HIDE DEF E, held, fl, rows
  <1>11. SlotsTypeOK'
    BY <1>1, <1>2, <1>4, <1>5, <1>8, <1>10 DEF SlotInv, SlotsTypeOK, MaxOf
  <1>12. HollowInv'
    BY <1>8 DEF SlotInv, SlotsTypeOK, HollowInv
  <1>13. \A x \in Slot \ {s} :
            /\ mapped'[x] = mapped[x] /\ kvFloor'[x] = kvFloor[x] /\ pos'[x] = pos[x]
            /\ job'[x] = job[x] /\ cached'[x] = cached[x]
    BY <1>8 DEF SlotInv, SlotsTypeOK
  <1>14. /\ mapped'[s] = held \union E /\ kvFloor'[s] = fl /\ job'[s] = j
         /\ pos'[s] = r
    BY <1>8 DEF SlotInv, SlotsTypeOK
  <1>15. FloorInv'
    <2> SUFFICES ASSUME NEW x \in Slot
                 PROVE  /\ \E m \in Nat : kvFloor'[x] = m * BT
                        /\ kvFloor'[x] = 0 \/ (Gemma /\ kvFloor'[x] + SW + BT <= pos'[x])
      BY DEF FloorInv
    <2>1. CASE x = s
      BY <1>9, <1>14, <2>1
    <2>2. CASE x # s
      BY <1>13, <2>2 DEF SlotInv, FloorInv
    <2> QED
      BY <2>1, <2>2
  <1>16. JobInv'
    <2> SUFFICES ASSUME NEW x \in Slot, job'[x] # NoJob
                 PROVE  /\ \/ pos'[x] < job'[x].prompt
                           \/ pos'[x] + 2 <= job'[x].prompt + job'[x].predict
                        /\ Want(Need(job'[x]), kvFloor'[x]) \subseteq mapped'[x]
      BY DEF JobInv, Idle, Need, Want
    <2>1. CASE x = s
      BY <1>5, <1>14, <2>1 DEF E
    <2>2. CASE x # s
      BY <1>13, <2>2 DEF SlotInv, JobInv, Idle
    <2> QED
      BY <2>1, <2>2
  <1>17. IdleInv'
    <2> SUFFICES ASSUME NEW x \in Slot, job'[x] = NoJob
                 PROVE  /\ cached'[x] = 0 => mapped'[x] = {}
                        /\ cached'[x] > 0 =>
                              mapped'[x] # {} /\ Live(x)' \subseteq mapped'[x]
      BY DEF IdleInv, Idle
    <2>1. x # s
      BY <1>1, <1>14
    <2>2. Live(x)' = Live(x)
      BY <1>13, <2>1 DEF Live
    <2> QED
      BY <1>13, <2>1, <2>2 DEF SlotInv, IdleInv, Idle
  <1> QED
    BY <1>8, <1>11, <1>12, <1>15, <1>16, <1>17 DEF SlotInv

-----------------------------------------------------------------------------
(***************************************************************************)
(* The invariant holds initially and is kept by every step.                *)
(***************************************************************************)
LEMMA SlotInvInit == SlotsInit => SlotInv
  <1> SUFFICES ASSUME SlotsInit PROVE SlotInv
    OBVIOUS
  <1>1. SlotsTypeOK /\ HollowInv /\ ~exhausted
    BY DEF SlotsInit, SlotsTypeOK, HollowInv
  <1>2. JobInv /\ IdleInv
    BY DEF SlotsInit, JobInv, IdleInv, Idle
  <1>3. FloorInv
    <2>1. 0 = 0 * BT
      BY SlotsAssumption
    <2> QED
      BY <2>1 DEF SlotsInit, FloorInv
  <1> QED
    BY <1>1, <1>2, <1>3 DEF SlotInv

LEMMA SlotInvStutter == SlotInv /\ UNCHANGED slotVars => SlotInv'
  BY DEF SlotInv, slotVars, SlotsTypeOK, JobInv, IdleInv, FloorInv, HollowInv,
         Idle, Live, Want, Need

LEMMA SlotInvStep == WholeSharing /\ SlotInv /\ [SlotsNext]_slotVars => SlotInv'
  <1> SUFFICES ASSUME WholeSharing, SlotInv, SlotsNext
               PROVE  SlotInv'
    BY SlotInvStutter
  <1>1. PICK s \in Slot :
          \/ \E j \in Jobs : \E l \in Shared(s, j) : \E r \in Reuse(s, j, l) :
                 Admit(s, j, l, r)
          \/ \E c \in 1 .. job[s].prompt - pos[s] : Prefill(s, c)
          \/ \E t \in 1 .. VerifyMax : \E k \in 1 .. t : \E trims \in BOOLEAN :
                 Decode(s, t, k, trims)
          \/ Fail(s)
          \/ Reclaim(s)
    BY DEF SlotsNext
  <1>2. ASSUME NEW j \in Jobs, NEW l \in Shared(s, j), NEW r \in Reuse(s, j, l),
               Admit(s, j, l, r)
        PROVE  SlotInv'
    BY <1>2, AdmitKeeps
  <1>3. ASSUME NEW c \in 1 .. job[s].prompt - pos[s], Prefill(s, c)
        PROVE  SlotInv'
    BY <1>3, PrefillKeeps
  <1>4. ASSUME NEW t \in 1 .. VerifyMax, NEW k \in 1 .. t, NEW trims \in BOOLEAN,
               Decode(s, t, k, trims)
        PROVE  SlotInv'
    BY <1>4, DecodeKeeps
  <1> QED
    BY <1>1, <1>2, <1>3, <1>4, FailKeeps, ReclaimKeeps

LEMMA SlotInvAlways == WholeSharing /\ SlotsSpec => []SlotInv
  <1>1. SUFFICES ASSUME WholeSharing PROVE SlotsSpec => []SlotInv
    OBVIOUS
  <1>2. SlotInv /\ [SlotsNext]_slotVars => SlotInv'
    BY <1>1, SlotInvStep
  <1> QED
    BY <1>2, SlotInvInit, PTL DEF SlotsSpec
-----------------------------------------------------------------------------
\* What the invariant says of a running slot.
LEMMA RunningSlot ==
  ASSUME SlotInv, NEW s \in Slot, ~Idle(s)
  PROVE  /\ Attended(s) \subseteq mapped[s] \ hollow[s]
         /\ pos[s] >= job[s].prompt => pos[s] + VerifyMax <= Cap
  <1> USE SlotsAssumption
  <1>1. job[s] \in Jobs /\ pos[s] \in Nat /\ kvFloor[s] \in Nat
    BY DEF SlotInv, SlotsTypeOK, Idle
  <1>2. /\ job[s].prompt \in Nat \ {0} /\ job[s].predict \in Nat \ {0}
        /\ Need(job[s]) \in Nat /\ Need(job[s]) <= Cap
        /\ Need(job[s]) = job[s].prompt + job[s].predict + VerifyMax
    BY <1>1, JobFits
  <1>3. pos[s] < job[s].prompt \/ pos[s] + 2 <= job[s].prompt + job[s].predict
    BY DEF SlotInv, JobInv
  <1>4. pos[s] <= Need(job[s])
    BY <1>1, <1>2, <1>3
  <1>5. Attended(s) \subseteq Want(Need(job[s]), kvFloor[s])
    <2> SUFFICES ASSUME NEW e \in Attended(s)
                 PROVE  e \in Want(Need(job[s]), kvFloor[s])
      OBVIOUS
    <2>1. /\ e \in Entry /\ e[2] * BT \in Nat /\ e[2] * BT < pos[s]
          /\ e[1] \in Sliding => e[2] * BT + BT > pos[s] + 1 - SW
      BY DEF Attended, Entry
    <2>2. kvFloor[s] = 0 \/ kvFloor[s] + SW + BT <= pos[s]
      BY DEF SlotInv, FloorInv
    <2>3. ~(e[1] \in Sliding /\ e[2] * BT + BT <= kvFloor[s])
      BY <1>1, <2>1, <2>2
    <2> QED
      BY <1>1, <1>2, <1>4, <2>1, <2>3 DEF Want
  <1> QED
    BY <1>1, <1>2, <1>3, <1>5, CapNat DEF SlotInv, JobInv, HollowInv

(***************************************************************************)
(* Type correctness of the slots.                                          *)
(***************************************************************************)
THEOREM SlotsTypeCorrect == WholeSharing /\ SlotsSpec => []SlotsTypeOK
  <1>1. SlotInv => SlotsTypeOK
    BY DEF SlotInv
  <1> QED
    BY <1>1, SlotInvAlways, PTL

(***************************************************************************)
(* A running slot still has every block its next pass attends to.          *)
(***************************************************************************)
THEOREM SlotsKeepWindow == WholeSharing /\ SlotsSpec => []WindowOwned
  <1>1. SlotInv => WindowOwned
    BY RunningSlot DEF WindowOwned
  <1> QED
    BY <1>1, SlotInvAlways, PTL

(***************************************************************************)
(* The reservation made at admission stays with a running slot.            *)
(***************************************************************************)
THEOREM SlotsKeepReservation == WholeSharing /\ SlotsSpec => []Reserved
  <1>1. SlotInv => Reserved
    BY DEF SlotInv, JobInv, Reserved
  <1> QED
    BY <1>1, SlotInvAlways, PTL

(***************************************************************************)
(* No kv_grow of an admitted job finds the pool empty.                     *)
(***************************************************************************)
THEOREM SlotsNeverExhaust == WholeSharing /\ SlotsSpec => []NeverExhausted
  <1>1. SlotInv => NeverExhausted
    BY DEF SlotInv, NeverExhausted
  <1> QED
    BY <1>1, SlotInvAlways, PTL

(***************************************************************************)
(* No verify pass leaves the context.                                      *)
(***************************************************************************)
THEOREM SlotsWithinContext == WholeSharing /\ SlotsSpec => []WithinContext
  <1>1. SlotInv => WithinContext
    BY RunningSlot DEF WithinContext
  <1> QED
    BY <1>1, SlotInvAlways, PTL

(***************************************************************************)
(* Every block of an idle slot can be reclaimed.                           *)
(***************************************************************************)
THEOREM SlotsReclaimable == WholeSharing /\ SlotsSpec => []Reclaimable
  <1>1. SlotInv => Reclaimable
    BY DEF SlotInv, IdleInv, SlotsTypeOK, Reclaimable
  <1> QED
    BY <1>1, SlotInvAlways, PTL

-----------------------------------------------------------------------------
(***************************************************************************)
(* FnText.  What a stretch leaves to the next is a function of the         *)
(* position alone, and so is the row of a position.                        *)
(***************************************************************************)
\* A row before the text is none.
PosOr(q) == IF q < 0 THEN Blank ELSE q

\* The rows before position n, all of them or the last few.
UpTo(n) == [i \in 1 .. n |-> i - 1]

WindowAt(n) == [i \in 0 .. (PleWindow - 1) |-> PosOr(n + i - PleWindow)]

HistLen(n) == IF n < ConvK - 1 THEN n ELSE ConvK - 1

HistAt(n) == [i \in 1 .. HistLen(n) |-> n - HistLen(n) + i - 1]

\* The index over the rows before position n.
IndexAt(n) ==
    [raw |-> UpTo(n),
     comp |-> [b \in 1 .. (n \div Ratio) |-> [rows |-> RowsOfBlock(b - 1), at |-> (b - 1) * Ratio]]]

\* The sizes of the text and its windows are positive.
LEMMA SizesAre ==
    /\ TextLen \in Nat \ {0} /\ NgramSize \in Nat \ {0} /\ TapStep \in Nat \ {0} /\ ConvK \in Nat \ {0}
    /\ Ratio \in Nat \ {0} /\ BlockTopK \in Nat \ {0} /\ ChunkMax \in Nat \ {0}
    /\ PleWindow \in Nat \ {0} /\ PleWindow = 3 * TapStep
BY FnTextAssumption DEF PleWindow

-----------------------------------------------------------------------------
\* Where the text of position p begins: behind the last end before it.
StartOf(p) == Cardinality({q \in 0..(p - 1) : \E e \in q..(p - 1) : text[e + 1] = Eos})

LEMMA StartIs ==
    ASSUME NEW p \in Nat
    PROVE  /\ StartOf(p) \in 0 .. p
           /\ \A q \in 0 .. p : q >= StartOf(p) <=> \A e \in q .. (p - 1) : text[e + 1] # Eos
<1> DEFINE A == {q \in 0 .. (p - 1) : \E e \in q .. (p - 1) : text[e + 1] = Eos}
           E == {e \in 0 .. (p - 1) : text[e + 1] = Eos}
<1>1. CASE E = {}
  <2>1. A = {}
      BY <1>1
  <2>2. StartOf(p) = 0
    <3>1. StartOf(p) = Cardinality(A)
        BY DEF StartOf
    <3>2. QED BY <2>1, <3>1, FS_EmptySet
  <2>3. \A q \in 0 .. p : \A e \in q .. (p - 1) : text[e + 1] # Eos
    <3> SUFFICES ASSUME NEW q \in 0 .. p, NEW e \in q .. (p - 1), text[e + 1] = Eos PROVE FALSE
        OBVIOUS
    <3>1. e \in 0 .. (p - 1)
        OBVIOUS
    <3>2. QED BY <1>1, <3>1
  <2>4. QED BY <2>2, <2>3
<1>2. CASE E # {}
  <2> DEFINE m == Max(E)
  <2>1. p - 1 \in Nat /\ E \in SUBSET (0 .. (p - 1))
      BY <1>2
  <2>2. m \in E /\ \A e \in E : e <= m
    <3> HIDE DEF E
    <3>1. QED BY <1>2, <2>1, MaxUpTo
  <2>3. m \in 0 .. (p - 1) /\ text[m + 1] = Eos
      BY <2>2
  <2>4. \A e \in 0 .. (p - 1) : text[e + 1] = Eos => e <= m
      BY <2>2
  <2> HIDE DEF m
  <2>5. A = 0 .. m
    <3>1. ASSUME NEW q \in A PROVE q \in 0 .. m
      <4>1. q \in 0 .. (p - 1) /\ \E e \in q .. (p - 1) : text[e + 1] = Eos
          OBVIOUS
      <4>2. PICK e \in q .. (p - 1) : text[e + 1] = Eos
          BY <4>1
      <4>3. e \in 0 .. (p - 1)
          BY <4>1, <4>2
      <4>4. QED BY <2>3, <2>4, <4>1, <4>2, <4>3
    <3>2. ASSUME NEW q \in 0 .. m PROVE q \in A
      <4>1. q \in 0 .. (p - 1) /\ m \in q .. (p - 1)
          BY <2>3
      <4>2. QED BY <2>3, <4>1
    <3>3. QED BY <3>1, <3>2
  <2>6. StartOf(p) = m + 1
    <3>1. StartOf(p) = Cardinality(A)
        BY DEF StartOf
    <3> HIDE DEF A
    <3>2. Cardinality(0 .. m) = m - 0 + 1
        BY <2>3, FS_Interval
    <3>3. QED BY <2>3, <2>5, <3>1, <3>2
  <2>7. ASSUME NEW q \in 0 .. p
        PROVE  q >= m + 1 <=> \A e \in q .. (p - 1) : text[e + 1] # Eos
    <3>1. ASSUME q >= m + 1, NEW e \in q .. (p - 1), text[e + 1] = Eos
          PROVE  FALSE
      <4>1. e \in 0 .. (p - 1)
          OBVIOUS
      <4>2. QED BY <2>3, <2>4, <3>1, <4>1
    <3>2. ASSUME ~(q >= m + 1)
          PROVE  m \in q .. (p - 1)
        BY <2>3, <3>2
    <3>3. QED BY <2>3, <3>1, <3>2
  <2>8. QED BY <2>3, <2>6, <2>7
<1>3. QED BY <1>1, <1>2

\* The n-grams gathered out of a text so far are those of the text.
LEMMA GramsAre ==
    ASSUME NEW hist, NEW p \in Nat, \A i \in 1 .. p + 1 : hist[i] = text[i]
    PROVE  NgramIds(hist, p) = Whole(p).grams
<1> DEFINE cand(s) == IF p >= s THEN hist[p - s + 1] ELSE Eos
           crossed(s) == \E b \in 1..(s - 1) : cand(b) = Eos
           gram(s) == IF s > 0 /\ crossed(s) THEN Eos ELSE cand(s)
           full(s) == IF p - s >= StartOf(p) THEN text[p - s + 1] ELSE Eos
<1>1. Whole(p).grams = [s \in 0..(NgramSize - 1) |-> full(s)]
    BY DEF Whole, StartOf
<1>2. NgramIds(hist, p) = [s \in 0..(NgramSize - 1) |-> gram(s)]
    BY DEF NgramIds
<1>3. ASSUME NEW s \in 0 .. (NgramSize - 1)
      PROVE  gram(s) = full(s)
  <2>1. s \in Nat /\ NgramSize \in Nat /\ StartOf(p) \in 0 .. p
      BY SizesAre, StartIs
  <2>2. CASE ~(p >= s)
    <3>1. ~(p - s >= StartOf(p))
        BY <2>1, <2>2
    <3>2. QED BY <2>2, <3>1
  <2>3. CASE p >= s
    <3> DEFINE q == p - s
    <3>1. q \in 0 .. p
        BY <2>1, <2>3
    <3>2. q >= StartOf(p) <=> \A e \in q .. (p - 1) : text[e + 1] # Eos
        BY <3>1, StartIs
    <3>3. \A b \in 0 .. s : cand(b) = text[p - b + 1]
      <4> SUFFICES ASSUME NEW b \in 0 .. s PROVE cand(b) = text[p - b + 1]
          OBVIOUS
      <4>1. p >= b /\ p - b + 1 \in 1 .. p + 1
          BY <2>1, <2>3
      <4>2. QED BY <4>1
    <3>4. cand(s) = text[q + 1]
        BY <2>1, <3>3
    <3>5. CASE crossed(s)
      <4>1. PICK b \in 1 .. (s - 1) : cand(b) = Eos
          BY <3>5
      <4>2. b \in 0 .. s /\ s > 0 /\ p - b \in q .. (p - 1)
          BY <2>1, <2>3, <4>1
      <4>3. text[p - b + 1] = Eos
          BY <3>3, <4>1, <4>2
      <4>4. ~(q >= StartOf(p))
          BY <3>2, <4>2, <4>3
      <4>5. QED BY <3>5, <4>2, <4>4
    <3>6. CASE ~crossed(s)
      <4>1. gram(s) = text[q + 1]
          BY <3>4, <3>6
      <4>2. CASE q >= StartOf(p)
          BY <4>1, <4>2
      <4>3. CASE ~(q >= StartOf(p))
        <5>1. PICK e \in q .. (p - 1) : text[e + 1] = Eos
            BY <3>2, <4>3
        <5>2. e = q
          <6> SUFFICES ASSUME e # q PROVE FALSE
              OBVIOUS
          <6> DEFINE b == p - e
          <6>1. b \in 1 .. (s - 1) /\ b \in 0 .. s /\ p - b = e
              BY <2>1, <2>3, <3>1, <5>1
          <6> HIDE DEF b
          <6>2. cand(b) = text[p - b + 1]
              BY <3>3, <6>1
          <6>3. cand(b) = Eos
              BY <5>1, <6>1, <6>2
          <6>4. QED BY <3>6, <6>1, <6>3
        <5>3. QED BY <4>1, <4>3, <5>1, <5>2
      <4>4. QED BY <4>2, <4>3
    <3>7. QED BY <3>5, <3>6
  <2>4. QED BY <2>2, <2>3
<1> HIDE DEF gram, full
<1>4. QED BY <1>1, <1>2, <1>3

-----------------------------------------------------------------------------
\* The taps of position p, from wherever its stretch began.
TapsOf(p) == [k \in 0..3 |-> PosOr(p - TapStep * (3 - k))]

LEMMA TapsAre ==
    ASSUME NEW p
    PROVE  Whole(p).taps = TapsOf(p)
<1>1. \A k \in 0..3 : 4 - 1 - k = 3 - k
    OBVIOUS
<1>2. Whole(p).taps = [k \in 0..(4 - 1) |-> LET q == p - TapStep * (4 - 1 - k) IN IF q < 0 THEN Blank ELSE q]
    BY DEF Whole
<1>3. 4 - 1 = 3
    OBVIOUS
<1>4. QED BY <1>1, <1>2, <1>3 DEF TapsOf, PosOr

\* The window of a stretch that begins at base.
PleIs(st, base) ==
    /\ st = [conv |-> WindowAt(base), has_init |-> st.has_init]
    /\ st.has_init \in BOOLEAN /\ (~st.has_init => base = 0)

LEMMA StepsBack ==
    ASSUME NEW k \in 0..3
    PROVE  TapStep * k = PleWindow - TapStep * (3 - k) /\ TapStep * (3 - k) \in 0 .. PleWindow
<1>1. TapStep \in Nat /\ PleWindow = 3 * TapStep
    BY SizesAre
<1>2. k = 0 \/ k = 1 \/ k = 2 \/ k = 3
    OBVIOUS
<1>3. QED BY <1>1, <1>2

LEMMA OracleTapsAre ==
    ASSUME NEW st, NEW base \in Nat, NEW n \in Nat, NEW t \in 0 .. (n - 1), PleIs(st, base)
    PROVE  OracleTaps(st, base, Rows(base, n), t) = Whole(base + t).taps
<1> DEFINE p == base + t
           at(k) == base + t + TapStep * k - PleWindow
           tap(k) == CASE at(k) < 0 -> Blank
                       [] at(k) \in 0..(base - 1) -> IF st.has_init THEN st.conv[at(k) + PleWindow - base] ELSE Blank
                       [] OTHER -> Rows(base, n)[at(k) - base]
<1>1. OracleTaps(st, base, Rows(base, n), t) = [k \in 0..3 |-> tap(k)]
    BY DEF OracleTaps
<1>2. ASSUME NEW k \in 0..3
      PROVE  tap(k) = PosOr(p - TapStep * (3 - k))
  <2> DEFINE d == TapStep * (3 - k)
             q == p - d
  <2>1. TapStep * k = PleWindow - d /\ d \in 0 .. PleWindow
      BY StepsBack
  <2>2. PleWindow \in Nat /\ t \in Nat /\ n \in Nat /\ p \in Nat
      BY SizesAre
  <2> HIDE DEF d
  <2>3. at(k) = q /\ q \in Int
      BY <2>1, <2>2
  <2>4. tap(k) = CASE q < 0 -> Blank
                   [] q \in 0..(base - 1) -> IF st.has_init THEN st.conv[q + PleWindow - base] ELSE Blank
                   [] OTHER -> Rows(base, n)[q - base]
      BY <2>3
  <2> HIDE DEF tap, at
  <2>5. q <= p /\ q >= p - PleWindow
      BY <2>1, <2>2
  <2> HIDE DEF q
  <2>6. CASE q < 0
      BY <2>4, <2>6 DEF PosOr, q, d
  <2>7. CASE q \in 0..(base - 1)
    <3> DEFINE i == q + PleWindow - base
    <3>1. i \in 0 .. (PleWindow - 1) /\ base + i - PleWindow = q /\ ~(q < 0) /\ base # 0
        BY <2>2, <2>3, <2>5, <2>7
    <3> HIDE DEF i
    <3>2. st.has_init /\ st.conv = WindowAt(base)
        BY <3>1 DEF PleIs
    <3>3. st.conv[i] = q
        BY <3>1, <3>2 DEF WindowAt, PosOr
    <3>4. tap(k) = st.conv[i]
        BY <2>4, <2>7, <3>1, <3>2 DEF i
    <3>5. QED BY <3>1, <3>3, <3>4 DEF PosOr, q, d
  <2>8. CASE q >= base
    <3> DEFINE r == q - base
    <3>1. r \in 0 .. (n - 1) /\ base + r = q /\ ~(q < 0) /\ q \notin 0..(base - 1)
        BY <2>2, <2>3, <2>5, <2>8
    <3>2. tap(k) = Rows(base, n)[r]
        BY <2>4, <3>1
    <3> HIDE DEF r
    <3>3. Rows(base, n)[r] = q
        BY <3>1 DEF Rows
    <3>4. QED BY <3>1, <3>2, <3>3 DEF PosOr, q, d
  <2>9. QED BY <2>2, <2>3, <2>6, <2>7, <2>8
<1> HIDE DEF tap
<1>3. [k \in 0..3 |-> tap(k)] = TapsOf(p)
    BY <1>2 DEF TapsOf
<1>4. QED BY <1>1, <1>3, TapsAre

LEMMA CardTapsAre ==
    ASSUME NEW st, NEW base \in Nat, NEW n \in Nat, NEW t \in 0 .. (n - 1), PleIs(st, base)
    PROVE  CardTaps(st, Rows(base, n), t) = Whole(base + t).taps
<1> DEFINE p == base + t
           at(k) == t - PleWindow + TapStep * k
           tap(k) == CASE at(k) >= 0 -> Rows(base, n)[at(k)]
                       [] at(k) < 0 -> IF st.has_init THEN st.conv[PleWindow + at(k)] ELSE Blank
<1>1. CardTaps(st, Rows(base, n), t) = [k \in 0..3 |-> tap(k)]
    BY DEF CardTaps
<1>2. ASSUME NEW k \in 0..3
      PROVE  tap(k) = PosOr(p - TapStep * (3 - k))
  <2> DEFINE d == TapStep * (3 - k)
             j == t - d
  <2>1. TapStep * k = PleWindow - d /\ d \in 0 .. PleWindow
      BY StepsBack
  <2>2. PleWindow \in Nat /\ t \in Nat /\ n \in Nat /\ p \in Nat
      BY SizesAre
  <2> HIDE DEF d
  <2>3. at(k) = j /\ j \in Int /\ p - d = base + j
      BY <2>1, <2>2
  <2>4. tap(k) = CASE j >= 0 -> Rows(base, n)[j]
                   [] j < 0 -> IF st.has_init THEN st.conv[PleWindow + j] ELSE Blank
      BY <2>3
  <2> HIDE DEF tap, at
  <2>5. j <= n - 1 /\ j >= 0 - PleWindow
      BY <2>1, <2>2
  <2> HIDE DEF j
  <2>6. CASE j >= 0
    <3>1. j \in 0 .. (n - 1) /\ ~(base + j < 0) /\ ~(j < 0)
        BY <2>2, <2>3, <2>5, <2>6
    <3>2. Rows(base, n)[j] = base + j
        BY <3>1 DEF Rows
    <3>3. tap(k) = Rows(base, n)[j]
        BY <2>4, <2>6, <3>1
    <3>4. QED BY <2>3, <3>1, <3>2, <3>3 DEF PosOr, d
  <2>7. CASE j < 0
    <3> DEFINE i == PleWindow + j
    <3>1. i \in 0 .. (PleWindow - 1) /\ base + i - PleWindow = base + j /\ ~(j >= 0)
        BY <2>2, <2>3, <2>5, <2>7
    <3>2. tap(k) = IF st.has_init THEN st.conv[i] ELSE Blank
        BY <2>4, <2>7, <3>1
    <3> HIDE DEF i
    <3>3. WindowAt(base)[i] = PosOr(base + j)
        BY <3>1 DEF WindowAt
    <3>4. CASE st.has_init
        BY <2>3, <3>2, <3>3, <3>4 DEF PleIs, d
    <3>5. CASE ~st.has_init
      <4>1. base = 0 /\ base + j < 0
          BY <2>3, <2>7, <3>5 DEF PleIs
      <4>2. QED BY <2>3, <3>2, <3>5, <4>1 DEF PosOr, d
    <3>6. QED BY <3>4, <3>5
  <2>8. QED BY <2>3, <2>6, <2>7
<1> HIDE DEF tap
<1>3. [k \in 0..3 |-> tap(k)] = TapsOf(p)
    BY <1>2 DEF TapsOf
<1>4. QED BY <1>1, <1>3, TapsAre

-----------------------------------------------------------------------------
\* The window of the n-grams' convolution behind a stretch.
LEMMA OracleWindowIs ==
    ASSUME NEW st, NEW base \in Nat, NEW n \in Nat \ {0}, PleIs(st, base)
    PROVE  OracleWindow(st, base, Rows(base, n), n) = [conv |-> WindowAt(base + n), has_init |-> TRUE]
<1> DEFINE q(i) == base + n + i - PleWindow
           next(i) == CASE q(i) < 0 -> Blank
                        [] q(i) >= base -> Rows(base, n)[q(i) - base]
                        [] OTHER -> IF st.has_init THEN st.conv[q(i) + PleWindow - base] ELSE Blank
<1>1. OracleWindow(st, base, Rows(base, n), n)
         = [conv |-> [i \in 0..(PleWindow - 1) |-> next(i)], has_init |-> TRUE]
    BY DEF OracleWindow
<1>2. PleWindow \in Nat
    BY SizesAre
<1>3. ASSUME NEW i \in 0..(PleWindow - 1)
      PROVE  next(i) = PosOr(base + n + i - PleWindow)
  <2> DEFINE z == q(i)
  <2>1. z \in Int /\ z < base + n
      BY <1>2
  <2>2. next(i) = CASE z < 0 -> Blank
                    [] z >= base -> Rows(base, n)[z - base]
                    [] OTHER -> IF st.has_init THEN st.conv[z + PleWindow - base] ELSE Blank
      OBVIOUS
  <2>3. z + PleWindow - base = n + i
      BY <1>2
  <2> HIDE DEF next, z
  <2>4. next(i) = PosOr(z)
    <3>1. CASE z < 0
      <4>0. ~(z >= base)
          BY <2>1, <3>1
      <4>1. next(i) = Blank
          BY <2>2, <3>1, <4>0
      <4>2. PosOr(z) = Blank
          BY <3>1 DEF PosOr
      <4>3. QED BY <4>1, <4>2
    <3>2. CASE z >= base
      <4>1. z - base \in 0 .. (n - 1) /\ base + (z - base) = z /\ ~(z < 0)
          BY <2>1, <3>2
      <4>2. Rows(base, n)[z - base] = z
          BY <4>1 DEF Rows
      <4>3. QED BY <2>2, <3>2, <4>1, <4>2 DEF PosOr
    <3>3. CASE z >= 0 /\ z < base
      <4>1. n + i \in 0..(PleWindow - 1) /\ base + (n + i) - PleWindow = z /\ base # 0 /\ ~(z < 0) /\ ~(z >= base)
          BY <1>2, <2>1, <2>3, <3>3
      <4>2. st.has_init /\ st.conv = WindowAt(base)
          BY <4>1 DEF PleIs
      <4>3. WindowAt(base)[n + i] = PosOr(z)
          BY <4>1 DEF WindowAt
      <4>4. next(i) = st.conv[n + i]
          BY <2>2, <2>3, <4>1, <4>2
      <4>5. QED BY <4>2, <4>3, <4>4
    <3>4. QED BY <2>1, <3>1, <3>2, <3>3
  <2>5. QED BY <2>4 DEF z
<1> HIDE DEF next
<1>4. [i \in 0..(PleWindow - 1) |-> next(i)] = WindowAt(base + n)
    BY <1>3 DEF WindowAt
<1>5. QED BY <1>1, <1>4

\* The kernel's window is shifted in place, from its first place on.
ShiftIs(st, normed, n, u) == u = [i \in 0..PleWindow |->
    IF i = 0 THEN st.conv
    ELSE [u[i - 1] EXCEPT ![i - 1] =
             IF n - PleWindow + (i - 1) >= 0 THEN normed[n - PleWindow + (i - 1)]
             ELSE IF st.has_init THEN u[i - 1][(i - 1) + n] ELSE Blank]]

\* What it is with the first i places done.
Shifted(base, n, i) == [j \in 0..(PleWindow - 1) |->
    IF j < i THEN PosOr(base + n + j - PleWindow) ELSE PosOr(base + j - PleWindow)]

LEMMA ShiftGoesOn ==
    ASSUME NEW st, NEW base \in Nat, NEW n \in Nat \ {0}, PleIs(st, base), NEW i \in 1 .. PleWindow
    PROVE  Shifted(base, n, i)
              = [Shifted(base, n, i - 1) EXCEPT ![i - 1] =
                   IF n - PleWindow + (i - 1) >= 0 THEN Rows(base, n)[n - PleWindow + (i - 1)]
                   ELSE IF st.has_init THEN Shifted(base, n, i - 1)[(i - 1) + n] ELSE Blank]
<1> DEFINE h == i - 1
           a == Shifted(base, n, h)
           r == n - PleWindow + h
           x == IF r >= 0 THEN Rows(base, n)[r] ELSE IF st.has_init THEN a[h + n] ELSE Blank
<1>1. PleWindow \in Nat /\ h \in 0..(PleWindow - 1) /\ r \in Int /\ h \in Nat
    BY SizesAre
<1>2. x = PosOr(base + n + h - PleWindow)
  <2>1. CASE r >= 0
    <3>1. r \in 0 .. (n - 1) /\ base + r = base + n + h - PleWindow /\ ~(base + r < 0)
        BY <1>1, <2>1
    <3> HIDE DEF r
    <3>2. Rows(base, n)[r] = base + r
        BY <3>1 DEF Rows
    <3>3. QED BY <2>1, <3>1, <3>2 DEF PosOr
  <2>2. CASE ~(r >= 0)
    <3>1. h + n \in 0..(PleWindow - 1) /\ ~(h + n < h) /\ base + (h + n) - PleWindow = base + n + h - PleWindow
        BY <1>1, <2>2
    <3>2. a[h + n] = PosOr(base + n + h - PleWindow)
        BY <3>1 DEF Shifted
    <3>3. CASE st.has_init
        BY <2>2, <3>2, <3>3
    <3>4. CASE ~st.has_init
      <4>1. base = 0 /\ base + n + h - PleWindow < 0
          BY <1>1, <2>2, <3>4 DEF PleIs
      <4>2. QED BY <2>2, <3>4, <4>1 DEF PosOr
    <3>5. QED BY <3>3, <3>4
  <2>3. QED BY <2>1, <2>2
<1> HIDE DEF x
<1>3. [a EXCEPT ![h] = x] = [j \in 0..(PleWindow - 1) |-> IF j = h THEN x ELSE a[j]]
    BY <1>1 DEF Shifted
<1>4. ASSUME NEW j \in 0..(PleWindow - 1)
      PROVE  (IF j = h THEN x ELSE a[j]) = IF j < i THEN PosOr(base + n + j - PleWindow) ELSE PosOr(base + j - PleWindow)
  <2>1. a[j] = IF j < h THEN PosOr(base + n + j - PleWindow) ELSE PosOr(base + j - PleWindow)
      BY DEF Shifted
  <2>2. j < i <=> j < h \/ j = h
      BY <1>1
  <2> HIDE DEF a, h
  <2>3. QED BY <1>2, <2>1, <2>2
<1>5. [a EXCEPT ![h] = x] = Shifted(base, n, i)
  <2> HIDE DEF a, h
  <2>1. QED BY <1>3, <1>4 DEF Shifted
<1>6. QED BY <1>5 DEF a, h, x, r

LEMMA CardWindowIs ==
    ASSUME NEW st, NEW base \in Nat, NEW n \in Nat \ {0}, PleIs(st, base)
    PROVE  CardWindow(st, Rows(base, n), n) = [conv |-> WindowAt(base + n), has_init |-> TRUE]
<1> DEFINE U == CHOOSE u : ShiftIs(st, Rows(base, n), n, u)
           V == [i \in 0..PleWindow |-> Shifted(base, n, i)]
           Next(w, i) == [w EXCEPT ![i - 1] =
                            IF n - PleWindow + (i - 1) >= 0 THEN Rows(base, n)[n - PleWindow + (i - 1)]
                            ELSE IF st.has_init THEN w[(i - 1) + n] ELSE Blank]
<1>1. CardWindow(st, Rows(base, n), n) = [conv |-> U[PleWindow], has_init |-> TRUE]
    BY DEF CardWindow, ShiftIs
<1>2. PleWindow \in Nat
    BY SizesAre
<1>3. Shifted(base, n, 0) = st.conv
  <2>1. st.conv = WindowAt(base)
      BY DEF PleIs
  <2>2. \A j \in 0..(PleWindow - 1) : ~(j < 0)
      BY <1>2
  <2>3. QED BY <2>1, <2>2 DEF Shifted, WindowAt
<1>4. \A i \in 1 .. PleWindow : V[i] = Next(V[i - 1], i)
  <2> SUFFICES ASSUME NEW i \in 1 .. PleWindow PROVE V[i] = Next(V[i - 1], i)
      OBVIOUS
  <2>1. i \in 0 .. PleWindow /\ i - 1 \in 0 .. PleWindow
      BY <1>2
  <2>2. V[i] = Shifted(base, n, i) /\ V[i - 1] = Shifted(base, n, i - 1)
      BY <2>1
  <2> HIDE DEF V
  <2>3. QED BY <2>2, ShiftGoesOn
<1>5. V[0] = st.conv
    BY <1>2, <1>3
<1>6. ShiftIs(st, Rows(base, n), n, V)
  <2>1. \A i \in 0 .. PleWindow : i = 0 \/ i \in 1 .. PleWindow
      BY <1>2
  <2>2. V = [i \in 0 .. PleWindow |-> V[i]]
      OBVIOUS
  <2>3. \A i \in 1 .. PleWindow : i # 0
      OBVIOUS
  <2> HIDE DEF V
  <2>4. \A i \in 0 .. PleWindow : V[i] = IF i = 0 THEN st.conv ELSE Next(V[i - 1], i)
      BY <1>4, <1>5, <2>1, <2>3
  <2>5. V = [i \in 0 .. PleWindow |-> IF i = 0 THEN st.conv ELSE Next(V[i - 1], i)]
    <3> HIDE DEF Next
    <3>1. QED BY <2>2, <2>4
  <2>6. QED BY <2>5 DEF ShiftIs
<1>7. ShiftIs(st, Rows(base, n), n, U)
  <2> HIDE DEF V
  <2>1. QED BY <1>6
<1> HIDE DEF U
<1>8. U[0] = st.conv /\ \A i \in 1 .. PleWindow : U[i] = Next(U[i - 1], i)
  <2>1. 0 \in 0 .. PleWindow /\ \A i \in 1 .. PleWindow : i \in 0 .. PleWindow /\ i # 0
      BY <1>2
  <2>2. QED BY <1>7, <2>1 DEF ShiftIs
<1>9. U[PleWindow] = V[PleWindow]
  <2> HIDE DEF V, Next
  <2>1. U[0] = V[0] /\ \A i \in 1 .. PleWindow : U[i - 1] = V[i - 1] => U[i] = V[i]
      BY <1>4, <1>5, <1>8
  <2>2. QED BY <1>2, <2>1, StepByStep
<1>10. V[PleWindow] = WindowAt(base + n)
  <2>1. PleWindow \in 0 .. PleWindow /\ \A j \in 0..(PleWindow - 1) : j < PleWindow
      BY <1>2
  <2>2. QED BY <2>1 DEF Shifted, WindowAt
<1>11. QED BY <1>1, <1>9, <1>10

-----------------------------------------------------------------------------
\* The rows a linear layer's convolution reaches, and the ones it leaves.
LEMMA HistIs ==
    ASSUME NEW m \in Nat
    PROVE  /\ HistLen(m) \in Nat /\ HistLen(m) <= m /\ HistLen(m) <= ConvK - 1
           /\ HistLen(m) = m \/ HistLen(m) = ConvK - 1
           /\ HistAt(m) \in Seq(Int) /\ Len(HistAt(m)) = HistLen(m)
           /\ \A i \in 1 .. HistLen(m) : HistAt(m)[i] = m - HistLen(m) + i - 1
<1>1. ConvK \in Nat \ {0}
    BY SizesAre
<1>2. /\ HistLen(m) \in Nat /\ HistLen(m) <= m /\ HistLen(m) <= ConvK - 1
      /\ HistLen(m) = m \/ HistLen(m) = ConvK - 1
    BY <1>1 DEF HistLen
<1>3. \A i \in 1 .. HistLen(m) : m - HistLen(m) + i - 1 \in Int
    BY <1>2
<1>4. HistAt(m) \in [1 .. HistLen(m) -> Int]
    BY <1>3 DEF HistAt
<1>5. HistAt(m) \in Seq(Int) /\ Len(HistAt(m)) = HistLen(m)
    BY <1>2, <1>4
<1>6. QED BY <1>2, <1>5 DEF HistAt

LEMMA LinearTapsAre ==
    ASSUME NEW base \in Nat, NEW n \in Nat, NEW t \in 0 .. (n - 1)
    PROVE  LinearTaps(HistAt(base), Rows(base, n), t) = Whole(base + t).conv
<1> DEFINE h == HistAt(base)
           p == base + t
           q(j) == t + j - (ConvK - 1)
           hq(j) == Len(h) + q(j)
           tap(j) == IF q(j) >= 0 THEN Rows(base, n)[q(j)] ELSE IF hq(j) >= 0 THEN h[hq(j) + 1] ELSE Blank
           w(j) == PosOr(p - 1 * (ConvK - 1 - j))
<1>1. LinearTaps(h, Rows(base, n), t) = [j \in 0..(ConvK - 1) |-> tap(j)]
    BY DEF LinearTaps
<1>2. Whole(p).conv = [j \in 0..(ConvK - 1) |-> w(j)]
    BY DEF Whole, PosOr
<1>3. ASSUME NEW j \in 0 .. (ConvK - 1)
      PROVE  tap(j) = w(j)
  <2>1. ConvK \in Nat \ {0} /\ j \in Nat /\ j <= ConvK - 1 /\ t \in Nat /\ t <= n - 1
      BY SizesAre
  <2>2. /\ HistLen(base) \in Nat /\ HistLen(base) <= base /\ HistLen(base) <= ConvK - 1
        /\ HistLen(base) = base \/ HistLen(base) = ConvK - 1
        /\ Len(h) = HistLen(base)
        /\ \A i \in 1 .. HistLen(base) : h[i] = base - HistLen(base) + i - 1
      BY HistIs
  <2> DEFINE z == q(j)
             L == HistLen(base)
  <2>3. z \in Int /\ z <= n - 1 /\ z >= 0 - (ConvK - 1) /\ p - 1 * (ConvK - 1 - j) = base + z
      BY <2>1
  <2>4. tap(j) = IF z >= 0 THEN Rows(base, n)[z] ELSE IF L + z >= 0 THEN h[L + z + 1] ELSE Blank
      BY <2>2
  <2> HIDE DEF z, L, h, tap
  <2>5. w(j) = PosOr(base + z)
      BY <2>3
  <2>6. CASE z >= 0
    <3>1. z \in 0 .. (n - 1) /\ ~(base + z < 0)
        BY <2>3, <2>6
    <3>2. Rows(base, n)[z] = base + z
        BY <3>1 DEF Rows
    <3>3. QED BY <2>4, <2>5, <2>6, <3>1, <3>2 DEF PosOr
  <2>7. CASE ~(z >= 0) /\ L + z >= 0
    <3>1. L + z + 1 \in 1 .. L /\ base - L + (L + z + 1) - 1 = base + z /\ ~(base + z < 0)
        BY <2>2, <2>3, <2>7 DEF L
    <3>2. h[L + z + 1] = base + z
        BY <2>2, <3>1 DEF L
    <3>3. QED BY <2>4, <2>5, <2>7, <3>1, <3>2 DEF PosOr
  <2>8. CASE ~(z >= 0) /\ ~(L + z >= 0)
    <3>1. base + z < 0
        BY <2>1, <2>2, <2>3, <2>8 DEF L
    <3>2. QED BY <2>4, <2>5, <2>8, <3>1 DEF PosOr
  <2>9. QED BY <2>6, <2>7, <2>8
<1> HIDE DEF tap, w
<1>4. QED BY <1>1, <1>2, <1>3

\* The history of a linear layer takes up one row, and drops the oldest.
Pushed(g, x) == LET h == Append(g, x) IN IF Len(h) > ConvK - 1 THEN Tail(h) ELSE h

LEMMA HistGoesOn ==
    ASSUME NEW m \in Nat
    PROVE  Pushed(HistAt(m), m) = HistAt(m + 1)
<1> DEFINE K == ConvK - 1
           L == HistLen(m)
           g == HistAt(m)
           h == Append(g, m)
<1>1. K \in Nat
    BY SizesAre
<1>2. L \in Nat /\ g \in Seq(Int) /\ Len(g) = L /\ \A i \in 1 .. L : g[i] = m - L + i - 1
    BY HistIs
<1>3. L = (IF m < K THEN m ELSE K) /\ HistLen(m + 1) = IF m + 1 < K THEN m + 1 ELSE K
    BY DEF HistLen
<1> HIDE DEF g, L, K
<1>4. h \in Seq(Int) /\ Len(h) = L + 1 /\ h[L + 1] = m /\ \A i \in 1 .. L : h[i] = g[i]
  <2>1. m \in Int
      OBVIOUS
  <2>2. QED BY <1>2, <2>1, AppendProperties
<1>5. \A i \in 1 .. L + 1 : h[i] = m - L + i - 1
  <2> SUFFICES ASSUME NEW i \in 1 .. L + 1 PROVE h[i] = m - L + i - 1
      OBVIOUS
  <2>1. CASE i = L + 1
      BY <1>2, <1>4, <2>1
  <2>2. CASE i \in 1 .. L
      BY <1>2, <1>4, <2>2
  <2>3. QED BY <1>2, <2>1, <2>2
<1> HIDE DEF h
<1>6. Pushed(g, m) = IF L + 1 > K THEN Tail(h) ELSE h
    BY <1>4 DEF Pushed, K, h
<1>7. HistAt(m + 1) = [i \in 1 .. HistLen(m + 1) |-> (m + 1) - HistLen(m + 1) + i - 1]
    BY DEF HistAt
<1>8. CASE m < K
  <2>1. L = m /\ HistLen(m + 1) = m + 1
      BY <1>1, <1>3, <1>8
  <2>2. Pushed(g, m) = h
      BY <1>1, <1>6, <1>8, <2>1
  <2>3. h = [i \in 1 .. (m + 1) |-> h[i]]
      BY <1>4, <2>1
  <2>4. \A i \in 1 .. (m + 1) : h[i] = (m + 1) - (m + 1) + i - 1
      BY <1>5, <2>1
  <2>5. QED BY <1>7, <2>1, <2>2, <2>3, <2>4 DEF g
<1>9. CASE ~(m < K)
  <2>1. L = K /\ HistLen(m + 1) = K
      BY <1>1, <1>3, <1>9
  <2>2. Pushed(g, m) = Tail(h)
      BY <1>1, <1>6, <2>1
  <2>3. Tail(h) = [i \in 1 .. L |-> h[i + 1]]
    <3>1. h # <<>>
        BY <1>2, <1>4
    <3>2. Len(h) - 1 = L
        BY <1>2, <1>4
    <3>3. Tail(h) \in Seq(Int) /\ Len(Tail(h)) = L /\ \A i \in 1 .. L : Tail(h)[i] = h[i + 1]
      <4>1. Tail(h) \in Seq(Int) /\ Len(Tail(h)) = Len(h) - 1 /\ \A i \in 1 .. Len(Tail(h)) : Tail(h)[i] = h[i + 1]
          BY <1>4, <3>1, HeadTailProperties
      <4>2. QED BY <3>2, <4>1
    <3>4. Tail(h) = [i \in 1 .. L |-> Tail(h)[i]]
      <4>1. Tail(h) \in [1 .. Len(Tail(h)) -> Int]
          BY <3>3, LenProperties
      <4>2. Tail(h) \in [1 .. L -> Int]
          BY <3>3, <4>1
      <4>3. QED BY <4>2
    <3>5. QED BY <3>3, <3>4
  <2>4. \A i \in 1 .. L : h[i + 1] = (m + 1) - L + i - 1
    <3> SUFFICES ASSUME NEW i \in 1 .. L PROVE h[i + 1] = (m + 1) - L + i - 1
        OBVIOUS
    <3>1. i + 1 \in 1 .. L + 1
        BY <1>2
    <3>2. QED BY <1>2, <1>5, <3>1
  <2>5. QED BY <1>7, <2>1, <2>2, <2>3, <2>4 DEF g
<1>10. QED BY <1>8, <1>9

\* What LinearHist computes, row by row.
HistStepsIs(hist, rows, n, u) == u = [t \in 0..n |->
    IF t = 0 THEN hist ELSE Pushed(u[t - 1], rows[t - 1])]

LEMMA LinearHistIs ==
    ASSUME NEW base \in Nat, NEW n \in Nat
    PROVE  LinearHist(HistAt(base), Rows(base, n), n) = HistAt(base + n)
<1> DEFINE R == Rows(base, n)
           U == CHOOSE u : HistStepsIs(HistAt(base), R, n, u)
           V == [t \in 0..n |-> HistAt(base + t)]
<1>1. LinearHist(HistAt(base), R, n) = U[n]
    BY DEF LinearHist, HistStepsIs, Pushed
<1>2. \A t \in 1 .. n : V[t] = Pushed(V[t - 1], R[t - 1])
  <2> SUFFICES ASSUME NEW t \in 1 .. n PROVE V[t] = Pushed(V[t - 1], R[t - 1])
      OBVIOUS
  <2>1. t - 1 \in 0 .. (n - 1) /\ t \in 0 .. n /\ t - 1 \in 0 .. n /\ base + (t - 1) \in Nat
        /\ base + (t - 1) + 1 = base + t
      OBVIOUS
  <2>2. R[t - 1] = base + (t - 1)
      BY <2>1 DEF Rows
  <2>3. V[t] = HistAt(base + t) /\ V[t - 1] = HistAt(base + (t - 1))
      BY <2>1
  <2> HIDE DEF V, R
  <2> DEFINE m == base + (t - 1)
  <2>4. Pushed(HistAt(m), m) = HistAt(m + 1)
    <3> HIDE DEF m
    <3>1. m \in Nat
        BY <2>1 DEF m
    <3>2. QED BY <3>1, HistGoesOn
  <2>5. QED BY <2>1, <2>2, <2>3, <2>4
<1>3. V[0] = HistAt(base)
    OBVIOUS
<1>4. V = [t \in 0 .. n |-> V[t]]
    OBVIOUS
<1> HIDE DEF V, R
<1>5. HistStepsIs(HistAt(base), R, n, V)
  <2>1. \A t \in 0 .. n : t = 0 \/ t \in 1 .. n
      OBVIOUS
  <2>2. \A t \in 1 .. n : t # 0
      OBVIOUS
  <2>3. \A t \in 0 .. n : V[t] = IF t = 0 THEN HistAt(base) ELSE Pushed(V[t - 1], R[t - 1])
      BY <1>2, <1>3, <2>1, <2>2
  <2>4. QED BY <1>4, <2>3 DEF HistStepsIs
<1>6. HistStepsIs(HistAt(base), R, n, U)
    BY <1>5
<1> HIDE DEF U
<1>7. U[0] = HistAt(base) /\ \A t \in 1 .. n : U[t] = Pushed(U[t - 1], R[t - 1])
  <2>1. 0 \in 0 .. n /\ \A t \in 1 .. n : t \in 0 .. n /\ t # 0
      OBVIOUS
  <2>2. QED BY <1>6, <2>1 DEF HistStepsIs
<1>8. U[n] = V[n]
  <2>1. U[0] = V[0] /\ \A t \in 1 .. n : U[t - 1] = V[t - 1] => U[t] = V[t]
      BY <1>2, <1>3, <1>7
  <2>2. QED BY <2>1, StepByStep
<1>9. V[n] = HistAt(base + n)
    BY DEF V
<1>10. QED BY <1>1, <1>8, <1>9 DEF R

-----------------------------------------------------------------------------
\* The rows up to a stretch and those of it are the rows up to its end.
LEMMA UpToIs ==
    ASSUME NEW n \in Nat
    PROVE  UpTo(n) \in Seq(Int) /\ Len(UpTo(n)) = n /\ \A i \in 1 .. n : UpTo(n)[i] = i - 1
<1>1. UpTo(n) \in [1 .. n -> Int]
    BY DEF UpTo
<1>2. UpTo(n) \in Seq(Int) /\ Len(UpTo(n)) = n
    BY <1>1
<1>3. QED BY <1>2 DEF UpTo

LEMMA UpToGoesOn ==
    ASSUME NEW base \in Nat, NEW n \in Nat, NEW m \in 0 .. n
    PROVE  UpTo(base) \o [i \in 1 .. m |-> Rows(base, n)[i - 1]] = UpTo(base + m)
<1> DEFINE f == UpTo(base + m)
<1>1. \A i \in 1 .. base : i \in 1 .. (base + m)
    OBVIOUS
<1>2. \A i \in 1 .. m : base + i \in 1 .. (base + m) /\ i - 1 \in 0 .. (n - 1) /\ (base + i) - 1 = base + (i - 1)
    OBVIOUS
<1>3. \A i \in 1 .. (base + m) : f[i] = i - 1
    BY DEF UpTo
<1>4. f = [i \in 1 .. (base + m) |-> f[i]]
    BY DEF UpTo
<1> HIDE DEF f
<1>5. UpTo(base) = [i \in 1 .. base |-> f[i]]
    BY <1>1, <1>3 DEF UpTo
<1>6. [i \in 1 .. m |-> Rows(base, n)[i - 1]] = [i \in 1 .. m |-> f[base + i]]
    BY <1>2, <1>3 DEF Rows
<1>7. [i \in 1 .. base |-> f[i]] \o [i \in 1 .. m |-> f[base + i]] = [i \in 1 .. (base + m) |-> f[i]]
  <2>1. m \in Nat
      OBVIOUS
  <2>2. \A g : [i \in 1 .. base |-> g[i]] \o [i \in 1 .. m |-> g[base + i]] = [i \in 1 .. (base + m) |-> g[i]]
      BY <2>1, Joined
  <2>3. QED BY <2>2, Zenon
<1>8. QED BY <1>4, <1>5, <1>6, <1>7 DEF f

LEMMA RecurIs ==
    ASSUME NEW base \in Nat, NEW n \in Nat, NEW t \in 0 .. (n - 1)
    PROVE  /\ Recur(UpTo(base), Rows(base, n), t) = UpTo(base + t + 1)
           /\ Recur(UpTo(base), Rows(base, n), t) = Whole(base + t).state
<1>1. t + 1 \in 0 .. n /\ base + (t + 1) = base + t + 1
    OBVIOUS
<1>2. Recur(UpTo(base), Rows(base, n), t) = UpTo(base + t + 1)
    BY <1>1, UpToGoesOn DEF Recur
<1>3. Whole(base + t).state = UpTo(base + t + 1)
    BY DEF Whole, UpTo
<1>4. QED BY <1>2, <1>3

-----------------------------------------------------------------------------
\* The indexer's keys.
Key(b) == [rows |-> RowsOfBlock(b - 1), at |-> (b - 1) * Ratio]

\* What a key is made of.
BlockKey == [rows : Seq(Int), at : Int]

LEMMA BlockIs ==
    ASSUME NEW b \in Int
    PROVE  /\ b * Ratio \in Int
           /\ RowsOfBlock(b) \in Seq(Int) /\ Len(RowsOfBlock(b)) = Ratio
           /\ \A i \in 1 .. Ratio : RowsOfBlock(b)[i] = b * Ratio + i - 1
<1>1. Ratio \in Nat \ {0}
    BY SizesAre
<1>2. b * Ratio \in Int
    BY <1>1
<1>3. RowsOfBlock(b) \in [1 .. Ratio -> Int]
    BY <1>1, <1>2 DEF RowsOfBlock
<1>4. RowsOfBlock(b) \in Seq(Int) /\ Len(RowsOfBlock(b)) = Ratio
    BY <1>1, <1>3
<1>5. QED BY <1>2, <1>4 DEF RowsOfBlock

LEMMA IndexIs ==
    ASSUME NEW p \in Nat
    PROVE  /\ IndexAt(p).raw = UpTo(p)
           /\ p \div Ratio \in Nat
           /\ IndexAt(p).comp \in Seq(BlockKey) /\ Len(IndexAt(p).comp) = p \div Ratio
           /\ \A b \in 1 .. (p \div Ratio) : IndexAt(p).comp[b] = Key(b)
<1> DEFINE n == p \div Ratio
           c == IndexAt(p).comp
<1>1. Ratio \in Nat \ {0} /\ n \in Nat
  <2>1. Ratio \in Nat \ {0} /\ n \in Int
      BY SizesAre, QuotientReaches
  <2>2. 0 <= n <=> 0 * Ratio <= p
      BY <2>1, QuotientReaches
  <2>3. 0 * Ratio = 0
      BY <2>1
  <2> HIDE DEF n
  <2>4. QED BY <2>1, <2>2, <2>3
<1>2. c = [b \in 1 .. n |-> Key(b)]
    BY DEF IndexAt, Key
<1>3. ASSUME NEW b \in 1 .. n PROVE Key(b) \in BlockKey
  <2>1. b - 1 \in Int
      OBVIOUS
  <2>2. RowsOfBlock(b - 1) \in Seq(Int) /\ (b - 1) * Ratio \in Int
      BY <2>1, BlockIs
  <2>3. QED BY <2>2 DEF Key, BlockKey
<1> HIDE DEF n, c
<1>4. c \in [1 .. n -> BlockKey]
    BY <1>2, <1>3
<1>5. c \in Seq(BlockKey) /\ Len(c) = n
    BY <1>1, <1>4
<1>6. IndexAt(p).raw = UpTo(p)
    BY DEF IndexAt
<1>7. QED BY <1>1, <1>2, <1>5, <1>6 DEF n, c

\* One row more fills a block, or leaves as many blocks as there were.
LEMMA NextQuotient ==
    ASSUME NEW p \in Nat
    PROVE  /\ (p + 1) \div Ratio \in Nat /\ p \div Ratio \in Nat
           /\ (p + 1) % Ratio = 0 => /\ p \div Ratio + 1 = (p + 1) \div Ratio
                                     /\ (p \div Ratio) * Ratio + Ratio = p + 1
           /\ (p + 1) % Ratio # 0 => p \div Ratio = (p + 1) \div Ratio
<1> DEFINE q == p \div Ratio
           r == p % Ratio
           q1 == (p + 1) \div Ratio
           r1 == (p + 1) % Ratio
<1>1. Ratio \in Nat \ {0} /\ p + 1 \in Nat
    BY SizesAre
<1>2. q \in Nat /\ q1 \in Nat
    BY <1>1, IndexIs
<1>3. p = Ratio * q + r /\ r \in 0 .. Ratio - 1
    BY <1>1, Euclid
<1>4. p + 1 = Ratio * q1 + r1 /\ r1 \in 0 .. Ratio - 1
    BY <1>1, Euclid
<1> HIDE DEF q, r, q1, r1
<1>5. q1 = q => Ratio * q1 = Ratio * q
    OBVIOUS
<1>6. q1 > q => Ratio * q1 >= Ratio * q + Ratio
  <2> SUFFICES ASSUME q1 > q PROVE Ratio * q1 >= Ratio * q + Ratio
      OBVIOUS
  <2>1. PICK d \in Nat : q1 = q + 1 + d
    <3>1. q1 - q - 1 \in Nat /\ q1 = q + 1 + (q1 - q - 1)
        BY <1>2
    <3>2. QED BY <3>1
  <2>2. Ratio * q1 = Ratio * q + Ratio + Ratio * d /\ Ratio * d \in Nat
      BY <1>1, <1>2, <2>1
  <2>3. Ratio * q \in Nat /\ Ratio * q1 \in Nat
      BY <1>1, <1>2
  <2>4. QED BY <1>1, <2>2, <2>3
<1>7. q1 > q + 1 => Ratio * q1 >= Ratio * q + Ratio + Ratio
  <2> SUFFICES ASSUME q1 > q + 1 PROVE Ratio * q1 >= Ratio * q + Ratio + Ratio
      OBVIOUS
  <2>1. PICK d \in Nat : q1 = q + 2 + d
    <3>1. q1 - q - 2 \in Nat /\ q1 = q + 2 + (q1 - q - 2)
        BY <1>2
    <3>2. QED BY <3>1
  <2>2. Ratio * q1 = Ratio * q + Ratio + Ratio + Ratio * d /\ Ratio * d \in Nat
      BY <1>1, <1>2, <2>1
  <2>3. Ratio * q \in Nat /\ Ratio * q1 \in Nat
      BY <1>1, <1>2
  <2>4. QED BY <1>1, <2>2, <2>3
<1>8. q1 < q => Ratio * q >= Ratio * q1 + Ratio
  <2> SUFFICES ASSUME q1 < q PROVE Ratio * q >= Ratio * q1 + Ratio
      OBVIOUS
  <2>1. PICK d \in Nat : q = q1 + 1 + d
    <3>1. q - q1 - 1 \in Nat /\ q = q1 + 1 + (q - q1 - 1)
        BY <1>2
    <3>2. QED BY <3>1
  <2>2. Ratio * q = Ratio * q1 + Ratio + Ratio * d /\ Ratio * d \in Nat
      BY <1>1, <1>2, <2>1
  <2>3. Ratio * q \in Nat /\ Ratio * q1 \in Nat
      BY <1>1, <1>2
  <2>4. QED BY <1>1, <2>2, <2>3
<1>9. Ratio * q \in Nat /\ Ratio * q1 \in Nat /\ q * Ratio = Ratio * q
    BY <1>1, <1>2
<1> DEFINE a == Ratio * q
           b == Ratio * q1
<1>10. a \in Nat /\ b \in Nat /\ p = a + r /\ p + 1 = b + r1 /\ q * Ratio = a
    BY <1>3, <1>4, <1>9
<1>11. (q1 = q => b = a) /\ (q1 > q => b >= a + Ratio) /\ (q1 > q + 1 => b >= a + Ratio + Ratio) /\ (q1 < q => a >= b + Ratio)
    BY <1>5, <1>6, <1>7, <1>8
<1> HIDE DEF a, b
<1>12. ~(q1 < q)
    BY <1>1, <1>3, <1>4, <1>10, <1>11
<1>13. ~(q1 > q + 1)
    BY <1>1, <1>3, <1>4, <1>10, <1>11
<1>14. q1 = q \/ q1 = q + 1
    BY <1>2, <1>12, <1>13
<1>15. q1 = q => r1 # 0
    BY <1>1, <1>3, <1>4, <1>10, <1>11
<1>16. q1 = q + 1 => r1 = 0 /\ a + Ratio = p + 1
    BY <1>1, <1>2, <1>3, <1>4, <1>10, <1>11
<1>17. QED BY <1>2, <1>10, <1>14, <1>15, <1>16 DEF q, q1, r1

\* One row more in the index.
LEMMA PushIndexIs ==
    ASSUME NEW p \in Nat
    PROVE  PushIndex(IndexAt(p), p) = IndexAt(p + 1)
<1> DEFINE raw == Append(UpTo(p), p)
           pooled == [rows |-> SubSeq(raw, Len(raw) - Ratio + 1, Len(raw)), at |-> p + 1 - Ratio]
           n == p \div Ratio
           m == (p + 1) \div Ratio
           c == IndexAt(p).comp
           d == IndexAt(p + 1).comp
<1>1. Ratio \in Nat \ {0} /\ p + 1 \in Nat
    BY SizesAre
<1>2. raw = UpTo(p + 1)
  <2>1. UpTo(p) \in Seq(Int) /\ Len(UpTo(p)) = p /\ p \in Int /\ \A i \in 1 .. p : UpTo(p)[i] = i - 1
      BY UpToIs
  <2>2. raw \in Seq(Int) /\ Len(raw) = p + 1 /\ raw[p + 1] = p /\ \A i \in 1 .. p : raw[i] = UpTo(p)[i]
      BY <2>1, AppendProperties
  <2>3. UpTo(p + 1) \in Seq(Int) /\ Len(UpTo(p + 1)) = p + 1 /\ \A i \in 1 .. p + 1 : UpTo(p + 1)[i] = i - 1
      BY <1>1, UpToIs
  <2> HIDE DEF raw
  <2>4. \A i \in 1 .. p + 1 : raw[i] = UpTo(p + 1)[i]
      BY <2>1, <2>2, <2>3
  <2>5. QED BY <2>2, <2>3, <2>4, SeqEqual
<1>3. IndexAt(p + 1) = [raw |-> UpTo(p + 1), comp |-> d]
    BY DEF IndexAt
<1>4. PushIndex(IndexAt(p), p) = [raw |-> raw, comp |-> IF (p + 1) % Ratio = 0 THEN Append(c, pooled) ELSE c]
  <2>1. IndexAt(p).raw = UpTo(p)
      BY IndexIs
  <2>2. QED BY <2>1 DEF PushIndex
<1>5. /\ c \in Seq(BlockKey) /\ Len(c) = n /\ \A b \in 1 .. n : c[b] = Key(b)
      /\ d \in Seq(BlockKey) /\ Len(d) = m /\ \A b \in 1 .. m : d[b] = Key(b)
    BY <1>1, IndexIs
<1>6. /\ m \in Nat /\ n \in Nat
      /\ (p + 1) % Ratio = 0 => n + 1 = m /\ n * Ratio + Ratio = p + 1
      /\ (p + 1) % Ratio # 0 => n = m
    BY NextQuotient
<1> HIDE DEF c, d, n, m
<1>7. CASE (p + 1) % Ratio = 0
  <2>1. n + 1 = m /\ n * Ratio + Ratio = p + 1 /\ n * Ratio \in Nat
      BY <1>1, <1>6, <1>7
  <2> DEFINE a == n * Ratio
             s == SubSeq(raw, Len(raw) - Ratio + 1, Len(raw))
  <2>2. a \in Nat /\ a + Ratio = p + 1
      BY <2>1
  <2>3. RowsOfBlock(n) \in Seq(Int) /\ Len(RowsOfBlock(n)) = Ratio /\ \A i \in 1 .. Ratio : RowsOfBlock(n)[i] = a + i - 1
      BY <1>6, BlockIs
  <2> HIDE DEF a
  <2>4. raw \in Seq(Int) /\ Len(raw) = p + 1 /\ \A i \in 1 .. p + 1 : raw[i] = i - 1
      BY <1>1, <1>2, UpToIs
  <2>5. s = SubSeq(raw, a + 1, p + 1)
      BY <1>1, <2>2, <2>4
  <2> HIDE DEF s, raw
  <2>6. s \in Seq(Int) /\ Len(s) = Ratio /\ \A i \in 1 .. Ratio : s[i] = raw[a + i]
    <3>1. a + 1 \in Nat /\ p + 1 \in Nat /\ a + 1 \in 1 .. (p + 2) /\ \A i \in (a + 1) .. (p + 1) : raw[i] \in Int
        BY <1>1, <2>2, <2>4
    <3>2. s \in Seq(Int) /\ Len(s) = (IF a + 1 <= p + 1 THEN (p + 1) - (a + 1) + 1 ELSE 0)
          /\ \A i \in 1 .. (p + 1) - (a + 1) + 1 : s[i] = raw[a + 1 + i - 1]
      <4>1. /\ SubSeq(raw, a + 1, p + 1) \in Seq(Int)
            /\ Len(SubSeq(raw, a + 1, p + 1)) = (IF a + 1 <= p + 1 THEN (p + 1) - (a + 1) + 1 ELSE 0)
            /\ \A i \in 1 .. (p + 1) - (a + 1) + 1 : SubSeq(raw, a + 1, p + 1)[i] = raw[a + 1 + i - 1]
          BY <3>1, SubSeqProperties
      <4>2. QED BY <2>5, <4>1
    <3>3. (p + 1) - (a + 1) + 1 = Ratio /\ a + 1 <= p + 1 /\ \A i \in 1 .. Ratio : a + 1 + i - 1 = a + i
        BY <1>1, <2>2
    <3>4. QED BY <3>2, <3>3
  <2>7. \A i \in 1 .. Ratio : s[i] = RowsOfBlock(n)[i]
    <3> SUFFICES ASSUME NEW i \in 1 .. Ratio PROVE s[i] = RowsOfBlock(n)[i]
        OBVIOUS
    <3>1. a + i \in 1 .. p + 1 /\ a + i - 1 = a + (i - 1)
        BY <1>1, <2>2
    <3>2. QED BY <2>2, <2>3, <2>4, <2>6, <3>1
  <2>8. s = RowsOfBlock(n)
      BY <2>3, <2>6, <2>7, SeqEqual
  <2>9. pooled = Key(n + 1)
    <3>1. p + 1 - Ratio = a /\ (n + 1) - 1 = n
        BY <1>1, <1>6, <2>2
    <3>2. pooled = [rows |-> s, at |-> a]
        BY <3>1 DEF s, raw
    <3>3. QED BY <2>8, <3>1, <3>2 DEF Key, a
  <2>10. Key(n + 1) \in BlockKey
    <3>1. n + 1 \in 1 .. m
        BY <1>6, <2>1
    <3>2. d[n + 1] \in BlockKey
        BY <1>5, <3>1, ElementOfSeq
    <3>3. QED BY <1>5, <3>1, <3>2
  <2> HIDE DEF pooled
  <2>11. Append(c, pooled) \in Seq(BlockKey) /\ Len(Append(c, pooled)) = n + 1 /\ Append(c, pooled)[n + 1] = pooled
         /\ \A b \in 1 .. n : Append(c, pooled)[b] = c[b]
      BY <1>5, <2>9, <2>10, AppendProperties
  <2> DEFINE e == Append(c, pooled)
  <2> HIDE DEF e
  <2>12. \A b \in 1 .. m : e[b] = d[b]
    <3> SUFFICES ASSUME NEW b \in 1 .. m PROVE e[b] = d[b]
        OBVIOUS
    <3>1. b \in 1 .. n \/ b = n + 1
        BY <1>6, <2>1
    <3>2. QED BY <1>5, <2>9, <2>11, <3>1 DEF e
  <2>13. e = d
      BY <1>5, <2>1, <2>11, <2>12, SeqEqual DEF e
  <2>14. QED BY <1>2, <1>3, <1>4, <1>7, <2>13 DEF e
<1>8. CASE (p + 1) % Ratio # 0
  <2>1. c = d
      BY <1>5, <1>6, <1>8, SeqEqual
  <2>2. QED BY <1>2, <1>3, <1>4, <1>8, <2>1
<1>9. QED BY <1>7, <1>8

-----------------------------------------------------------------------------
\* The order of the first v blocks, and how many come before one of them.
Ahead(a, b) == like[a] > like[b] \/ (like[a] = like[b] /\ a < b)

Better(v, b) == {a \in 0 .. (v - 1) : Ahead(a, b)}

Rank(v, b) == Cardinality(Better(v, b))

Sorts(v, o) == \A i, j \in 1 .. v : i < j => Ahead(o[i], o[j])

LEMMA RankOrders ==
    ASSUME NEW v \in Nat, \A b \in 0 .. (v - 1) : like[b] \in Int
    PROVE  \A a \in 0 .. (v - 1) :
             /\ Rank(v, a) \in 0 .. (v - 1)
             /\ \A b \in 0 .. (v - 1) : /\ Ahead(a, b) <=> Rank(v, a) < Rank(v, b)
                                        /\ Rank(v, a) = Rank(v, b) => a = b
<1> DEFINE D == 0 .. (v - 1)
<1>1. IsFiniteSet(D) /\ Cardinality(D) = v /\ \A b \in D : b \in Int /\ like[b] \in Int
  <2>1. 0 \in Int /\ v - 1 \in Int
      OBVIOUS
  <2>2. IsFiniteSet(D) /\ Cardinality(D) = IF 0 > v - 1 THEN 0 ELSE (v - 1) - 0 + 1
      BY <2>1, FS_Interval
  <2>3. QED BY <2>2
<1> HIDE DEF D
<1>2. ASSUME NEW b \in D
      PROVE  IsFiniteSet(Better(v, b)) /\ Rank(v, b) \in Nat /\ Rank(v, b) < v
  <2>1. Better(v, b) \in SUBSET D /\ b \notin Better(v, b)
      BY <1>1 DEF Better, Ahead, D
  <2>2. IsFiniteSet(Better(v, b)) /\ Rank(v, b) <= Cardinality(D) /\ Rank(v, b) # Cardinality(D)
      BY <1>1, <2>1, FS_Subset DEF Rank
  <2>3. Rank(v, b) \in Nat
      BY <2>2, FS_CardinalityType DEF Rank
  <2>4. QED BY <1>1, <2>2, <2>3
<1>3. ASSUME NEW a \in D, NEW b \in D, Ahead(a, b)
      PROVE  Rank(v, a) < Rank(v, b)
  <2>1. Better(v, a) \in SUBSET Better(v, b) /\ a \in Better(v, b) /\ a \notin Better(v, a)
      BY <1>1, <1>3 DEF Better, Ahead, D
  <2>2. Rank(v, a) <= Rank(v, b) /\ Rank(v, a) # Rank(v, b)
      BY <1>2, <2>1, FS_Subset DEF Rank
  <2>3. QED BY <1>2, <2>2
<1>4. \A a, b \in D : a = b \/ Ahead(a, b) \/ Ahead(b, a)
    BY <1>1 DEF Ahead
<1>5. \A a \in D : Rank(v, a) \in D
    BY <1>2 DEF D
<1>6. \A a, b \in D : (Ahead(a, b) <=> Rank(v, a) < Rank(v, b)) /\ (Rank(v, a) = Rank(v, b) => a = b)
    BY <1>2, <1>3, <1>4
<1>7. QED BY <1>5, <1>6 DEF D

\* Numbers below v that grow are all of them.
LEMMA Growing ==
    ASSUME NEW v \in Nat, NEW g, \A i \in 1 .. v : g[i] \in 0 .. (v - 1),
           \A i, j \in 1 .. v : i < j => g[i] < g[j]
    PROVE  \A i \in 1 .. v : g[i] = i - 1
<1> DEFINE P == {k \in 0 .. v : \A i \in 1 .. v : i <= k => g[i] >= i - 1}
           Q == {k \in 0 .. v : \A i \in 1 .. v : i > v - k => g[i] <= i - 1}
<1>1. 0 .. v \subseteq P
  <2>1. 0 \in P
      OBVIOUS
  <2>2. ASSUME NEW k \in 1 .. v, k - 1 \in P PROVE k \in P
    <3>1. g[k] >= k - 1
      <4>1. CASE k = 1
          BY <4>1
      <4>2. CASE k # 1
        <5>1. k - 1 \in 1 .. v /\ k - 1 < k /\ k - 1 <= k - 1 /\ k \in 1 .. v
            BY <4>2
        <5>2. g[k - 1] >= (k - 1) - 1
            BY <2>2, <5>1
        <5>3. g[k - 1] < g[k] /\ g[k - 1] \in Int /\ g[k] \in Int
            BY <5>1
        <5>4. QED BY <5>2, <5>3
      <4>3. QED BY <4>1, <4>2
    <3>2. \A i \in 1 .. v : i <= k => i = k \/ i <= k - 1
        OBVIOUS
    <3>3. \A i \in 1 .. v : i <= k => g[i] >= i - 1
        BY <2>2, <3>1, <3>2
    <3>4. QED BY <3>3
  <2> HIDE DEF P
  <2>3. QED BY <2>1, <2>2, Upwards
<1>2. 0 .. v \subseteq Q
  <2>1. 0 \in Q
      OBVIOUS
  <2>2. ASSUME NEW k \in 1 .. v, k - 1 \in Q PROVE k \in Q
    <3> DEFINE m == v - k + 1
    <3>1. m \in 1 .. v /\ m \in Int
        OBVIOUS
    <3>2. g[m] <= m - 1
      <4>1. CASE m = v
          BY <4>1
      <4>2. CASE m # v
        <5>1. m + 1 \in 1 .. v /\ m < m + 1 /\ m + 1 > v - (k - 1)
            BY <4>2
        <5>2. g[m + 1] <= (m + 1) - 1
            BY <2>2, <5>1
        <5>3. g[m] < g[m + 1] /\ g[m + 1] \in Int /\ g[m] \in Int
          <6> HIDE DEF m
          <6>1. QED BY <3>1, <5>1
        <5>4. QED BY <5>2, <5>3
      <4>3. QED BY <4>1, <4>2
    <3>3. \A i \in 1 .. v : i > v - k => i = m \/ i > v - (k - 1)
        OBVIOUS
    <3>4. \A i \in 1 .. v : i > v - k => g[i] <= i - 1
      <4> HIDE DEF m
      <4>1. QED BY <2>2, <3>2, <3>3
    <3>5. QED BY <3>4
  <2> HIDE DEF Q
  <2>3. QED BY <2>1, <2>2, Upwards
<1>3. v \in P /\ v \in Q
  <2>1. v \in 0 .. v
      OBVIOUS
  <2> HIDE DEF P, Q
  <2>2. QED BY <1>1, <1>2, <2>1
<1>4. \A i \in 1 .. v : i <= v /\ i > v - v
    OBVIOUS
<1>5. \A i \in 1 .. v : g[i] >= i - 1 /\ g[i] <= i - 1
    BY <1>3, <1>4
<1>6. QED BY <1>5

\* There is one way to put the blocks in order: each at its rank.
LEMMA SortExists ==
    ASSUME NEW v \in Nat, \A b \in 0 .. (v - 1) : like[b] \in Int
    PROVE  \E o \in [1 .. v -> 0 .. (v - 1)] : Sorts(v, o)
<1> DEFINE D == 0 .. (v - 1)
           f == [b \in D |-> Rank(v, b)]
           o == [i \in 1 .. v |-> CHOOSE b \in D : f[b] = i - 1]
<1>1. \A a \in D : Rank(v, a) \in D /\ \A b \in D : Rank(v, a) = Rank(v, b) => a = b
    BY RankOrders
<1>2. IsFiniteSet(D)
  <2>1. 0 \in Int /\ v - 1 \in Int
      OBVIOUS
  <2>2. QED BY <2>1, FS_Interval
<1>3. f \in Injection(D, D)
  <2> HIDE DEF D
  <2>1. f \in [D -> D] /\ \A a, b \in D : f[a] = f[b] => a = b
      BY <1>1
  <2> HIDE DEF f
  <2>2. QED BY <2>1 DEF Injection, IsInjective
<1>4. f \in Surjection(D, D)
  <2> HIDE DEF D, f
  <2>1. QED BY <1>2, <1>3, FS_Injection
<1>5. \A d \in D : \E b \in D : f[b] = d
  <2> HIDE DEF D, f
  <2>1. QED BY <1>4 DEF Surjection
<1>6. ASSUME NEW i \in 1 .. v
      PROVE  o[i] \in D /\ Rank(v, o[i]) = i - 1
  <2>1. i - 1 \in D
      OBVIOUS
  <2> HIDE DEF D
  <2>2. \E b \in D : f[b] = i - 1
      BY <1>5, <2>1
  <2> HIDE DEF f
  <2>3. o[i] \in D /\ f[o[i]] = i - 1
      BY <2>2
  <2> HIDE DEF o
  <2>4. QED BY <2>3 DEF f
<1> HIDE DEF o
<1>7. Sorts(v, o)
  <2> SUFFICES ASSUME NEW i \in 1 .. v, NEW j \in 1 .. v, i < j PROVE Ahead(o[i], o[j])
      BY DEF Sorts
  <2>1. Rank(v, o[i]) < Rank(v, o[j])
      BY <1>6
  <2>2. QED BY <1>6, <2>1, RankOrders
<1>8. o \in [1 .. v -> D]
  <2> HIDE DEF D
  <2>1. o = [i \in 1 .. v |-> o[i]]
      BY DEF o
  <2>2. QED BY <1>6, <2>1
<1>9. QED BY <1>7, <1>8

LEMMA SortIs ==
    ASSUME NEW v \in Nat, \A b \in 0 .. (v - 1) : like[b] \in Int,
           NEW o \in [1 .. v -> 0 .. (v - 1)], Sorts(v, o)
    PROVE  \A i \in 1 .. v : o[i] \in 0 .. (v - 1) /\ Rank(v, o[i]) = i - 1
<1> DEFINE g == [i \in 1 .. v |-> Rank(v, o[i])]
<1>1. \A i \in 1 .. v : o[i] \in 0 .. (v - 1)
    OBVIOUS
<1>2. \A i \in 1 .. v : Rank(v, o[i]) \in 0 .. (v - 1)
    BY <1>1, RankOrders
<1>3. \A i, j \in 1 .. v : i < j => Rank(v, o[i]) < Rank(v, o[j])
    BY <1>1, RankOrders DEF Sorts
<1>4. \A i \in 1 .. v : g[i] = Rank(v, o[i])
    OBVIOUS
<1> HIDE DEF g
<1>5. \A i \in 1 .. v : g[i] = i - 1
    BY <1>2, <1>3, <1>4, Growing
<1>6. QED BY <1>1, <1>4, <1>5

\* The block a row is of.
LEMMA BlockOfRow ==
    ASSUME NEW q \in Nat
    PROVE  /\ q \div Ratio \in Nat
           /\ \A b \in Int : b = q \div Ratio <=> b * Ratio <= q /\ q < b * Ratio + Ratio
           /\ \A b \in Int : b <= q \div Ratio <=> b * Ratio <= q
<1> DEFINE d == q \div Ratio
<1>1. Ratio \in Nat \ {0}
    BY SizesAre
<1>2. d \in Nat
    BY IndexIs
<1>3. \A b \in Int : b <= d <=> b * Ratio <= q
    BY <1>1, QuotientReaches
<1> HIDE DEF d
<1>4. ASSUME NEW b \in Int
      PROVE  b = d <=> b * Ratio <= q /\ q < b * Ratio + Ratio
  <2>1. b <= d <=> b * Ratio <= q
      BY <1>3
  <2>2. b + 1 <= d <=> (b + 1) * Ratio <= q
      BY <1>3
  <2>3. (b + 1) * Ratio = b * Ratio + Ratio /\ b * Ratio \in Int
      BY <1>1
  <2> DEFINE m == b * Ratio
  <2>4. m \in Int /\ (b <= d <=> m <= q) /\ (b + 1 <= d <=> m + Ratio <= q)
      BY <2>1, <2>2, <2>3
  <2> HIDE DEF m
  <2>5. b = d <=> m <= q /\ q < m + Ratio
      BY <1>1, <1>2, <2>4
  <2>6. QED BY <2>5 DEF m
<1>5. QED BY <1>2, <1>3, <1>4 DEF d

\* Every full block has the key of its own rows.
LEMMA ScoreIs ==
    ASSUME NEW p \in Nat, NEW b \in 0 .. (p \div Ratio - 1)
    PROVE  Score(IndexAt(p), b) = like[b]
<1>1. p \div Ratio \in Nat
    BY IndexIs
<1> DEFINE v == p \div Ratio
<1> HIDE DEF v
<1>2. b + 1 \in 1 .. v /\ (b + 1) - 1 = b
    BY <1>1 DEF v
<1>3. IndexAt(p).comp[b + 1] = Key(b + 1)
    BY <1>2, IndexIs DEF v
<1>4. Key(b + 1) = [rows |-> RowsOfBlock(b), at |-> b * Ratio]
    BY <1>2 DEF Key
<1>5. QED BY <1>3, <1>4 DEF Score

\* The best of v blocks, in order.
BestOf(v, best) ==
    /\ best \in Seq(Int) /\ Len(best) = (IF v < BlockTopK THEN v ELSE BlockTopK)
    /\ \A i \in 1 .. Len(best) : best[i] \in 0 .. (v - 1) /\ Rank(v, best[i]) = i - 1

\* The rows of these blocks, and those behind the last full block.
SelectOf(p, best) ==
    LET first == ((p + 1) \div Ratio) * Ratio
    IN FlattenSeq([i \in DOMAIN best |-> RowsOfBlock(best[i])]) \o [i \in 1..(p + 1 - first) |-> first + i - 1]

LEMMA SelectsBest ==
    ASSUME NEW p \in Nat, \A b \in 0 .. ((p + 1) \div Ratio - 1) : like[b] \in Int
    PROVE  \E best : BestOf((p + 1) \div Ratio, best) /\ Select(IndexAt(p + 1), p) = SelectOf(p, best)
<1> DEFINE v == (p + 1) \div Ratio
           idx == IndexAt(p + 1)
           before(a, b) == \/ Score(idx, a) > Score(idx, b)
                           \/ Score(idx, a) = Score(idx, b) /\ a < b
           F == [1 .. v -> 0 .. (v - 1)]
           ordered(o) == \A i, j \in 1 .. v : i < j => before(o[i], o[j])
           order == CHOOSE o \in F : ordered(o)
           k == IF v < BlockTopK THEN v ELSE BlockTopK
           best == SubSeq(order, 1, k)
<1>1. Select(idx, p) = SelectOf(p, best)
    BY DEF Select, SelectOf
<1>2. p + 1 \in Nat /\ v \in Nat
    BY IndexIs
<1>3. \A b \in 0 .. (v - 1) : Score(idx, b) = like[b]
    BY <1>2, ScoreIs
<1> HIDE DEF idx
<1>4. \A a, b \in 0 .. (v - 1) : before(a, b) <=> Ahead(a, b)
    BY <1>3 DEF Ahead
<1> HIDE DEF before
<1>5. ASSUME NEW o \in F
      PROVE  ordered(o) <=> Sorts(v, o)
  <2>1. \A i \in 1 .. v : o[i] \in 0 .. (v - 1)
      OBVIOUS
  <2>2. \A i, j \in 1 .. v : before(o[i], o[j]) <=> Ahead(o[i], o[j])
      BY <1>4, <2>1
  <2>3. QED BY <2>2 DEF Sorts
<1> HIDE DEF ordered
<1>6. \E o \in F : Sorts(v, o)
  <2>1. \A b \in 0 .. (v - 1) : like[b] \in Int
      OBVIOUS
  <2> HIDE DEF v
  <2>2. QED BY <1>2, <2>1, SortExists
<1>7. order \in F /\ Sorts(v, order)
  <2>1. \E o \in F : ordered(o)
      BY <1>5, <1>6
  <2> HIDE DEF F
  <2>2. order \in F /\ ordered(order)
      BY <2>1
  <2>3. QED BY <1>5, <2>2
<1> HIDE DEF order
<1>8. \A i \in 1 .. v : order[i] \in 0 .. (v - 1) /\ Rank(v, order[i]) = i - 1
  <2>1. \A b \in 0 .. (v - 1) : like[b] \in Int
      OBVIOUS
  <2> HIDE DEF v
  <2>2. QED BY <1>2, <1>7, <2>1, SortIs
<1>9. k \in Nat /\ k <= v
    BY <1>2, SizesAre
<1> HIDE DEF k, v
<1>10. \A i \in 1 .. k : i \in 1 .. v /\ order[i] \in Int /\ 1 + i - 1 = i
    BY <1>2, <1>8, <1>9
<1>11. best \in Seq(Int) /\ Len(best) = k /\ \A i \in 1 .. k : best[i] = order[i]
  <2>1. 1 \in Int /\ k \in Int /\ \A i \in 1 .. k : order[i] \in Int
      BY <1>9, <1>10
  <2>2. best \in Seq(Int) /\ Len(best) = (IF 1 <= k THEN k - 1 + 1 ELSE 0)
        /\ \A i \in 1 .. (k - 1 + 1) : best[i] = order[1 + i - 1]
      BY <2>1, SubSeqProperties
  <2>3. k - 1 + 1 = k /\ (~(1 <= k) => k = 0)
      BY <1>9
  <2> HIDE DEF best
  <2>4. QED BY <1>10, <2>2, <2>3
<1>12. BestOf(v, best)
  <2> HIDE DEF best
  <2>1. \A i \in 1 .. k : best[i] \in 0 .. (v - 1) /\ Rank(v, best[i]) = i - 1
      BY <1>8, <1>10, <1>11
  <2>2. QED BY <1>11, <2>1 DEF BestOf, k
<1> HIDE DEF best
<1>13. QED BY <1>1, <1>12 DEF v, idx

\* What a position sees, in terms of the ranks.
LEMMA SeesIs ==
    ASSUME NEW p
    PROVE  Whole(p).sees = {q \in 0 .. p : q \div Ratio \in 0 .. ((p + 1) \div Ratio - 1)
                                              => Rank((p + 1) \div Ratio, q \div Ratio) < BlockTopK}
<1>1. 0 .. (((p + 1) \div Ratio) - 1) = 0 .. ((p + 1) \div Ratio - 1)
    OBVIOUS
<1>2. QED BY <1>1 DEF Whole, Rank, Better, Ahead

\* What the indexer selects is what its position sees.
LEMMA SelectOfIs ==
    ASSUME NEW p \in Nat, NEW best, BestOf((p + 1) \div Ratio, best),
           \A b \in 0 .. ((p + 1) \div Ratio - 1) : like[b] \in Int
    PROVE  SelectOf(p, best) \in Seq(Nat) /\ ToSet(SelectOf(p, best)) = Whole(p).sees
<1> DEFINE v == (p + 1) \div Ratio
           first == v * Ratio
           rows == [i \in DOMAIN best |-> RowsOfBlock(best[i])]
           A == FlattenSeq(rows)
           B == [i \in 1 .. (p + 1 - first) |-> first + i - 1]
           s == A \o B
           k == Len(best)
           seen(q) == q \div Ratio \in 0 .. (v - 1) => Rank(v, q \div Ratio) < BlockTopK
<1>1. SelectOf(p, best) = s
    BY DEF SelectOf
<1>2. Ratio \in Nat \ {0} /\ BlockTopK \in Nat \ {0} /\ p + 1 \in Nat /\ v \in Nat
    BY SizesAre, IndexIs
<1>3. first \in Nat /\ first <= p + 1
  <2>1. v \in Int /\ v <= v
      BY <1>2
  <2>2. v * Ratio <= p + 1
      BY <1>2, <2>1, BlockOfRow
  <2>3. v * Ratio \in Nat
      BY <1>2
  <2>4. QED BY <2>2, <2>3
<1>4. \A r \in Nat : /\ r \div Ratio \in Nat
                     /\ \A b \in Int : b = r \div Ratio <=> b * Ratio <= r /\ r < b * Ratio + Ratio
                     /\ \A b \in Int : b <= r \div Ratio <=> b * Ratio <= r
    BY BlockOfRow
<1>5. /\ best \in Seq(Int) /\ k = (IF v < BlockTopK THEN v ELSE BlockTopK)
      /\ \A i \in 1 .. k : best[i] \in 0 .. (v - 1) /\ Rank(v, best[i]) = i - 1
    BY DEF BestOf
<1>6. k \in Nat /\ DOMAIN best = 1 .. k
    BY <1>5
<1>7. \A b \in 0 .. (v - 1) : /\ Rank(v, b) \in 0 .. (v - 1)
                              /\ \A c \in 0 .. (v - 1) : Rank(v, b) = Rank(v, c) => b = c
  <2>1. \A b \in 0 .. (v - 1) : like[b] \in Int
      OBVIOUS
  <2> HIDE DEF v
  <2>2. QED BY <1>2, <2>1, RankOrders
<1>8. Whole(p).sees = {q \in 0 .. p : seen(q)}
    BY SeesIs
<1>9. \A r \in Nat : r \div Ratio \in 0 .. (v - 1) <=> r < first
  <2> SUFFICES ASSUME NEW r \in Nat PROVE r \div Ratio \in 0 .. (v - 1) <=> r < first
      OBVIOUS
  <2>1. v <= r \div Ratio <=> v * Ratio <= r
      BY <1>2, <1>4
  <2>2. r \div Ratio \in Nat
      BY <1>4
  <2> HIDE DEF v
  <2>3. v <= r \div Ratio <=> first <= r
      BY <2>1
  <2> HIDE DEF first
  <2>4. QED BY <1>2, <1>3, <2>2, <2>3
<1> HIDE DEF v, first
<1>10. \A i \in 1 .. k : rows[i] = RowsOfBlock(best[i])
    BY <1>6
<1>11. \A i \in 1 .. k : best[i] \in Int /\ best[i] \in Nat
    BY <1>5
<1>12. \A b \in Int : b * Ratio \in Int /\ RowsOfBlock(b) \in Seq(Int) /\ Len(RowsOfBlock(b)) = Ratio
                      /\ \A l \in 1 .. Ratio : RowsOfBlock(b)[l] = b * Ratio + l - 1
    BY BlockIs
<1>13. \A b \in Nat : b * Ratio \in Nat /\ RowsOfBlock(b) \in Seq(Nat)
  <2> SUFFICES ASSUME NEW b \in Nat PROVE b * Ratio \in Nat /\ RowsOfBlock(b) \in Seq(Nat)
      OBVIOUS
  <2>1. b * Ratio \in Nat
      BY <1>2
  <2>2. \A i \in 1 .. Ratio : b * Ratio + i - 1 \in Nat
      BY <1>2, <2>1
  <2>3. RowsOfBlock(b) \in [1 .. Ratio -> Nat]
      BY <2>2 DEF RowsOfBlock
  <2>4. QED BY <1>2, <2>1, <2>3
<1>14. rows \in Seq(Seq(Nat)) /\ Len(rows) = k
  <2>1. \A i \in 1 .. k : RowsOfBlock(best[i]) \in Seq(Nat)
      BY <1>11, <1>13
  <2>2. rows \in [1 .. k -> Seq(Nat)]
      BY <1>6, <2>1
  <2> HIDE DEF rows
  <2>3. QED BY <1>6, <2>2
<1> HIDE DEF rows, k
<1>15. A \in Seq(Nat)
    BY <1>14, FlattenHas
<1>16. \A i \in 1 .. Len(A) : \E j \in 1 .. k : \E l \in 1 .. Ratio : A[i] = best[j] * Ratio + l - 1
  <2> SUFFICES ASSUME NEW i \in 1 .. Len(A)
               PROVE  \E j \in 1 .. k : \E l \in 1 .. Ratio : A[i] = best[j] * Ratio + l - 1
      OBVIOUS
  <2>1. \E j \in 1 .. Len(rows) : \E l \in 1 .. Len(rows[j]) : FlattenSeq(rows)[i] = rows[j][l]
      BY <1>14, FlattenWithin
  <2>2. PICK j \in 1 .. k : \E l \in 1 .. Len(rows[j]) : A[i] = rows[j][l]
      BY <1>14, <2>1
  <2>3. PICK l \in 1 .. Len(rows[j]) : A[i] = rows[j][l]
      BY <2>2
  <2>4. best[j] \in Int /\ rows[j] = RowsOfBlock(best[j])
      BY <1>10, <1>11
  <2>5. l \in 1 .. Ratio /\ rows[j][l] = best[j] * Ratio + l - 1
      BY <1>12, <2>3, <2>4
  <2>6. QED BY <2>3, <2>5
<1>17. \A j \in 1 .. k : \A l \in 1 .. Ratio : \E i \in 1 .. Len(A) : A[i] = best[j] * Ratio + l - 1
  <2> SUFFICES ASSUME NEW j \in 1 .. k, NEW l \in 1 .. Ratio
               PROVE  \E i \in 1 .. Len(A) : A[i] = best[j] * Ratio + l - 1
      OBVIOUS
  <2>1. best[j] \in Int /\ rows[j] = RowsOfBlock(best[j])
      BY <1>10, <1>11
  <2>2. Len(rows[j]) = Ratio /\ rows[j][l] = best[j] * Ratio + l - 1
      BY <1>12, <2>1
  <2>3. \E i \in 1 .. Len(A) : A[i] = rows[j][l]
      BY <1>14, <2>2, FlattenHas
  <2>4. QED BY <2>2, <2>3
<1> HIDE DEF A
<1> DEFINE m == p + 1 - first
<1>18. m \in Nat /\ first + m = p + 1
    BY <1>2, <1>3
<1>19. B \in Seq(Nat) /\ Len(B) = m /\ \A i \in 1 .. m : B[i] = first + i - 1
  <2>1. B = [i \in 1 .. m |-> first + i - 1] /\ \A i \in 1 .. m : first + i - 1 \in Nat
      BY <1>3
  <2> HIDE DEF B, m
  <2>2. QED BY <1>18, <2>1
<1> HIDE DEF B, m
<1>20. /\ s \in Seq(Nat) /\ Len(s) = Len(A) + m
       /\ \A i \in 1 .. (Len(A) + m) : s[i] = IF i <= Len(A) THEN A[i] ELSE B[i - Len(A)]
    BY <1>15, <1>19, ConcatProperties
<1>21. Len(A) \in Nat
    BY <1>15
<1> HIDE DEF s
<1>22. ToSet(s) = {s[i] : i \in 1 .. (Len(A) + m)}
  <2>1. DOMAIN s = 1 .. (Len(A) + m)
      BY <1>20, <1>21
  <2>2. QED BY <2>1 DEF ToSet
<1>23. ToSet(s) = {A[i] : i \in 1 .. Len(A)} \cup {B[i] : i \in 1 .. m}
  <2>1. \A i \in 1 .. (Len(A) + m) :
           (i \in 1 .. Len(A) /\ s[i] = A[i]) \/ (i - Len(A) \in 1 .. m /\ s[i] = B[i - Len(A)])
      BY <1>18, <1>20, <1>21
  <2>2. \A i \in 1 .. Len(A) : i \in 1 .. (Len(A) + m) /\ s[i] = A[i]
      BY <1>18, <1>20, <1>21
  <2>3. \A i \in 1 .. m : Len(A) + i \in 1 .. (Len(A) + m) /\ s[Len(A) + i] = B[i]
    <3> SUFFICES ASSUME NEW i \in 1 .. m
                 PROVE  Len(A) + i \in 1 .. (Len(A) + m) /\ s[Len(A) + i] = B[i]
        OBVIOUS
    <3> DEFINE h == Len(A) + i
    <3>1. h \in 1 .. (Len(A) + m) /\ ~(h <= Len(A)) /\ h - Len(A) = i
        BY <1>18, <1>21
    <3> HIDE DEF h
    <3>2. s[h] = B[i]
        BY <1>20, <3>1
    <3>3. QED BY <3>1, <3>2 DEF h
  <2>4. QED BY <1>22, <2>1, <2>2, <2>3
<1>24. ASSUME NEW i \in 1 .. Len(A)
       PROVE  A[i] \in 0 .. p /\ seen(A[i])
  <2>1. PICK j \in 1 .. k, l \in 1 .. Ratio : A[i] = best[j] * Ratio + l - 1
      BY <1>16
  <2> DEFINE q == A[i]
             b == best[j]
  <2>2. b \in 0 .. (v - 1) /\ b \in Nat /\ b \in Int /\ Rank(v, b) = j - 1 /\ k <= BlockTopK /\ j \in 1 .. k
      BY <1>2, <1>5, <1>11
  <2>3. q = b * Ratio + l - 1 /\ b * Ratio \in Nat
      BY <1>13, <2>1, <2>2
  <2> HIDE DEF q, b
  <2>4. q \in Nat /\ b * Ratio <= q /\ q < b * Ratio + Ratio
    <3> DEFINE z == b * Ratio
    <3>1. z \in Nat /\ q = z + l - 1
        BY <2>3
    <3> HIDE DEF z
    <3>2. q \in Nat /\ z <= q /\ q < z + Ratio
        BY <1>2, <3>1
    <3>3. QED BY <3>2 DEF z
  <2>5. b = q \div Ratio
      BY <1>4, <2>2, <2>4
  <2>6. q < first
      BY <1>9, <2>2, <2>4, <2>5
  <2>7. q \in 0 .. p
      BY <1>2, <1>3, <2>4, <2>6
  <2>8. Rank(v, q \div Ratio) < BlockTopK
    <3>1. j - 1 < BlockTopK
        BY <1>2, <1>6, <2>2
    <3>2. QED BY <2>2, <2>5, <3>1
  <2>9. QED BY <2>7, <2>8 DEF q
<1>25. ASSUME NEW i \in 1 .. m
       PROVE  B[i] \in 0 .. p /\ seen(B[i])
  <2>1. B[i] = first + i - 1
      BY <1>19
  <2>2. B[i] \in 0 .. p /\ B[i] \in Nat /\ ~(B[i] < first)
      BY <1>3, <1>18, <2>1
  <2>3. QED BY <1>9, <2>2
<1>26. ASSUME NEW q \in 0 .. p, seen(q)
       PROVE  q \in ToSet(s)
  <2>1. q \in Nat
      OBVIOUS
  <2>2. CASE q < first
    <3> DEFINE b == q \div Ratio
    <3>1. b \in 0 .. (v - 1) /\ b \in Int
        BY <1>4, <1>9, <2>1, <2>2
    <3>2. b * Ratio <= q /\ q < b * Ratio + Ratio
        BY <1>4, <2>1, <3>1
    <3>3. Rank(v, b) < BlockTopK /\ Rank(v, b) \in 0 .. (v - 1)
        BY <1>7, <1>26, <3>1
    <3> HIDE DEF b
    <3> DEFINE j == Rank(v, b) + 1
    <3>4. j \in 1 .. k /\ j - 1 = Rank(v, b)
        BY <1>2, <1>5, <3>3
    <3>5. best[j] = b
      <4> HIDE DEF j
      <4>1. best[j] \in 0 .. (v - 1) /\ Rank(v, best[j]) = Rank(v, b)
          BY <1>5, <3>4
      <4>2. QED BY <1>7, <3>1, <4>1
    <3> DEFINE l == q - b * Ratio + 1
    <3>6. l \in 1 .. Ratio /\ b * Ratio + l - 1 = q
      <4> DEFINE z == b * Ratio
      <4>1. z \in Int /\ z <= q /\ q < z + Ratio
          BY <1>12, <3>1, <3>2
      <4> HIDE DEF z
      <4>2. q - z + 1 \in 1 .. Ratio /\ z + (q - z + 1) - 1 = q
          BY <1>2, <2>1, <4>1
      <4>3. QED BY <4>2 DEF z
    <3> HIDE DEF j, l
    <3>7. \E i \in 1 .. Len(A) : A[i] = best[j] * Ratio + l - 1
        BY <1>17, <3>4, <3>6
    <3>8. QED BY <1>23, <3>5, <3>6, <3>7
  <2>3. CASE ~(q < first)
    <3>1. q - first + 1 \in 1 .. m /\ first + (q - first + 1) - 1 = q
        BY <1>3, <1>18, <2>1, <2>3
    <3>2. B[q - first + 1] = q
        BY <1>19, <3>1
    <3>3. QED BY <1>23, <3>1, <3>2
  <2>4. QED BY <2>2, <2>3
<1>27. ToSet(s) = {q \in 0 .. p : seen(q)}
  <2>1. \A x \in ToSet(s) : x \in 0 .. p /\ seen(x)
      BY <1>23, <1>24, <1>25
  <2> HIDE DEF seen
  <2>2. QED BY <1>26, <2>1
<1>28. s = A \o B
    BY DEF s
<1>29. QED BY <1>1, <1>8, <1>20, <1>27 DEF s, A, B, rows, v, first, m

\* The type of the likeness.
LikeIs == like \in [0..((TextLen \div Ratio) - 1) -> 1..2]

\* What the row of position p selects.
Sel(p) == Select(IndexAt(p + 1), p)

LEMMA SelIs ==
    ASSUME LikeIs, NEW p \in 0 .. (TextLen - 1)
    PROVE  Sel(p) \in Seq(Nat) /\ ToSet(Sel(p)) = Whole(p).sees
<1>1. TextLen \in Nat /\ p \in Nat /\ p + 1 \in Nat /\ p + 1 <= TextLen
    BY SizesAre
<1>2. (p + 1) \div Ratio <= TextLen \div Ratio /\ (p + 1) \div Ratio \in Nat /\ TextLen \div Ratio \in Nat
  <2> DEFINE d == (p + 1) \div Ratio
  <2>1. d \in Int /\ d <= d /\ d \in Nat
      BY <1>1, IndexIs
  <2>2. d * Ratio <= p + 1
      BY <1>1, <2>1, BlockOfRow
  <2>3. d * Ratio \in Int
      BY <2>1, SizesAre
  <2>4. d * Ratio <= TextLen
    <3> DEFINE z == d * Ratio
    <3> HIDE DEF z
    <3>1. z <= p + 1 /\ z \in Int
        BY <2>2, <2>3 DEF z
    <3>2. z <= TextLen
        BY <1>1, <3>1
    <3>3. QED BY <3>2 DEF z
  <2>5. TextLen \div Ratio \in Nat
      BY <1>1, IndexIs
  <2> HIDE DEF d
  <2>6. d <= TextLen \div Ratio
      BY <1>1, <2>1, <2>4, BlockOfRow
  <2>7. QED BY <2>1, <2>5, <2>6 DEF d
<1>3. \A b \in 0 .. ((p + 1) \div Ratio - 1) : like[b] \in Int
    BY <1>2 DEF LikeIs
<1>4. PICK best : BestOf((p + 1) \div Ratio, best) /\ Select(IndexAt(p + 1), p) = SelectOf(p, best)
    BY <1>1, <1>3, SelectsBest
<1>5. SelectOf(p, best) \in Seq(Nat) /\ ToSet(SelectOf(p, best)) = Whole(p).sees
    BY <1>1, <1>3, <1>4, SelectOfIs
<1>6. QED BY <1>4, <1>5 DEF Sel

\* What the first t rows of a stretch select.
SelsOf(base, t) == [i \in 1 .. t |-> Sel(base + (i - 1))]

LEMMA SelsAre ==
    ASSUME LikeIs, NEW base \in Nat, NEW t \in Nat, base + t <= TextLen
    PROVE  /\ SelsOf(base, t) \in Seq(Seq(Nat)) /\ Len(SelsOf(base, t)) = t
           /\ \A i \in 1 .. t : SelsOf(base, t)[i] = Sel(base + (i - 1))
<1>1. \A i \in 1 .. t : base + (i - 1) \in 0 .. (TextLen - 1)
    BY SizesAre
<1>2. \A i \in 1 .. t : Sel(base + (i - 1)) \in Seq(Nat)
    BY <1>1, SelIs
<1>3. SelsOf(base, t) \in [1 .. t -> Seq(Nat)]
    BY <1>2 DEF SelsOf
<1>4. SelsOf(base, t) \in Seq(Seq(Nat)) /\ Len(SelsOf(base, t)) = t
    BY <1>3
<1>5. QED BY <1>4 DEF SelsOf

LEMMA SelsGoOn ==
    ASSUME LikeIs, NEW base \in Nat, NEW t \in Nat, base + (t + 1) <= TextLen
    PROVE  Append(SelsOf(base, t), Sel(base + t)) = SelsOf(base, t + 1)
<1> DEFINE a == SelsOf(base, t)
           x == Sel(base + t)
           c == SelsOf(base, t + 1)
<1>1. TextLen \in Nat /\ base + t <= TextLen /\ t + 1 \in Nat /\ base + t \in 0 .. (TextLen - 1)
    BY SizesAre
<1>2. x \in Seq(Nat)
    BY <1>1, SelIs
<1>3. a \in Seq(Seq(Nat)) /\ Len(a) = t /\ \A i \in 1 .. t : a[i] = Sel(base + (i - 1))
    BY <1>1, SelsAre
<1>4. c \in Seq(Seq(Nat)) /\ Len(c) = t + 1 /\ \A i \in 1 .. t + 1 : c[i] = Sel(base + (i - 1))
    BY <1>1, SelsAre
<1> HIDE DEF a, c, x
<1>5. /\ Append(a, x) \in Seq(Seq(Nat)) /\ Len(Append(a, x)) = t + 1 /\ Append(a, x)[t + 1] = x
      /\ \A i \in 1 .. t : Append(a, x)[i] = a[i]
    BY <1>2, <1>3, AppendProperties
<1> DEFINE e == Append(a, x)
<1> HIDE DEF e
<1>6. \A i \in 1 .. t + 1 : e[i] = c[i]
  <2> SUFFICES ASSUME NEW i \in 1 .. t + 1 PROVE e[i] = c[i]
      OBVIOUS
  <2>1. CASE i \in 1 .. t
      BY <1>3, <1>4, <1>5, <2>1 DEF e
  <2>2. CASE i = t + 1
    <3>1. base + (i - 1) = base + t
        BY <2>2
    <3>2. QED BY <1>4, <1>5, <2>2, <3>1 DEF e, x
  <2>3. QED BY <2>1, <2>2
<1>7. e = c
    BY <1>4, <1>5, <1>6, SeqEqual DEF e
<1>8. QED BY <1>7 DEF e, a, c, x

\* What Selections computes, row by row.
RowStep(a, base, t) ==
    LET i == PushIndex(a.idx, base + t) IN [idx |-> i, sel |-> Append(a.sel, Select(i, base + t))]

RowStepsIs(idx, base, n, u) == u = [t \in 0..n |->
    IF t = 0 THEN [idx |-> idx, sel |-> <<>>] ELSE RowStep(u[t - 1], base, t - 1)]

LEMMA SelectionsAre ==
    ASSUME LikeIs, NEW base \in Nat, NEW n \in Nat, base + n <= TextLen
    PROVE  Selections(IndexAt(base), base, n) = [idx |-> IndexAt(base + n), sel |-> SelsOf(base, n)]
<1> DEFINE I == IndexAt(base)
           U == CHOOSE u : RowStepsIs(I, base, n, u)
           V == [t \in 0 .. n |-> [idx |-> IndexAt(base + t), sel |-> SelsOf(base, t)]]
<1>1. Selections(I, base, n) = U[n]
    BY DEF Selections, RowStepsIs, RowStep
<1>2. \A t \in 1 .. n : V[t] = RowStep(V[t - 1], base, t - 1)
  <2> SUFFICES ASSUME NEW t \in 1 .. n PROVE V[t] = RowStep(V[t - 1], base, t - 1)
      OBVIOUS
  <2> DEFINE h == t - 1
  <2>1. h \in Nat /\ t = h + 1 /\ t \in 0 .. n /\ h \in 0 .. n /\ base + h \in Nat
        /\ base + (h + 1) = (base + h) + 1 /\ base + (h + 1) <= TextLen
      BY SizesAre
  <2>2. V[t] = [idx |-> IndexAt(base + t), sel |-> SelsOf(base, t)]
        /\ V[h] = [idx |-> IndexAt(base + h), sel |-> SelsOf(base, h)]
      BY <2>1
  <2> HIDE DEF V, h
  <2>3. PushIndex(IndexAt(base + h), base + h) = IndexAt((base + h) + 1)
      BY <2>1, PushIndexIs
  <2>4. Append(SelsOf(base, h), Select(IndexAt((base + h) + 1), base + h)) = SelsOf(base, h + 1)
      BY <2>1, SelsGoOn DEF Sel
  <2>5. RowStep(V[h], base, h) = [idx |-> IndexAt((base + h) + 1), sel |-> SelsOf(base, h + 1)]
    <3> DEFINE a == V[h]
    <3>1. a.idx = IndexAt(base + h) /\ a.sel = SelsOf(base, h)
        BY <2>2
    <3>2. RowStep(a, base, h) = [idx |-> PushIndex(a.idx, base + h),
                                 sel |-> Append(a.sel, Select(PushIndex(a.idx, base + h), base + h))]
        BY DEF RowStep
    <3> HIDE DEF a
    <3>3. PushIndex(a.idx, base + h) = IndexAt((base + h) + 1)
        BY <2>3, <3>1
    <3>4. Append(a.sel, Select(PushIndex(a.idx, base + h), base + h)) = SelsOf(base, h + 1)
        BY <2>4, <3>1, <3>3, Zenon
    <3>5. RowStep(a, base, h) = [idx |-> IndexAt((base + h) + 1), sel |-> SelsOf(base, h + 1)]
        BY <3>2, <3>3, <3>4, Zenon
    <3>6. QED BY <3>5 DEF a
  <2>6. V[t] = RowStep(V[h], base, h)
      BY <2>1, <2>2, <2>5
  <2>7. QED BY <2>6 DEF h
<1>3. V[0] = [idx |-> I, sel |-> <<>>]
  <2>1. SelsOf(base, 0) = <<>>
      BY DEF SelsOf
  <2>2. base + 0 = base /\ 0 \in 0 .. n
      OBVIOUS
  <2>3. QED BY <2>1, <2>2
<1>4. V = [t \in 0 .. n |-> V[t]]
    OBVIOUS
<1> HIDE DEF V, I
<1>5. RowStepsIs(I, base, n, V)
  <2>1. \A t \in 0 .. n : t = 0 \/ t \in 1 .. n
      OBVIOUS
  <2>2. \A t \in 1 .. n : t # 0
      OBVIOUS
  <2>3. \A t \in 0 .. n : V[t] = IF t = 0 THEN [idx |-> I, sel |-> <<>>] ELSE RowStep(V[t - 1], base, t - 1)
      BY <1>2, <1>3, <2>1, <2>2
  <2>4. QED BY <1>4, <2>3 DEF RowStepsIs
<1>6. RowStepsIs(I, base, n, U)
    BY <1>5
<1> HIDE DEF U
<1>7. U[0] = [idx |-> I, sel |-> <<>>] /\ \A t \in 1 .. n : U[t] = RowStep(U[t - 1], base, t - 1)
  <2>1. 0 \in 0 .. n /\ \A t \in 1 .. n : t \in 0 .. n /\ t # 0
      OBVIOUS
  <2>2. QED BY <1>6, <2>1 DEF RowStepsIs
<1>8. U[n] = V[n]
  <2>1. U[0] = V[0] /\ \A t \in 1 .. n : U[t - 1] = V[t - 1] => U[t] = V[t]
      BY <1>2, <1>3, <1>7
  <2>2. QED BY <2>1, StepByStep
<1>9. V[n] = [idx |-> IndexAt(base + n), sel |-> SelsOf(base, n)]
    BY DEF V
<1>10. QED BY <1>1, <1>8, <1>9 DEF I

\* What the kernel reads of the packed rows is what was packed.
LEMMA PackedReads ==
    ASSUME NEW sels \in Seq(Seq(Nat)), NEW r \in 1 .. Len(sels)
    PROVE  ReadPacked(PackedRows(sels), r) = sels[r]
<1> DEFINE n == Len(sels)
           f == [k \in 1 .. n |-> Len(sels[k])]
           w == Max({0} \cup {Len(sels[k]) : k \in DOMAIN sels})
           pad(s) == s \o [i \in 1..(w - Len(s)) |-> -1]
           rows == [k \in DOMAIN sels |-> pad(sels[k])]
           flat == FlattenSeq(rows)
           s == sels[r]
           c == Len(s)
<1>1. n \in Nat /\ DOMAIN sels = 1 .. n /\ \A k \in 1 .. n : sels[k] \in Seq(Nat) /\ Len(sels[k]) \in Nat
    OBVIOUS
<1>2. PackedRows(sels) = [flat |-> flat, width |-> w, cnt |-> [k \in DOMAIN sels |-> Len(sels[k])]]
    BY DEF PackedRows
<1>3. ReadPacked(PackedRows(sels), r) = SubSeq(flat, (r - 1) * w + 1, (r - 1) * w + c)
  <2> DEFINE pk == PackedRows(sels)
  <2>1. pk.flat = flat /\ pk.width = w /\ pk.cnt = [k \in DOMAIN sels |-> Len(sels[k])]
    <3> HIDE DEF flat, w
    <3>1. QED BY <1>2
  <2>2. pk.cnt[r] = c
      BY <1>1, <2>1
  <2> HIDE DEF pk, flat, w, c
  <2>3. ReadPacked(pk, r) = SubSeq(pk.flat, (r - 1) * pk.width + 1, (r - 1) * pk.width + pk.cnt[r])
      BY DEF ReadPacked
  <2>4. ReadPacked(pk, r) = SubSeq(flat, (r - 1) * w + 1, (r - 1) * w + c)
      BY <2>1, <2>2, <2>3
  <2>5. QED BY <2>4 DEF pk
<1>4. w \in Nat /\ \A k \in 1 .. n : Len(sels[k]) <= w
  <2>1. \A k \in 1 .. n : f[k] = Len(sels[k]) /\ f[k] \in Nat
      BY <1>1
  <2> HIDE DEF f
  <2>2. Max({0} \cup {f[k] : k \in 1 .. n}) \in Nat /\ \A k \in 1 .. n : f[k] <= Max({0} \cup {f[k1] : k1 \in 1 .. n})
    <3> HIDE DEF n
    <3>1. QED BY <1>1, <2>1, MaxWithZero
  <2>3. {f[k] : k \in 1 .. n} = {Len(sels[k]) : k \in DOMAIN sels}
      BY <1>1, <2>1
  <2>4. QED BY <2>1, <2>2, <2>3
<1> HIDE DEF w, n
<1>5. ASSUME NEW k \in 1 .. n
      PROVE  /\ pad(sels[k]) \in Seq(Int) /\ Len(pad(sels[k])) = w
             /\ \A i \in 1 .. Len(sels[k]) : pad(sels[k])[i] = sels[k][i]
  <2> DEFINE a == sels[k]
             m == w - Len(a)
             b == [i \in 1 .. m |-> -1]
  <2>1. a \in Seq(Int) /\ Len(a) \in Nat /\ Len(a) <= w
    <3>1. a \in Seq(Nat)
        BY <1>1
    <3>2. a \in Seq(Int)
        BY <3>1
    <3>3. QED BY <1>1, <1>4, <3>2
  <2>2. m \in Nat /\ Len(a) + m = w
      BY <1>4, <2>1
  <2> HIDE DEF a, m
  <2>3. b \in Seq(Int) /\ Len(b) = m
      BY <2>2
  <2> HIDE DEF b
  <2>4. /\ a \o b \in Seq(Int) /\ Len(a \o b) = Len(a) + m
        /\ \A i \in 1 .. (Len(a) + m) : (a \o b)[i] = IF i <= Len(a) THEN a[i] ELSE b[i - Len(a)]
      BY <2>1, <2>3, ConcatProperties
  <2>5. \A i \in 1 .. Len(a) : i \in 1 .. (Len(a) + m) /\ i <= Len(a)
      BY <2>1, <2>2
  <2>6. \A i \in 1 .. Len(a) : (a \o b)[i] = a[i]
      BY <2>4, <2>5
  <2>7. pad(sels[k]) = a \o b
      BY DEF a, b, m
  <2>8. QED BY <2>2, <2>4, <2>6, <2>7 DEF a
<1> HIDE DEF pad
<1>6. rows \in Seq(Seq(Int)) /\ Len(rows) = n /\ \A k \in 1 .. n : rows[k] = pad(sels[k])
  <2>1. rows = [k \in 1 .. n |-> pad(sels[k])]
      BY <1>1
  <2> HIDE DEF rows
  <2>2. rows \in [1 .. n -> Seq(Int)]
      BY <1>5, <2>1
  <2>3. QED BY <1>1, <2>1, <2>2
<1> HIDE DEF rows
<1>7. /\ flat \in Seq(Int) /\ Len(flat) = n * w
      /\ \A j \in 1 .. n : \A l \in 1 .. w : flat[(j - 1) * w + l] = rows[j][l]
  <2>1. \A j \in 1 .. Len(rows) : Len(rows[j]) = w
      BY <1>5, <1>6
  <2>2. QED BY <1>4, <1>6, <2>1, FlattenEven
<1> HIDE DEF flat
<1>8. r \in 1 .. n
    BY DEF n
<1>9. s \in Seq(Nat) /\ c \in Nat /\ c <= w
    BY <1>1, <1>4, <1>8
<1>10. \A l \in 1 .. c : flat[(r - 1) * w + l] = s[l]
  <2> SUFFICES ASSUME NEW l \in 1 .. c PROVE flat[(r - 1) * w + l] = s[l]
      OBVIOUS
  <2>1. l \in 1 .. w /\ l \in 1 .. Len(sels[r])
      BY <1>4, <1>9
  <2>2. rows[r][l] = sels[r][l]
      BY <1>5, <1>6, <1>8, <2>1
  <2>3. QED BY <1>7, <1>8, <2>1, <2>2
<1> DEFINE x == (r - 1) * w
<1>11. x \in Nat
    BY <1>4, <1>8
<1> HIDE DEF x, s, c
<1>12. \A l \in 1 .. c : flat[x + l] = s[l] /\ s[l] \in Int
  <2>1. \A l \in 1 .. c : s[l] \in Nat
      BY <1>9 DEF c
  <2>2. QED BY <1>10, <2>1 DEF x
<1> DEFINE g == SubSeq(flat, x + 1, x + c)
<1>13. g \in Seq(Int) /\ Len(g) = c /\ \A i \in 1 .. c : g[i] = flat[x + i]
  <2>1. \A i \in (x + 1) .. (x + c) : flat[i] \in Int
    <3> SUFFICES ASSUME NEW i \in (x + 1) .. (x + c) PROVE flat[i] \in Int
        OBVIOUS
    <3>1. i - x \in 1 .. c /\ x + (i - x) = i
        BY <1>9, <1>11
    <3>2. QED BY <1>12, <3>1
  <2>2. x + 1 \in Int /\ x + c \in Int
      BY <1>9, <1>11
  <2>3. g \in Seq(Int) /\ Len(g) = (IF x + 1 <= x + c THEN (x + c) - (x + 1) + 1 ELSE 0)
        /\ \A i \in 1 .. ((x + c) - (x + 1) + 1) : g[i] = flat[(x + 1) + i - 1]
      BY <2>1, <2>2, SubSeqProperties
  <2>4. (x + c) - (x + 1) + 1 = c /\ (~(x + 1 <= x + c) => c = 0) /\ \A i \in 1 .. c : (x + 1) + i - 1 = x + i
      BY <1>9, <1>11
  <2> HIDE DEF g
  <2>5. QED BY <2>3, <2>4
<1> HIDE DEF g
<1>14. s \in Seq(Int) /\ Len(s) = c
    BY <1>9 DEF c
<1>15. g = s
    BY <1>12, <1>13, <1>14, SeqEqual
<1>16. QED BY <1>3, <1>15 DEF g, x, s, c

-----------------------------------------------------------------------------
(***************************************************************************)
(* The invariant of a text in stretches.                                   *)
(***************************************************************************)
\* The row of a position, on either device.
RowAt(p) ==
    IF device = "oracle" THEN Whole(p)
    ELSE [grams |-> Whole(p).grams, taps |-> Whole(p).taps, sees |-> Whole(p).sees]

\* What the stretches before position n have left.
CachesAre(c, n) ==
    /\ c = [ple |-> c.ple, conv |-> c.conv, state |-> c.state, kv |-> c.kv, idx |-> IndexAt(n)]
    /\ PleIs(c.ple, n)
    /\ device = "oracle" => c.conv = HistAt(n) /\ c.state = UpTo(n) /\ c.kv = UpTo(n)

StretchInv ==
    /\ device \in {"oracle", "card"} /\ text \in [1 .. TextLen -> Word] /\ tpos \in 0 .. TextLen
    /\ LikeIs
    /\ made = [i \in 1 .. tpos |-> RowAt(i - 1)]
    /\ CachesAre(caches, tpos)

\* The rows the two actions make.
OracleRow(n, t) ==
    LET rows == Rows(tpos, n)
        kv == caches.kv \o [i \in 1..n |-> rows[i - 1]]
    IN [grams |-> NgramIds(SubSeq(text, 1, tpos + n), tpos + t),
        taps |-> OracleTaps(caches.ple, tpos, rows, t),
        conv |-> LinearTaps(caches.conv, rows, t),
        state |-> Recur(caches.state, rows, t),
        sees |-> {kv[s + 1] : s \in ToSet(Selections(caches.idx, tpos, n).sel[t + 1])}]

CardRow(n, t) ==
    [grams |-> GatherEmb(text, tpos)[t], taps |-> CardTaps(caches.ple, Rows(tpos, n), t),
     sees |-> ToSet(ReadPacked(PackedRows(Selections(caches.idx, tpos, n).sel), t + 1))]

LEMMA WholeIs ==
    ASSUME NEW p
    PROVE  Whole(p) = [grams |-> Whole(p).grams, taps |-> Whole(p).taps, conv |-> Whole(p).conv,
                       state |-> Whole(p).state, sees |-> Whole(p).sees]
BY DEF Whole

\* What the rows of a stretch select.
LEMMA StretchSelects ==
    ASSUME StretchInv, NEW n \in Nat, tpos + n <= TextLen
    PROVE  /\ Selections(caches.idx, tpos, n) = [idx |-> IndexAt(tpos + n), sel |-> SelsOf(tpos, n)]
           /\ SelsOf(tpos, n) \in Seq(Seq(Nat)) /\ Len(SelsOf(tpos, n)) = n
           /\ \A t \in 0 .. (n - 1) :
                 /\ SelsOf(tpos, n)[t + 1] = Sel(tpos + t)
                 /\ ToSet(SelsOf(tpos, n)[t + 1]) = Whole(tpos + t).sees
<1>1. tpos \in Nat /\ LikeIs /\ TextLen \in Nat
    BY SizesAre DEF StretchInv
<1>2. caches.idx = IndexAt(tpos)
    BY DEF StretchInv, CachesAre
<1>3. Selections(caches.idx, tpos, n) = [idx |-> IndexAt(tpos + n), sel |-> SelsOf(tpos, n)]
    BY <1>1, <1>2, SelectionsAre
<1>4. /\ SelsOf(tpos, n) \in Seq(Seq(Nat)) /\ Len(SelsOf(tpos, n)) = n
      /\ \A i \in 1 .. n : SelsOf(tpos, n)[i] = Sel(tpos + (i - 1))
    BY <1>1, SelsAre
<1>5. ASSUME NEW t \in 0 .. (n - 1)
      PROVE  SelsOf(tpos, n)[t + 1] = Sel(tpos + t) /\ ToSet(SelsOf(tpos, n)[t + 1]) = Whole(tpos + t).sees
  <2>1. t + 1 \in 1 .. n /\ (t + 1) - 1 = t /\ tpos + t \in 0 .. (TextLen - 1)
      BY <1>1
  <2>2. SelsOf(tpos, n)[t + 1] = Sel(tpos + t)
      BY <1>4, <2>1
  <2>3. ToSet(Sel(tpos + t)) = Whole(tpos + t).sees
      BY <1>1, <2>1, SelIs
  <2>4. QED BY <2>2, <2>3
<1>6. QED BY <1>3, <1>4, <1>5

LEMMA OracleRowIs ==
    ASSUME StretchInv, device = "oracle", NEW n \in Nat, tpos + n <= TextLen, NEW t \in 0 .. (n - 1)
    PROVE  OracleRow(n, t) = Whole(tpos + t)
<1> DEFINE p == tpos + t
           rows == Rows(tpos, n)
           hist == SubSeq(text, 1, tpos + n)
           kv == caches.kv \o [i \in 1..n |-> rows[i - 1]]
           seen == {kv[s + 1] : s \in ToSet(Selections(caches.idx, tpos, n).sel[t + 1])}
<1>1. /\ tpos \in Nat /\ TextLen \in Nat /\ text \in [1 .. TextLen -> Word] /\ PleIs(caches.ple, tpos)
      /\ caches.conv = HistAt(tpos) /\ caches.state = UpTo(tpos) /\ caches.kv = UpTo(tpos)
      /\ p \in Nat /\ tpos + n \in Nat /\ p + 1 <= tpos + n /\ n \in 0 .. n
    BY SizesAre DEF StretchInv, CachesAre
<1>2. NgramIds(hist, p) = Whole(p).grams
  <2>1. \A i \in 1 .. (tpos + n) : text[i] \in Word
      BY <1>1
  <2>2. \A i \in 1 .. ((tpos + n) - 1 + 1) : hist[i] = text[1 + i - 1]
      BY <1>1, <2>1, SubSeqProperties
  <2>3. (tpos + n) - 1 + 1 = tpos + n /\ \A i \in 1 .. p + 1 : i \in 1 .. (tpos + n) /\ 1 + i - 1 = i
      BY <1>1
  <2> HIDE DEF hist, p
  <2>4. \A i \in 1 .. p + 1 : hist[i] = text[i]
      BY <2>2, <2>3
  <2>5. QED BY <1>1, <2>4, GramsAre
<1>3. OracleTaps(caches.ple, tpos, rows, t) = Whole(p).taps
    BY <1>1, OracleTapsAre
<1>4. LinearTaps(caches.conv, rows, t) = Whole(p).conv
    BY <1>1, LinearTapsAre
<1>5. Recur(caches.state, rows, t) = Whole(p).state
  <2>1. Recur(UpTo(tpos), rows, t) = Whole(p).state
      BY <1>1, RecurIs, Zenon
  <2> HIDE DEF rows, p
  <2>2. QED BY <1>1, <2>1
<1>6. seen = Whole(p).sees
  <2>1. kv = UpTo(tpos + n)
    <3>1. UpTo(tpos) \o [i \in 1..n |-> rows[i - 1]] = UpTo(tpos + n)
        BY <1>1, UpToGoesOn, Zenon
    <3> HIDE DEF rows
    <3>2. QED BY <1>1, <3>1
  <2>2. ToSet(Selections(caches.idx, tpos, n).sel[t + 1]) = Whole(p).sees
    <3>1. Selections(caches.idx, tpos, n) = [idx |-> IndexAt(tpos + n), sel |-> SelsOf(tpos, n)]
        BY StretchSelects
    <3>2. Selections(caches.idx, tpos, n).sel = SelsOf(tpos, n)
        BY <3>1
    <3>3. QED BY <3>2, StretchSelects
  <2>3. ASSUME NEW s \in Whole(p).sees PROVE kv[s + 1] = s
    <3>1. s \in 0 .. p
        BY <2>3, SeesIs
    <3>2. s + 1 \in 1 .. (tpos + n) /\ (s + 1) - 1 = s
        BY <1>1, <3>1
    <3>3. UpTo(tpos + n)[s + 1] = (s + 1) - 1
        BY <1>1, <3>2, UpToIs
    <3>4. QED BY <2>1, <3>2, <3>3
  <2> HIDE DEF kv, p
  <2>4. seen = {kv[s + 1] : s \in Whole(p).sees}
      BY <2>2
  <2>5. QED BY <2>3, <2>4
<1>7. OracleRow(n, t) = [grams |-> NgramIds(hist, p), taps |-> OracleTaps(caches.ple, tpos, rows, t),
                         conv |-> LinearTaps(caches.conv, rows, t), state |-> Recur(caches.state, rows, t),
                         sees |-> seen]
    BY DEF OracleRow
<1> HIDE DEF seen, hist, rows
<1>8. QED BY <1>2, <1>3, <1>4, <1>5, <1>6, <1>7, WholeIs

LEMMA CardRowIs ==
    ASSUME StretchInv, NEW n \in Nat, tpos + n <= TextLen, NEW t \in 0 .. (n - 1)
    PROVE  CardRow(n, t) = [grams |-> Whole(tpos + t).grams, taps |-> Whole(tpos + t).taps,
                            sees |-> Whole(tpos + t).sees]
<1> DEFINE p == tpos + t
<1>1. /\ tpos \in Nat /\ TextLen \in Nat /\ text \in [1 .. TextLen -> Word] /\ PleIs(caches.ple, tpos)
      /\ p \in Nat /\ t + 1 \in 1 .. n
  <2>1. /\ tpos \in Nat /\ TextLen \in Nat /\ text \in [1 .. TextLen -> Word]
        /\ PleIs(caches.ple, tpos)
      BY SizesAre DEF StretchInv, CachesAre
  <2>2. t \in Nat /\ t + 1 \in 1 .. n
      OBVIOUS
  <2>3. p \in Nat
      BY <2>1, <2>2
  <2>4. QED BY <2>1, <2>2, <2>3
<1>2. GatherEmb(text, tpos)[t] = Whole(p).grams
  <2>1. Len(text) = TextLen
      BY <1>1
  <2>2. t \in 0 .. (Len(text) - tpos - 1)
      BY <1>1, <2>1
  <2>3. GatherEmb(text, tpos)[t] = NgramIds(text, p)
      BY <2>2 DEF GatherEmb
  <2>4. NgramIds(text, p) = Whole(p).grams
      BY <1>1, GramsAre
  <2>5. QED BY <2>3, <2>4
<1>3. CardTaps(caches.ple, Rows(tpos, n), t) = Whole(p).taps
    BY <1>1, CardTapsAre
<1>4. ToSet(ReadPacked(PackedRows(Selections(caches.idx, tpos, n).sel), t + 1)) = Whole(p).sees
  <2>1. Selections(caches.idx, tpos, n).sel = SelsOf(tpos, n)
    <3>1. Selections(caches.idx, tpos, n) = [idx |-> IndexAt(tpos + n), sel |-> SelsOf(tpos, n)]
        BY StretchSelects
    <3>2. QED BY <3>1
  <2>2. SelsOf(tpos, n) \in Seq(Seq(Nat)) /\ t + 1 \in 1 .. Len(SelsOf(tpos, n))
        /\ ToSet(SelsOf(tpos, n)[t + 1]) = Whole(p).sees
      BY <1>1, StretchSelects
  <2>3. ReadPacked(PackedRows(SelsOf(tpos, n)), t + 1) = SelsOf(tpos, n)[t + 1]
      BY <2>2, PackedReads
  <2>4. QED BY <2>1, <2>2, <2>3
<1>5. QED BY <1>2, <1>3, <1>4 DEF CardRow

LEMMA MadeGoesOn ==
    ASSUME StretchInv, NEW n \in Nat, NEW r, r = [i \in 1 .. n |-> RowAt(tpos + (i - 1))]
    PROVE  made \o r = [i \in 1 .. (tpos + n) |-> RowAt(i - 1)]
<1> DEFINE f == [i \in 1 .. (tpos + n) |-> RowAt(i - 1)]
<1>1. tpos \in Nat /\ made = [i \in 1 .. tpos |-> RowAt(i - 1)]
    BY SizesAre DEF StretchInv
<1>2. \A i \in 1 .. tpos : i \in 1 .. (tpos + n)
    BY <1>1
<1>3. \A i \in 1 .. n : tpos + i \in 1 .. (tpos + n) /\ (tpos + i) - 1 = tpos + (i - 1)
    BY <1>1
<1>4. \A i \in 1 .. (tpos + n) : f[i] = RowAt(i - 1)
    OBVIOUS
<1>5. f = [i \in 1 .. (tpos + n) |-> f[i]]
    OBVIOUS
<1> HIDE DEF f
<1>6. made = [i \in 1 .. tpos |-> f[i]]
    BY <1>1, <1>2, <1>4
<1>7. r = [i \in 1 .. n |-> f[tpos + i]]
    BY <1>3, <1>4
<1>8. made \o r = [i \in 1 .. (tpos + n) |-> f[i]]
  <2>1. [i \in 1 .. tpos |-> f[i]] \o [i \in 1 .. n |-> f[tpos + i]] = [i \in 1 .. (tpos + n) |-> f[i]]
      BY <1>1, Joined, Zenon
  <2>2. QED BY <1>6, <1>7, <2>1, Zenon
<1>9. QED BY <1>5, <1>8 DEF f

\* What a position is made of changes with no step.
LEMMA RowsStay ==
    ASSUME UNCHANGED <<device, text, like>>
    PROVE  \A p : RowAt(p)' = RowAt(p)
BY DEF RowAt, Whole

\* Both steps end with what the next stretch finds.
LEMMA StretchKeeps ==
    ASSUME StretchInv, UNCHANGED <<device, text, like>>, NEW n \in Nat, tpos + n <= TextLen, tpos' = tpos + n,
           NEW r, r = [i \in 1 .. n |-> RowAt(tpos + (i - 1))], made' = made \o r,
           CachesAre(caches', tpos + n)
    PROVE  StretchInv'
<1>1. tpos \in Nat /\ TextLen \in Nat /\ tpos' \in 0 .. TextLen
    BY SizesAre DEF StretchInv
<1>2. made' = [i \in 1 .. (tpos + n) |-> RowAt(i - 1)]
    BY MadeGoesOn
<1>3. (made = [i \in 1 .. tpos |-> RowAt(i - 1)])'
  <2>1. made' = [i \in 1 .. tpos' |-> RowAt(i - 1)]
      BY <1>2
  <2>2. \A i \in 1 .. tpos' : RowAt(i - 1)' = RowAt(i - 1)
    <3>1. device' = device /\ text' = text /\ like' = like
        OBVIOUS
    <3>2. QED BY <3>1, RowsStay
  <2>3. QED BY <2>1, <2>2
<1>4. CachesAre(caches, tpos)'
    BY DEF CachesAre
<1>5. QED BY <1>1, <1>3, <1>4 DEF StretchInv, LikeIs

LEMMA OracleKeeps ==
    ASSUME StretchInv, NEW n \in 1 .. TextLen, OracleForward(n)
    PROVE  StretchInv'
<1> DEFINE rows == Rows(tpos, n)
           sel == Selections(caches.idx, tpos, n)
           kv == caches.kv \o [i \in 1..n |-> rows[i - 1]]
           r == [i \in 1..n |-> OracleRow(n, i - 1)]
<1>1. /\ device = "oracle" /\ tpos + n <= TextLen /\ tpos' = tpos + n /\ UNCHANGED <<device, text, like>>
      /\ made' = made \o r
      /\ caches' = [ple |-> OracleWindow(caches.ple, tpos, rows, n), conv |-> LinearHist(caches.conv, rows, n),
                    state |-> Recur(caches.state, rows, n - 1), kv |-> kv, idx |-> sel.idx]
    BY DEF OracleForward, OracleRow
<1>2. /\ tpos \in Nat /\ TextLen \in Nat /\ n \in Nat \ {0} /\ PleIs(caches.ple, tpos)
      /\ caches.conv = HistAt(tpos) /\ caches.state = UpTo(tpos) /\ caches.kv = UpTo(tpos)
      /\ n - 1 \in 0 .. (n - 1) /\ n \in 0 .. n
    BY <1>1, SizesAre DEF StretchInv, CachesAre
<1>3. r = [i \in 1 .. n |-> RowAt(tpos + (i - 1))]
  <2> SUFFICES ASSUME NEW i \in 1 .. n PROVE OracleRow(n, i - 1) = RowAt(tpos + (i - 1))
      OBVIOUS
  <2> DEFINE t == i - 1
  <2>1. t \in 0 .. (n - 1)
      BY <1>2
  <2> HIDE DEF t
  <2>2. OracleRow(n, t) = Whole(tpos + t)
      BY <1>1, <1>2, <2>1, OracleRowIs
  <2>3. OracleRow(n, t) = RowAt(tpos + t)
      BY <1>1, <2>2 DEF RowAt
  <2>4. QED BY <2>3 DEF t
<1>4. OracleWindow(caches.ple, tpos, rows, n) = [conv |-> WindowAt(tpos + n), has_init |-> TRUE]
    BY <1>2, OracleWindowIs
<1>5. LinearHist(caches.conv, rows, n) = HistAt(tpos + n)
    BY <1>2, LinearHistIs
<1>6. Recur(caches.state, rows, n - 1) = UpTo(tpos + n)
  <2>1. [i \in 1 .. ((n - 1) + 1) |-> rows[i - 1]] = [i \in 1 .. n |-> rows[i - 1]]
      BY <1>2
  <2>2. UpTo(tpos) \o [i \in 1 .. n |-> rows[i - 1]] = UpTo(tpos + n)
      BY <1>2, UpToGoesOn, Zenon
  <2> HIDE DEF rows
  <2>3. QED BY <1>2, <2>1, <2>2 DEF Recur
<1>7. kv = UpTo(tpos + n)
  <2>1. UpTo(tpos) \o [i \in 1 .. n |-> rows[i - 1]] = UpTo(tpos + n)
      BY <1>2, UpToGoesOn, Zenon
  <2> HIDE DEF rows
  <2>2. QED BY <1>2, <2>1
<1>8. sel.idx = IndexAt(tpos + n)
  <2>1. sel = [idx |-> IndexAt(tpos + n), sel |-> SelsOf(tpos, n)]
      BY <1>1, <1>2, StretchSelects
  <2>2. QED BY <2>1
<1> HIDE DEF rows, sel, kv
<1>9. caches' = [ple |-> [conv |-> WindowAt(tpos + n), has_init |-> TRUE], conv |-> HistAt(tpos + n),
                 state |-> UpTo(tpos + n), kv |-> UpTo(tpos + n), idx |-> IndexAt(tpos + n)]
    BY <1>1, <1>4, <1>5, <1>6, <1>7, <1>8, Zenon
<1>10. CachesAre(caches', tpos + n)
    BY <1>9 DEF CachesAre, PleIs
<1> HIDE DEF r
<1>11. QED BY <1>1, <1>2, <1>3, <1>10, StretchKeeps

LEMMA CardKeeps ==
    ASSUME StretchInv, CardStretch
    PROVE  StretchInv'
<1> DEFINE n == IF ChunkMax < TextLen - tpos THEN ChunkMax ELSE TextLen - tpos
           rows == Rows(tpos, n)
           sel == Selections(caches.idx, tpos, n)
           r == [i \in 1..n |-> CardRow(n, i - 1)]
<1>1. /\ device = "card" /\ tpos < TextLen /\ tpos' = tpos + n /\ UNCHANGED <<device, text, like>>
      /\ made' = made \o r
      /\ caches' = [caches EXCEPT !.ple = CardWindow(caches.ple, rows, n), !.idx = sel.idx]
    BY DEF CardStretch, CardRow
<1>2. tpos \in Nat /\ TextLen \in Nat /\ ChunkMax \in Nat \ {0} /\ PleIs(caches.ple, tpos)
    BY SizesAre DEF StretchInv, CachesAre
<1>3. n \in Nat \ {0} /\ tpos + n <= TextLen
    BY <1>1, <1>2
<1> HIDE DEF n
<1>4. r = [i \in 1 .. n |-> RowAt(tpos + (i - 1))]
  <2> SUFFICES ASSUME NEW i \in 1 .. n PROVE CardRow(n, i - 1) = RowAt(tpos + (i - 1))
      OBVIOUS
  <2> DEFINE t == i - 1
  <2>1. t \in 0 .. (n - 1)
      BY <1>3
  <2> HIDE DEF t
  <2>2. CardRow(n, t) = [grams |-> Whole(tpos + t).grams, taps |-> Whole(tpos + t).taps,
                         sees |-> Whole(tpos + t).sees]
      BY <1>3, <2>1, CardRowIs
  <2>3. device # "oracle"
      BY <1>1
  <2>4. CardRow(n, t) = RowAt(tpos + t)
      BY <2>2, <2>3 DEF RowAt
  <2>5. QED BY <2>4 DEF t
<1>5. CardWindow(caches.ple, rows, n) = [conv |-> WindowAt(tpos + n), has_init |-> TRUE]
    BY <1>2, <1>3, CardWindowIs
<1>6. sel.idx = IndexAt(tpos + n)
  <2>1. sel = [idx |-> IndexAt(tpos + n), sel |-> SelsOf(tpos, n)]
      BY <1>3, StretchSelects
  <2>2. QED BY <2>1
<1> HIDE DEF rows, sel
<1>7. caches = [ple |-> caches.ple, conv |-> caches.conv, state |-> caches.state, kv |-> caches.kv, idx |-> IndexAt(tpos)]
    BY DEF StretchInv, CachesAre
<1>8. caches' = [ple |-> [conv |-> WindowAt(tpos + n), has_init |-> TRUE], conv |-> caches.conv,
                 state |-> caches.state, kv |-> caches.kv, idx |-> IndexAt(tpos + n)]
  <2> DEFINE a == caches.ple
             b == caches.conv
             c == caches.state
             d == caches.kv
             e == [conv |-> WindowAt(tpos + n), has_init |-> TRUE]
             g == IndexAt(tpos)
             h == IndexAt(tpos + n)
  <2>1. caches = [ple |-> a, conv |-> b, state |-> c, kv |-> d, idx |-> g]
      BY <1>7
  <2>2. caches' = [caches EXCEPT !.ple = e, !.idx = h]
      BY <1>1, <1>5, <1>6
  <2> HIDE DEF a, b, c, d, e, g, h
  <2>3. caches' = [ple |-> e, conv |-> b, state |-> c, kv |-> d, idx |-> h]
      BY <2>1, <2>2
  <2>4. QED BY <2>3 DEF a, b, c, d, e, h
<1>9. CachesAre(caches', tpos + n)
  <2>1. device # "oracle"
      BY <1>1
  <2>2. QED BY <1>8, <2>1 DEF CachesAre, PleIs
<1> HIDE DEF r
<1>10. QED BY <1>1, <1>3, <1>4, <1>9, StretchKeeps

LEMMA StretchInit == TextInit => StretchInv
<1> SUFFICES ASSUME TextInit PROVE StretchInv
    OBVIOUS
<1>1. PleWindow \in Nat /\ TextLen \in Nat /\ ConvK \in Nat \ {0}
    BY SizesAre
<1>2. /\ device \in {"oracle", "card"} /\ text \in [1 .. TextLen -> Word] /\ tpos = 0 /\ made = <<>> /\ LikeIs
      /\ caches = [ple |-> [conv |-> [i \in 0..(PleWindow - 1) |-> Blank], has_init |-> FALSE],
                   conv |-> <<>>, state |-> <<>>, kv |-> <<>>, idx |-> [raw |-> <<>>, comp |-> <<>>]]
    BY DEF TextInit, LikeIs
<1>3. UpTo(0) = <<>> /\ HistAt(0) = <<>>
  <2>1. HistLen(0) = 0
      BY <1>1 DEF HistLen
  <2>2. QED BY <2>1 DEF UpTo, HistAt
<1>4. IndexAt(0) = [raw |-> <<>>, comp |-> <<>>]
  <2>1. 0 \div Ratio = 0
      BY SizesAre, NextQuotient
  <2>2. QED BY <1>3, <2>1 DEF IndexAt
<1>5. [i \in 0..(PleWindow - 1) |-> Blank] = WindowAt(0)
  <2>1. \A i \in 0..(PleWindow - 1) : 0 + i - PleWindow < 0
      BY <1>1
  <2>2. QED BY <2>1 DEF WindowAt, PosOr
<1>6. CachesAre(caches, 0)
  <2>1. caches.ple = [conv |-> WindowAt(0), has_init |-> FALSE]
      BY <1>2, <1>5
  <2>2. PleIs(caches.ple, 0)
      BY <2>1 DEF PleIs
  <2>3. QED BY <1>2, <1>3, <1>4, <2>2 DEF CachesAre
<1>7. QED BY <1>1, <1>2, <1>6 DEF StretchInv

LEMMA StretchStep == StretchInv /\ [TextNext]_textVars => StretchInv'
<1> SUFFICES ASSUME StretchInv, [TextNext]_textVars PROVE StretchInv'
    OBVIOUS
<1>1. ASSUME NEW n \in 1 .. TextLen, OracleForward(n) PROVE StretchInv'
    BY <1>1, OracleKeeps
<1>2. CASE CardStretch
    BY <1>2, CardKeeps
<1>3. CASE UNCHANGED textVars
    BY <1>3 DEF textVars, StretchInv, LikeIs, CachesAre, RowAt, Whole
<1>4. QED BY <1>1, <1>2, <1>3 DEF TextNext, TextDone

(***************************************************************************)
(* However Oracle::forward or the tool's loop cuts a text into stretches,  *)
(* every position is made of what it would be made of in one: its n-grams, *)
(* its taps, its recurrence and the rows its indexer selects, for every    *)
(* text, every likeness of the blocks and every size of the windows.       *)
(***************************************************************************)
THEOREM StretchesAreFree == TextSpec => []StretchFree
<1>1. StretchInv => StretchFree
  <2> SUFFICES ASSUME StretchInv, NEW i \in DOMAIN made PROVE \A f \in DOMAIN made[i] : made[i][f] = Whole(i - 1)[f]
      BY DEF StretchFree
  <2>1. made[i] = RowAt(i - 1)
      BY DEF StretchInv
  <2>2. CASE device = "oracle"
      BY <2>1, <2>2 DEF RowAt
  <2>3. CASE device # "oracle"
    <3>1. made[i] = [grams |-> Whole(i - 1).grams, taps |-> Whole(i - 1).taps, sees |-> Whole(i - 1).sees]
        BY <2>1, <2>3 DEF RowAt
    <3>2. QED BY <3>1
  <2>4. QED BY <2>2, <2>3
<1>2. QED BY <1>1, StretchInit, StretchStep, PTL DEF TextSpec
=============================================================================
