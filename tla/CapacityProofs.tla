---------------------------- MODULE CapacityProofs ----------------------------
(***************************************************************************)
(* Proofs about what there is room for: the pools of two shards that the   *)
(* scheduler sees as one (ShardPools), and the plan and the load of        *)
(* servers that come up on one card (LoadGate); about the files they come  *)
(* up from, the conversion of a model (Repack); about the plan for several *)
(* cards (ShardPlan), and about what a sequence leaves in both (Shards).   *)
(***************************************************************************)
EXTENDS Shards, ShardPools, LoadGate, Repack, ShardPlan, DataLemmas

-----------------------------------------------------------------------------
(***************************************************************************)
(* ShardPools.  The shards hold the same columns of every sequence, and of *)
(* each pool as many blocks are gone as these columns have layers there.   *)
(***************************************************************************)
PoolsType ==
    /\ colsA \in [SeqId -> Nat] /\ colsB = colsA
    /\ freeA \in Int /\ freeB \in Int

Spent == \E k \in Int :
    /\ freeA = PoolBlocks(LayersA) - LayersA * k
    /\ freeB = PoolBlocks(LayersB) - LayersB * k

PoolsInv == PoolsType /\ Spent

(***************************************************************************)
(* The pool of a shard has x columns exactly when the budget and the slots *)
(* have, whichever shard it is: the split by layers is fair to a column.   *)
(***************************************************************************)
Fair(x) == x * (BlockBytes * (LayersA + LayersB)) <= Budget /\ x <= Slots * Columns

LEMMA PoolHas ==
    ASSUME NEW L \in {LayersA, LayersB}, NEW x \in Int, x >= 1
    PROVE  /\ PoolBlocks(L) \in Int
           /\ L * x <= PoolBlocks(L) <=> Fair(x)
<1> DEFINE T == LayersA + LayersB
           share == Budget * L
           bytes == share \div T
           blocks == bytes \div BlockBytes
           most == Slots * L * Columns
<1>1. /\ LayersA \in Nat \ {0} /\ LayersB \in Nat \ {0} /\ Budget \in Nat /\ BlockBytes \in Nat \ {0}
      /\ Columns \in Nat \ {0} /\ Slots \in Nat \ {0}
    BY ShardPoolsAssumption
<1>2. L \in Nat \ {0} /\ T \in Nat \ {0} /\ share \in Nat /\ L * x \in Int /\ L * x >= 1
  <2>1. L \in Nat \ {0} /\ T \in Nat \ {0}
      BY <1>1
  <2>2. share \in Nat
      BY <1>1, <2>1
  <2>3. PICK d \in Nat : x = 1 + d
    <3>1. x - 1 \in Nat /\ x = 1 + (x - 1)
        OBVIOUS
    <3>2. QED BY <3>1
  <2>4. L * x = L + L * d /\ L * d \in Nat
      BY <2>1, <2>3
  <2>5. QED BY <2>1, <2>2, <2>4
<1> HIDE DEF T, share
<1>3. bytes \in Int /\ \A k \in Int : k <= bytes <=> k * T <= share
    BY <1>2, QuotientReaches
<1> HIDE DEF bytes
<1>4. blocks \in Int /\ \A k \in Int : k <= blocks <=> k * BlockBytes <= bytes
    BY <1>1, <1>3, QuotientReaches
<1> HIDE DEF blocks
<1>5. L * x <= blocks <=> x * (BlockBytes * T) <= Budget
  <2> DEFINE n == x * (BlockBytes * T)
  <2>1. n \in Int /\ L * x * BlockBytes \in Int /\ (L * x * BlockBytes) * T = L * n /\ share = L * Budget
      BY <1>1, <1>2 DEF share
  <2>2. L * x <= blocks <=> L * n <= L * Budget
      BY <1>2, <1>3, <1>4, <2>1
  <2> HIDE DEF n
  <2>3. L * n <= L * Budget <=> n <= Budget
      BY <1>1, <1>2, <2>1, QuotientReaches
  <2>4. QED BY <2>2, <2>3 DEF n
<1>6. most \in Int /\ (L * x <= most <=> x <= Slots * Columns)
  <2> DEFINE m == Slots * Columns
  <2>1. m \in Int /\ most = L * m
      BY <1>1, <1>2
  <2> HIDE DEF m
  <2>2. L * x <= L * m <=> x <= m
      BY <1>2, <2>1
  <2>3. L * m \in Int
      BY <1>2, <2>1
  <2>4. QED BY <2>1, <2>2, <2>3 DEF m
<1> HIDE DEF most
<1>7. PoolBlocks(L) = Most(1, Least(blocks, most))
    BY DEF PoolBlocks, Split, blocks, bytes, share, T, most
<1>8. PoolBlocks(L) \in Int
    BY <1>4, <1>6, <1>7 DEF Most, Least
<1>9. L * x > 1 => (L * x <= PoolBlocks(L) <=> Fair(x))
    BY <1>2, <1>4, <1>5, <1>6, <1>7 DEF Most, Least, Fair, T
<1>10. L * x = 1 => Fair(x)
  <2> SUFFICES ASSUME L * x = 1 PROVE Fair(x)
      OBVIOUS
  <2>1. L = 1 /\ x = 1
      BY <1>2
  <2>2. BlockBytes * T <= Budget
      BY <2>1, NoLoneLayer DEF T
  <2>3. 1 <= Slots * Columns
      BY <1>1
  <2>4. QED BY <1>1, <2>1, <2>2, <2>3 DEF Fair, T
<1>11. L * x = 1 => L * x <= PoolBlocks(L)
    BY <1>4, <1>6, <1>7 DEF Most, Least
<1>12. QED BY <1>2, <1>8, <1>9, <1>10, <1>11

(***************************************************************************)
(* The invariant at first and under each action.                           *)
(***************************************************************************)
LEMMA PoolsAre ==
    /\ LayersA \in Nat \ {0} /\ LayersB \in Nat \ {0}
    /\ PoolBlocks(LayersA) \in Int /\ PoolBlocks(LayersB) \in Int
BY PoolHas, ShardPoolsAssumption

LEMMA PoolsInvInit == PoolsInit => PoolsInv
<1> SUFFICES ASSUME PoolsInit PROVE PoolsInv
    OBVIOUS
<1>1. PoolsType
    BY PoolsAre DEF PoolsInit, PoolsType
<1>2. freeA = PoolBlocks(LayersA) - LayersA * 0 /\ freeB = PoolBlocks(LayersB) - LayersB * 0
    BY PoolsAre DEF PoolsInit
<1>3. QED BY <1>1, <1>2 DEF PoolsInv, Spent

\* Blocks of d columns more, or less, in both pools.
LEMMA SpendsAlike ==
    ASSUME PoolsInv, NEW d \in Int, PoolsType',
           freeA' = freeA - LayersA * d, freeB' = freeB - LayersB * d
    PROVE  PoolsInv'
<1>1. PICK k \in Int : /\ freeA = PoolBlocks(LayersA) - LayersA * k
                       /\ freeB = PoolBlocks(LayersB) - LayersB * k
    BY DEF PoolsInv, Spent
<1> DEFINE PA == PoolBlocks(LayersA)
           PB == PoolBlocks(LayersB)
<1>2. PA \in Int /\ PB \in Int
    BY PoolsAre
<1> HIDE DEF PA, PB
<1>3. k + d \in Int /\ freeA' = PA - LayersA * (k + d) /\ freeB' = PB - LayersB * (k + d)
    BY <1>1, <1>2, PoolsAre DEF PA, PB
<1>4. PA' = PA /\ PB' = PB
    BY DEF PA, PB
<1>5. Spent'
    BY <1>3 DEF Spent, PA, PB
<1>6. QED BY <1>5 DEF PoolsInv

LEMMA PoolsInvStep == PoolsInv /\ [PoolsNext]_poolsVars => PoolsInv'
<1> SUFFICES ASSUME PoolsInv, [PoolsNext]_poolsVars PROVE PoolsInv'
    OBVIOUS
<1>1. CASE UNCHANGED poolsVars
    BY <1>1 DEF poolsVars, PoolsInv, PoolsType, Spent
<1>2. ASSUME NEW s \in SeqId, NEW n \in 1 .. Columns, ShardGrow(s, n)
      PROVE  PoolsInv'
  <2> DEFINE d == New(colsA, s, n)
  <2>1. n \in Nat /\ colsA[s] \in Nat /\ colsB[s] = colsA[s]
      BY DEF PoolsInv, PoolsType
  <2>2. d \in Int /\ Most(n, colsA[s]) \in Nat
      BY <2>1 DEF New, Most
  <2>3. freeA' = freeA - LayersA * d /\ freeB' = freeB - LayersB * d
      BY <1>2, <2>1 DEF ShardGrow, New
  <2> HIDE DEF d
  <2>4. PoolsType'
    <3>1. LayersA * d \in Int /\ LayersB * d \in Int
        BY <2>2, PoolsAre
    <3>2. QED BY <1>2, <2>1, <2>2, <2>3, <3>1 DEF ShardGrow, PoolsInv, PoolsType
  <2>5. QED BY <2>2, <2>3, <2>4, SpendsAlike
<1>3. ASSUME NEW s \in SeqId, ShardRelease(s)
      PROVE  PoolsInv'
  <2> DEFINE d == 0 - colsA[s]
  <2>1. colsA[s] \in Nat /\ colsB[s] = colsA[s] /\ freeA \in Int /\ freeB \in Int
      BY DEF PoolsInv, PoolsType
  <2>2. d \in Int /\ LayersA * d = 0 - LayersA * colsA[s] /\ LayersB * d = 0 - LayersB * colsA[s]
        /\ LayersA * colsA[s] \in Int /\ LayersB * colsA[s] \in Int
      BY <2>1, PoolsAre
  <2> HIDE DEF d
  <2>3. freeA' = freeA - LayersA * d /\ freeB' = freeB - LayersB * d
      BY <1>3, <2>1, <2>2 DEF ShardRelease
  <2>4. PoolsType'
      BY <1>3, <2>1, <2>2 DEF ShardRelease, PoolsInv, PoolsType
  <2>5. QED BY <2>2, <2>3, <2>4, SpendsAlike
<1>4. QED BY <1>1, <1>2, <1>3 DEF PoolsNext, ShardGrowErr

(***************************************************************************)
(* A need that one of the pools has room for has room in the other.        *)
(***************************************************************************)
LEMMA OneIsBoth ==
    ASSUME NEW k \in Int, NEW n \in Nat \ {0},
           LayersA * n <= PoolBlocks(LayersA) - LayersA * k
              \/ LayersB * n <= PoolBlocks(LayersB) - LayersB * k
    PROVE  /\ LayersA * n <= PoolBlocks(LayersA) - LayersA * k
           /\ LayersB * n <= PoolBlocks(LayersB) - LayersB * k
<1> DEFINE x == n + k
           PA == PoolBlocks(LayersA)
           PB == PoolBlocks(LayersB)
<1>1. PA \in Int /\ PB \in Int /\ x \in Int
    BY PoolsAre
<1>2. x >= 1 => (LayersA * x <= PA <=> LayersB * x <= PB)
    BY PoolHas
<1>3. PA >= 1 /\ PB >= 1
    BY PoolsAre DEF PoolBlocks, Most
<1> HIDE DEF PA, PB
<1>4. LayersA * x = LayersA * n + LayersA * k /\ LayersB * x = LayersB * n + LayersB * k
      /\ LayersA * n \in Int /\ LayersA * k \in Int /\ LayersB * n \in Int /\ LayersB * k \in Int
    BY PoolsAre
<1>5. x <= 0 => LayersA * x <= 0 /\ LayersB * x <= 0
    BY <1>1, PoolsAre
<1> HIDE DEF x
<1>6. LayersA * x <= PA /\ LayersB * x <= PB
    BY <1>1, <1>2, <1>3, <1>4, <1>5 DEF PA, PB
<1>7. QED BY <1>1, <1>4, <1>6 DEF PA, PB

(***************************************************************************)
(* What the scheduler admits by the one number the engine reports fits in  *)
(* both pools, and what it refuses for good is larger than one of the      *)
(* pools (kv_free_blocks, kv_total_blocks, seq_blocks_needed of pp.rs):    *)
(* with any layers, budget and size of block, as long as a shard of one    *)
(* layer has its column from the budget.                                   *)
(***************************************************************************)
THEOREM BothShardsHaveRoom == PoolsSpec => []AdmittedFitsBoth
<1>1. PoolsInv => AdmittedFitsBoth
  <2> SUFFICES ASSUME PoolsInv, NEW n \in 1 .. Columns
               PROVE  /\ Needed(n) <= ReportedFree => \A s \in SeqId : Covered(s, n)
                      /\ Needed(n) <= ReportedTotal =>
                            LayersA * n <= PoolBlocks(LayersA) /\ LayersB * n <= PoolBlocks(LayersB)
      BY DEF AdmittedFitsBoth
  <2>1. n \in Nat \ {0} /\ LayersA * n \in Int /\ LayersB * n \in Int
      BY PoolsAre, ShardPoolsAssumption
  <2>2. ASSUME Needed(n) <= ReportedFree, NEW s \in SeqId
        PROVE  Covered(s, n)
    <3>1. PICK k \in Int : /\ freeA = PoolBlocks(LayersA) - LayersA * k
                           /\ freeB = PoolBlocks(LayersB) - LayersB * k
        BY DEF PoolsInv, Spent
    <3>2. LayersA * n <= freeA \/ LayersB * n <= freeB
        BY <2>1, <2>2 DEF Needed, ReportedFree, Least, PoolsInv, PoolsType
    <3>3. LayersA * n <= freeA /\ LayersB * n <= freeB
        BY <2>1, <3>1, <3>2, OneIsBoth
    <3>4. New(colsA, s, n) \in Nat /\ New(colsA, s, n) <= n /\ New(colsB, s, n) = New(colsA, s, n)
        BY <2>1 DEF New, Most, PoolsInv, PoolsType
    <3> DEFINE d == New(colsA, s, n)
    <3>5. d \in Nat /\ d <= n
        BY <3>4
    <3> HIDE DEF d
    <3>6. LayersA * d <= LayersA * n /\ LayersB * d <= LayersB * n
          /\ LayersA * d \in Int /\ LayersB * d \in Int
        BY <2>1, <3>5, PoolsAre
    <3>7. LayersA * d <= freeA /\ LayersB * d <= freeB
        BY <2>1, <3>3, <3>6 DEF PoolsInv, PoolsType
    <3>8. QED BY <3>4, <3>7 DEF Covered, d
  <2>3. ASSUME Needed(n) <= ReportedTotal
        PROVE  LayersA * n <= PoolBlocks(LayersA) /\ LayersB * n <= PoolBlocks(LayersB)
    <3>1. LayersA * n <= PoolBlocks(LayersA) \/ LayersB * n <= PoolBlocks(LayersB)
        BY <2>1, <2>3, PoolsAre DEF Needed, ReportedTotal, Least
    <3>2. /\ PoolBlocks(LayersA) - LayersA * 0 = PoolBlocks(LayersA)
          /\ PoolBlocks(LayersB) - LayersB * 0 = PoolBlocks(LayersB)
        BY PoolsAre
    <3>3. /\ LayersA * n <= PoolBlocks(LayersA) - LayersA * 0
          /\ LayersB * n <= PoolBlocks(LayersB) - LayersB * 0
        BY <2>1, <3>1, <3>2, OneIsBoth
    <3>4. QED BY <3>2, <3>3
  <2>4. QED BY <2>2, <2>3
<1>2. QED BY <1>1, PoolsInvInit, PoolsInvStep, PTL DEF PoolsSpec

-----------------------------------------------------------------------------
(***************************************************************************)
(* LoadGate.  Numbers, and orders that are served.                         *)
(***************************************************************************)
Stages == {"off", "waiting", "guard", "plan", "dense", "experts", "rest", "up", "warm"}
Locked == {"guard", "plan", "dense", "experts", "rest"}
Loading == {"dense", "experts", "rest"}

GateType ==
    /\ vram \in Nat /\ ram \in Nat
    /\ stage \in [Server -> Stages]
    /\ \A s \in Server : stage[s] # "off" => order[s] \in Orders
    /\ order \in [Server -> Orders \union {NoOrder}]
    /\ kv \in [Server -> [fits : BOOLEAN, vram : Nat, ram : Nat, seen : Nat, seenRam : Nat]]
    /\ has \in [Server -> [vram : Nat, ram : Nat]]

\* A server has the lock from the guard on until it is up.
LockHeld == \A s \in Server : stage[s] \in Locked <=> holder = s

\* Before the plan there is none, and a plan that fits is one of its order.
PlannedAt(s) ==
    /\ stage[s] \in {"off", "waiting", "guard", "plan"} => ~kv[s].fits /\ has[s].vram = 0
    /\ kv[s].fits => /\ Plan(order[s], kv[s].seen, kv[s].seenRam).fits
                     /\ kv[s].vram <= Plan(order[s], kv[s].seen, kv[s].seenRam).budget

\* What is free when a server loads is what its plan has seen, but for what it
\* took itself and for the working buffers of another server.
FreeBut(s, taken) ==
    \/ kv[s].seen <= vram + taken
    \/ \E t \in Server \ {s} :
          /\ stage[t] = "warm"
          /\ kv[s].seen <= vram + taken + has[t].vram
          /\ kv[s].seen <= vram + taken + Reserve - State

RoomAt(s) ==
    kv[s].fits /\ stage[s] \in Loading =>
        /\ kv[s].ram <= ram
        /\ stage[s] = "dense" => FreeBut(s, 0)
        /\ stage[s] # "dense" /\ order[s].experts = 0 => FreeBut(s, Layers(order[s]))

GateInv == GateType /\ LockHeld /\ \A s \in Server : PlannedAt(s) /\ RoomAt(s)

(***************************************************************************)
(* There is at most one server besides two.                                *)
(***************************************************************************)
LEMMA NoThird ==
    ASSUME NEW s \in Server, NEW t \in Server, NEW u \in Server, s # t
    PROVE  u = s \/ u = t
<1> SUFFICES ASSUME u # s, u # t PROVE FALSE
    OBVIOUS
<1>1. IsFiniteSet({s, t, u}) /\ Cardinality({s, t, u}) = 3
  <2>1. IsFiniteSet({s}) /\ Cardinality({s}) = 1
      BY FS_Singleton
  <2>2. IsFiniteSet({s} \union {t}) /\ Cardinality({s} \union {t}) = 2
      BY <2>1, FS_AddElement
  <2>3. IsFiniteSet(({s} \union {t}) \union {u}) /\ Cardinality(({s} \union {t}) \union {u}) = 3
      BY <2>2, FS_AddElement
  <2>4. ({s} \union {t}) \union {u} = {s, t, u}
      OBVIOUS
  <2>5. QED BY <2>3, <2>4
<1>2. {s, t, u} \subseteq Server
    OBVIOUS
<1>3. Cardinality({s, t, u}) <= Cardinality(Server) /\ Cardinality(Server) \in Nat
    BY <1>2, TwoServers, FS_Subset, FS_CardinalityType
<1>4. QED BY <1>1, <1>3, TwoServers

(***************************************************************************)
(* What an order and the machine are made of.                              *)
(***************************************************************************)
LEMMA MachineIs ==
    /\ Reserve \in Nat /\ RamReserve \in Nat /\ Margin \in Nat /\ State \in Nat
    /\ State <= Reserve /\ BlockTokens \in Nat \ {0} /\ Others \in Nat
    /\ Contexts * State = Others + State
    /\ CardMemory \in Nat /\ HostMemory \in Nat
<1>1. /\ Reserve \in Nat /\ RamReserve \in Nat /\ Margin \in Nat /\ State \in Nat
      /\ State <= Reserve /\ BlockTokens \in Nat \ {0} /\ Contexts \in Nat \ {0}
      /\ CardMemory \in Nat /\ HostMemory \in Nat
    BY LoadGateAssumption, TwoServers
<1>2. Contexts - 1 \in Nat /\ Contexts * State = (Contexts - 1) * State + State
    BY <1>1
<1>3. (Contexts - 1) * State \in Nat
    BY <1>1, <1>2
<1>4. QED BY <1>1, <1>2, <1>3 DEF Others

LEMMA OrderIs ==
    ASSUME NEW o \in Orders
    PROVE  /\ o.dense \in Nat /\ o.head \in Nat /\ o.experts \in Nat /\ o.rows \in Nat
           /\ o.embed \in Nat /\ o.kvMem \in Nat /\ o.maxCtx \in Nat
           /\ o.gpuEmbed \in BOOLEAN /\ o.listed \in BOOLEAN
           /\ o.head <= o.dense /\ OnCard(o) \in Nat /\ OnCard(o) <= o.embed
           /\ Layers(o) \in Nat /\ Layers(o) + o.head = o.dense
<1>1. o \in OrderType /\ o.head <= o.dense
    BY LoadGateAssumption
<1>2. /\ o.dense \in Nat /\ o.head \in Nat /\ o.experts \in Nat /\ o.rows \in Nat
      /\ o.embed \in Nat /\ o.kvMem \in Nat /\ o.maxCtx \in Nat
      /\ o.gpuEmbed \in BOOLEAN /\ o.listed \in BOOLEAN
    BY <1>1 DEF OrderType
<1>3. QED BY <1>1, <1>2 DEF OnCard, Layers

(***************************************************************************)
(* plan: what it promises when it does not refuse.                         *)
(***************************************************************************)
LEMMA PlanIs ==
    ASSUME NEW o \in Orders, NEW v \in Nat, NEW host \in Nat
    PROVE  LET p == Plan(o, v, host)
           IN  /\ p.fits \in BOOLEAN /\ p.budget \in Nat
               /\ p.fits => o.dense + OnCard(o) + Reserve + Others + p.budget = v
               /\ p.fits => p.ctx \in Nat /\ p.hot \in Nat
                            /\ p.ctx + p.hot + (IF p.rows = "vram" THEN o.rows ELSE 0) <= p.budget
               /\ p.fits => (p.experts = "vram" <=> p.hot = o.experts)
               /\ p.experts = "host" => p.ramNeed + p.kvRam = host
<1> DEFINE p == Plan(o, v, host)
           b == KvBudget(o, v)
           ctx == Lower(Aligned(b), o.maxCtx)
           spare == b - ctx
           hot == Lower(o.experts, spare)
           need == o.experts - hot + (o.embed - OnCard(o))
<1>1. /\ o.dense \in Nat /\ o.experts \in Nat /\ o.rows \in Nat /\ o.embed \in Nat
      /\ o.maxCtx \in Nat /\ OnCard(o) \in Nat /\ OnCard(o) <= o.embed
    BY OrderIs
<1>2. b \in Nat /\ (b > 0 => o.dense + OnCard(o) + Reserve + Others + b = v)
    BY <1>1, MachineIs DEF KvBudget, Less
<1> HIDE DEF b
<1>3. Aligned(b) \in Int /\ Aligned(b) <= b /\ Aligned(b) >= 0
  <2> DEFINE q == b \div BlockTokens
  <2>1. q \in Int /\ \A k \in Int : k <= q <=> k * BlockTokens <= b
    <3>1. b \in Int /\ BlockTokens \in Nat \ {0}
        BY <1>2, MachineIs
    <3>2. QED BY <3>1, QuotientReaches
  <2> HIDE DEF q
  <2>2. q * BlockTokens <= b
      BY <2>1
  <2>3. 0 * BlockTokens <= b
      BY <1>2, MachineIs
  <2>4. 0 <= q
      BY <2>1, <2>3
  <2>5. q * BlockTokens \in Int /\ q * BlockTokens >= 0
      BY <2>1, <2>4, MachineIs
  <2>6. QED BY <2>2, <2>5 DEF Aligned, q
<1>4. ctx \in Nat /\ ctx <= b
    BY <1>1, <1>2, <1>3 DEF Lower
<1> HIDE DEF ctx
<1>5. spare \in Nat /\ ctx + spare = b
    BY <1>2, <1>4
<1> HIDE DEF spare
<1>6. hot \in Nat /\ hot <= spare /\ hot <= o.experts /\ (o.experts <= spare => hot = o.experts)
      /\ (hot = o.experts => o.experts <= spare)
    BY <1>1, <1>5 DEF Lower
<1> HIDE DEF hot
<1>7. need \in Nat /\ need <= o.experts + (o.embed - OnCard(o))
    BY <1>1, <1>6
<1> HIDE DEF need
<1>8. /\ p.fits = (o.dense + OnCard(o) + Reserve <= v /\ ctx >= BlockTokens)
      /\ p.budget = b /\ p.ctx = ctx /\ p.hot = hot
      /\ p.experts = IF o.experts <= spare THEN "vram"
                     ELSE IF host >= o.experts + (o.embed - OnCard(o)) THEN "host" ELSE "ssd"
      /\ p.rows = IF o.rows <= spare - hot THEN "vram" ELSE "ssd"
      /\ p.ramNeed = need /\ p.kvRam = Less(host, need)
    BY DEF Plan, b, ctx, spare, hot, need
<1> HIDE DEF p
<1>9. p.fits => b > 0
  <2>1. p.fits => ctx >= BlockTokens
      BY <1>8
  <2>2. BlockTokens \in Nat /\ BlockTokens > 0
      BY MachineIs
  <2>3. QED BY <1>2, <1>4, <2>1, <2>2
<1>10. p.experts = "vram" <=> p.hot = o.experts
    BY <1>6, <1>8
<1>11. p.experts = "host" => p.ramNeed + p.kvRam = host
  <2> SUFFICES ASSUME p.experts = "host" PROVE p.ramNeed + p.kvRam = host
      OBVIOUS
  <2>1. host >= o.experts + (o.embed - OnCard(o))
      BY <1>8
  <2>2. need <= host
      BY <1>1, <1>7, <2>1
  <2>3. QED BY <1>7, <1>8, <2>2 DEF Less
<1>12. p.ctx + p.hot + (IF p.rows = "vram" THEN o.rows ELSE 0) <= p.budget
    BY <1>1, <1>4, <1>5, <1>6, <1>8
<1>13. QED BY <1>2, <1>4, <1>6, <1>8, <1>9, <1>10, <1>11, <1>12 DEF p

(***************************************************************************)
(* The invariant at first, and what keeps it: a step of one server that    *)
(* leaves the others alone and takes from none that loads what it has      *)
(* counted on.                                                             *)
(***************************************************************************)
LEMMA GateInvInit == GateInit => GateInv
<1> SUFFICES ASSUME GateInit PROVE GateInv
    OBVIOUS
<1>1. NoPlan \in [fits : BOOLEAN, vram : Nat, ram : Nat, seen : Nat, seenRam : Nat] /\ ~NoPlan.fits
    BY DEF NoPlan
<1>2. GateType
    BY <1>1, MachineIs DEF GateInit, GateType, Stages
<1>3. LockHeld
    BY TwoServers DEF GateInit, LockHeld, Locked
<1>4. \A s \in Server : PlannedAt(s) /\ RoomAt(s)
    BY <1>1 DEF GateInit, PlannedAt, RoomAt, Loading
<1>5. QED BY <1>2, <1>3, <1>4 DEF GateInv

Same(u) == stage'[u] = stage[u] /\ order'[u] = order[u] /\ kv'[u] = kv[u] /\ has'[u] = has[u]

LEMMA OnlyItsOwn ==
    ASSUME GateInv, GateType', NEW s \in Server,
           \A u \in Server \ {s} : Same(u) /\ (holder' = u <=> holder = u),
           stage'[s] \in Locked <=> holder' = s,
           PlannedAt(s)', RoomAt(s)',
           \A u \in Server \ {s} : stage[u] \in Loading /\ kv[u].ram <= ram => kv[u].ram <= ram',
           \A u \in Server \ {s}, x \in Nat : stage[u] \in Loading /\ FreeBut(u, x) => FreeBut(u, x)'
    PROVE  GateInv'
<1>1. LockHeld'
    BY DEF GateInv, LockHeld, Same
<1>2. ASSUME NEW u \in Server, u # s
      PROVE  PlannedAt(u)' /\ RoomAt(u)'
  <2>1. PlannedAt(u) /\ RoomAt(u) /\ Same(u)
      BY <1>2 DEF GateInv
  <2>2. PlannedAt(u)'
      BY <2>1 DEF PlannedAt, Same
  <2>3. ASSUME kv[u].fits, stage[u] \in Loading
        PROVE  RoomAt(u)'
    <3>1. order[u] \in Orders
        BY <2>3 DEF GateInv, GateType, Loading
    <3>2. Layers(order[u]) \in Nat
        BY <3>1, OrderIs
    <3>3. stage[u] = "dense" => FreeBut(u, 0)'
        BY <1>2, <2>1, <2>3 DEF RoomAt
    <3>4. stage[u] # "dense" /\ order[u].experts = 0 => FreeBut(u, Layers(order[u]))'
      <4> SUFFICES ASSUME stage[u] # "dense", order[u].experts = 0
                   PROVE  FreeBut(u, Layers(order[u]))'
          OBVIOUS
      <4> DEFINE x == Layers(order[u])
      <4>1. FreeBut(u, x) /\ x \in Nat
          BY <2>1, <2>3, <3>2 DEF RoomAt
      <4>2. x' = x
          BY <2>1 DEF Same, Layers
      <4> HIDE DEF x
      <4>3. kv'[u].seen <= vram' + x \/ \E t \in Server \ {u} :
               stage'[t] = "warm" /\ kv'[u].seen <= vram' + x + has'[t].vram
               /\ kv'[u].seen <= vram' + x + Reserve - State
          BY <1>2, <2>3, <4>1 DEF FreeBut
      <4>4. QED BY <4>2, <4>3 DEF FreeBut, x
    <3>5. QED BY <1>2, <2>1, <2>3, <3>3, <3>4 DEF RoomAt, Same
  <2>4. QED BY <2>1, <2>2, <2>3 DEF RoomAt, Same
<1>3. QED BY <1>1, <1>2 DEF GateInv

\* Who has the lock loads alone.
LEMMA LoadsAlone ==
    ASSUME GateInv, NEW s \in Server, holder = s \/ holder = Nobody,
           NEW u \in Server \ {s}
    PROVE  stage[u] \notin Loading
BY TwoServers DEF GateInv, LockHeld, Locked, Loading

(***************************************************************************)
(* A process that ends gives back what others have counted on and more.    *)
(***************************************************************************)
LEMMA ExitKeeps ==
    ASSUME GateInv, NEW s \in Server, Exit(s)
    PROVE  GateInv'
<1>1. NoPlan \in [fits : BOOLEAN, vram : Nat, ram : Nat, seen : Nat, seenRam : Nat] /\ ~NoPlan.fits
    BY DEF NoPlan
<1>2. has[s].vram \in Nat /\ has[s].ram \in Nat /\ vram \in Nat /\ ram \in Nat
    BY DEF GateInv, GateType
<1>3. /\ stage' = [stage EXCEPT ![s] = "off"]
      /\ vram' = vram + has[s].vram /\ ram' = ram + has[s].ram
      /\ has' = [has EXCEPT ![s] = [vram |-> 0, ram |-> 0]]
      /\ order' = [order EXCEPT ![s] = NoOrder] /\ kv' = [kv EXCEPT ![s] = NoPlan]
      /\ holder' = IF holder = s THEN Nobody ELSE holder
    BY DEF Exit, Go
<1>4. GateType'
    BY <1>1, <1>2, <1>3 DEF GateInv, GateType, Stages
<1>5. \A u \in Server \ {s} : Same(u) /\ (holder' = u <=> holder = u)
    BY <1>3, TwoServers DEF Same, GateInv, GateType
<1>6. stage'[s] = "off" /\ holder' # s /\ kv'[s] = NoPlan /\ has'[s].vram = 0
    BY <1>3, TwoServers DEF GateInv, GateType
<1>7. PlannedAt(s)' /\ RoomAt(s)'
    BY <1>1, <1>6 DEF PlannedAt, RoomAt, Loading
<1>8. ASSUME NEW u \in Server \ {s}, stage[u] \in Loading
      PROVE  /\ kv[u].ram <= ram => kv[u].ram <= ram'
             /\ \A x \in Nat : FreeBut(u, x) => FreeBut(u, x)'
  <2>1. kv[u].ram \in Nat /\ kv[u].seen \in Nat /\ kv'[u] = kv[u]
      BY <1>5 DEF GateInv, GateType, Same
  <2>2. ASSUME NEW x \in Nat, FreeBut(u, x)
        PROVE  FreeBut(u, x)'
    <3>1. CASE kv[u].seen <= vram + x
        BY <1>2, <1>3, <2>1, <3>1 DEF FreeBut
    <3>2. ASSUME NEW t \in Server \ {u}, stage[t] = "warm",
                 kv[u].seen <= vram + x + has[t].vram,
                 kv[u].seen <= vram + x + Reserve - State
          PROVE  FreeBut(u, x)'
      <4>1. CASE t = s
          BY <1>2, <1>3, <2>1, <3>2, <4>1 DEF FreeBut
      <4>2. CASE t # s
        <5>1. stage'[t] = "warm" /\ has'[t] = has[t] /\ has[t].vram \in Nat
            BY <1>5, <3>2, <4>2 DEF Same, GateInv, GateType
        <5>2. /\ kv'[u].seen <= vram' + x + has'[t].vram
              /\ kv'[u].seen <= vram' + x + Reserve - State
            BY <1>2, <1>3, <2>1, <3>2, <5>1, MachineIs
        <5>3. QED BY <3>2, <5>1, <5>2 DEF FreeBut
      <4>3. QED BY <4>1, <4>2
    <3>3. QED BY <2>2, <3>1, <3>2 DEF FreeBut
  <2>3. QED BY <1>2, <1>3, <2>1, <2>2
<1>9. stage'[s] \in Locked <=> holder' = s
    BY <1>6 DEF Locked
<1>10. QED BY <1>4, <1>5, <1>7, <1>8, <1>9, OnlyItsOwn

LEMMA StartKeeps ==
    ASSUME GateInv, NEW s \in Server, NEW o \in Orders, Start(s, o)
    PROVE  GateInv'
<1>1. /\ stage[s] = "off" /\ stage' = [stage EXCEPT ![s] = "waiting"]
      /\ order' = [order EXCEPT ![s] = o]
      /\ vram' = vram /\ ram' = ram /\ holder' = holder /\ kv' = kv /\ has' = has
    BY DEF Start, Go
<1>2. GateType' /\ stage'[s] = "waiting"
    BY <1>1 DEF GateInv, GateType, Stages
<1>3. \A u \in Server \ {s} : Same(u) /\ (holder' = u <=> holder = u)
    BY <1>1 DEF Same, GateInv, GateType
<1>4. ~kv[s].fits /\ has[s].vram = 0 /\ holder # s
    BY <1>1 DEF GateInv, PlannedAt, LockHeld, Locked
<1>5. PlannedAt(s)' /\ RoomAt(s)' /\ (stage'[s] \in Locked <=> holder' = s)
    BY <1>1, <1>2, <1>4 DEF PlannedAt, RoomAt, Locked
<1>6. ASSUME NEW u \in Server \ {s}, NEW x \in Nat, FreeBut(u, x)
      PROVE  FreeBut(u, x)'
  <2>1. \A t \in Server : stage[t] = "warm" => stage'[t] = "warm"
      BY <1>1 DEF GateInv, GateType
  <2>2. QED BY <1>1, <1>6, <2>1 DEF FreeBut
<1>7. QED BY <1>1, <1>2, <1>3, <1>5, <1>6, OnlyItsOwn

\* The steps of who has the lock, or gets it: nobody else loads.
LEMMA HolderKeeps ==
    ASSUME GateInv, GateType', NEW s \in Server, holder = s \/ holder = Nobody,
           \A u \in Server \ {s} : Same(u) /\ holder' # u,
           stage'[s] \in Locked <=> holder' = s,
           PlannedAt(s)', RoomAt(s)'
    PROVE  GateInv'
<1>1. \A u \in Server \ {s} : stage[u] \notin Loading
    BY LoadsAlone
<1>2. \A u \in Server \ {s} : holder # u
    BY TwoServers
<1>3. QED BY <1>1, <1>2, OnlyItsOwn

LEMMA LocksKeeps ==
    ASSUME GateInv, NEW s \in Server, Locks(s)
    PROVE  GateInv'
<1>1. /\ stage[s] = "waiting" /\ holder = Nobody /\ holder' = s
      /\ stage' = [stage EXCEPT ![s] = "guard"]
      /\ vram' = vram /\ ram' = ram /\ order' = order /\ kv' = kv /\ has' = has
    BY DEF Locks, Go
<1>2. GateType' /\ stage'[s] = "guard"
    BY <1>1 DEF GateInv, GateType, Stages
<1>3. \A u \in Server \ {s} : Same(u) /\ holder' # u
    BY <1>1 DEF Same, GateInv, GateType
<1>4. ~kv[s].fits /\ has[s].vram = 0
    BY <1>1 DEF GateInv, PlannedAt
<1>5. PlannedAt(s)' /\ RoomAt(s)' /\ (stage'[s] \in Locked <=> holder' = s)
    BY <1>1, <1>2, <1>4 DEF PlannedAt, RoomAt, Locked
<1>6. QED BY <1>1, <1>2, <1>3, <1>5, HolderKeeps

LEMMA PreflightKeeps ==
    ASSUME GateInv, NEW s \in Server, Preflight(s)
    PROVE  GateInv'
<1>1. /\ stage[s] = "guard" /\ stage' = [stage EXCEPT ![s] = "plan"] /\ holder' = holder
      /\ vram' = vram /\ ram' = ram /\ order' = order /\ kv' = kv /\ has' = has
    BY DEF Preflight, Go
<1>2. GateType' /\ stage'[s] = "plan"
    BY <1>1 DEF GateInv, GateType, Stages
<1>3. holder = s
    BY <1>1 DEF GateInv, LockHeld, Locked
<1>4. \A u \in Server \ {s} : Same(u) /\ holder' # u
    BY <1>1, <1>3 DEF Same, GateInv, GateType
<1>5. ~kv[s].fits /\ has[s].vram = 0
    BY <1>1 DEF GateInv, PlannedAt
<1>6. PlannedAt(s)' /\ RoomAt(s)' /\ (stage'[s] \in Locked <=> holder' = s)
    BY <1>1, <1>2, <1>3, <1>5 DEF PlannedAt, RoomAt, Locked
<1>7. QED BY <1>2, <1>3, <1>4, <1>6, HolderKeeps

(***************************************************************************)
(* The plan is made of what is free, which nobody takes after.             *)
(***************************************************************************)
LEMMA PlansKeeps ==
    ASSUME GateInv, NEW s \in Server, Plans(s)
    PROVE  GateInv'
<1> DEFINE o == order[s]
           k == KvSplit(o)
           p == Plan(o, vram, ram)
<1>1. /\ stage[s] = "plan" /\ stage' = [stage EXCEPT ![s] = "dense"] /\ holder' = holder
      /\ kv' = [kv EXCEPT ![s] = k] /\ ~KvRefused(o)
      /\ vram' = vram /\ ram' = ram /\ order' = order /\ has' = has
    BY DEF Plans, Go
<1>2. o \in Orders /\ vram \in Nat /\ ram \in Nat /\ holder = s /\ has[s].vram = 0
    BY <1>1 DEF GateInv, GateType, LockHeld, Locked, PlannedAt
<1>3. o.kvMem \in Nat /\ o.listed \in BOOLEAN /\ p.fits \in BOOLEAN /\ p.budget \in Nat
    BY <1>2, OrderIs, PlanIs
<1>4. MaxKv(o) \in Nat /\ (o.listed /\ p.fits => MaxKv(o) = p.budget)
  <2>1. Estimate(o) \in Nat
    <3>1. (IF o.experts = 0 THEN Total(o) ELSE 0) + Reserve + Others \in Nat
        BY <1>2, OrderIs, MachineIs DEF Total
    <3>2. QED BY <1>2, <3>1 DEF Estimate, Less
  <2>2. QED BY <1>3, <2>1 DEF MaxKv
<1>5. /\ k.fits = (o.listed /\ p.fits) /\ k.vram = Lower(o.kvMem, MaxKv(o))
      /\ k.ram = o.kvMem - Lower(o.kvMem, MaxKv(o)) /\ k.seen = vram /\ k.seenRam = ram
      /\ k = [fits |-> k.fits, vram |-> k.vram, ram |-> k.ram, seen |-> k.seen, seenRam |-> k.seenRam]
    BY DEF KvSplit
<1>6. k.fits \in BOOLEAN /\ k.vram \in Nat /\ k.ram \in Nat /\ k.seen \in Nat /\ k.seenRam \in Nat
    BY <1>2, <1>3, <1>4, <1>5 DEF Lower
<1>7. k \in [fits : BOOLEAN, vram : Nat, ram : Nat, seen : Nat, seenRam : Nat]
    BY <1>5, <1>6
<1>8. k.ram <= ram
    BY <1>1, <1>2, <1>6, MachineIs DEF KvRefused
<1>9. k.fits => p.fits /\ k.vram <= p.budget
    BY <1>3, <1>4, <1>5 DEF Lower
<1> HIDE DEF k
<1>10. GateType' /\ stage'[s] = "dense" /\ kv'[s] = k
    BY <1>1, <1>7 DEF GateInv, GateType, Stages
<1>11. \A u \in Server \ {s} : Same(u) /\ holder' # u
    BY <1>1, <1>2 DEF Same, GateInv, GateType
<1>12. PlannedAt(s)'
    BY <1>1, <1>5, <1>9, <1>10 DEF PlannedAt
<1>13. RoomAt(s)'
    BY <1>1, <1>2, <1>5, <1>8, <1>10 DEF RoomAt, FreeBut
<1>14. stage'[s] \in Locked <=> holder' = s
    BY <1>1, <1>2, <1>10 DEF Locked
<1>15. QED BY <1>2, <1>10, <1>11, <1>12, <1>13, <1>14, HolderKeeps

(***************************************************************************)
(* What is taken is counted.                                               *)
(***************************************************************************)
LEMMA TakesIs ==
    ASSUME GateType, NEW s \in Server, NEW v \in Nat, NEW r \in Nat, Takes(s, v, r)
    PROVE  /\ vram' = vram - v /\ ram' = ram - r /\ vram' \in Nat /\ ram' \in Nat
           /\ has' \in [Server -> [vram : Nat, ram : Nat]]
           /\ has'[s].vram = has[s].vram + v
           /\ \A u \in Server \ {s} : has'[u] = has[u]
<1>1. /\ v <= vram /\ r <= ram /\ vram' = vram - v /\ ram' = ram - r
      /\ has' = [has EXCEPT ![s] = [vram |-> has[s].vram + v, ram |-> has[s].ram + r]]
    BY DEF Takes
<1>2. has[s].vram \in Nat /\ has[s].ram \in Nat /\ vram \in Nat /\ ram \in Nat
    BY DEF GateType
<1>3. [vram |-> has[s].vram + v, ram |-> has[s].ram + r] \in [vram : Nat, ram : Nat]
    BY <1>2
<1>4. QED BY <1>1, <1>2, <1>3 DEF GateType

LEMMA LoadsDenseKeeps ==
    ASSUME GateInv, NEW s \in Server, LoadsDense(s)
    PROVE  GateInv'
<1> DEFINE v == Layers(order[s])
<1>1. /\ stage[s] = "dense" /\ stage' = [stage EXCEPT ![s] = "experts"]
      /\ holder' = holder /\ order' = order /\ kv' = kv /\ Takes(s, v, 0)
    BY DEF LoadsDense, Go
<1>2. order[s] \in Orders /\ holder = s /\ GateType
    BY <1>1 DEF GateInv, GateType, LockHeld, Locked
<1>3. v \in Nat
    BY <1>2, OrderIs
<1> HIDE DEF v
<1>4. /\ vram' = vram - v /\ ram' = ram - 0 /\ vram' \in Nat /\ ram' \in Nat
      /\ has' \in [Server -> [vram : Nat, ram : Nat]]
      /\ \A u \in Server \ {s} : has'[u] = has[u]
    BY <1>1, <1>2, <1>3, TakesIs
<1>5. GateType' /\ stage'[s] = "experts"
    BY <1>1, <1>2, <1>4 DEF GateType, Stages
<1>6. \A u \in Server \ {s} : Same(u) /\ holder' # u
    BY <1>1, <1>2, <1>4 DEF Same, GateType
<1>7. PlannedAt(s) /\ RoomAt(s)
    BY DEF GateInv
<1>8. PlannedAt(s)'
    BY <1>1, <1>5, <1>7 DEF PlannedAt
<1>9. ASSUME kv[s].fits
      PROVE  kv'[s].ram <= ram' /\ FreeBut(s, Layers(order[s]))'
  <2>1. kv[s].ram <= ram /\ FreeBut(s, 0) /\ ram \in Nat /\ vram \in Nat /\ kv[s].seen \in Nat
      BY <1>1, <1>2, <1>7, <1>9 DEF RoomAt, Loading, GateType
  <2>2. CASE kv[s].seen <= vram + 0
    <3>1. kv'[s].seen <= vram' + v
        BY <1>1, <1>3, <1>4, <2>1, <2>2
    <3>2. QED BY <1>1, <1>4, <2>1, <3>1 DEF FreeBut, v
  <2>3. ASSUME NEW t \in Server \ {s}, stage[t] = "warm", kv[s].seen <= vram + 0 + has[t].vram,
               kv[s].seen <= vram + 0 + Reserve - State
        PROVE  FreeBut(s, Layers(order[s]))'
    <3>1. stage'[t] = "warm" /\ has'[t] = has[t] /\ has[t].vram \in Nat
        BY <1>2, <1>6, <2>3 DEF Same, GateType
    <3>2. kv'[s].seen <= vram' + v + has'[t].vram /\ kv'[s].seen <= vram' + v + Reserve - State
        BY <1>1, <1>3, <1>4, <2>1, <2>3, <3>1, MachineIs
    <3>3. QED BY <1>1, <2>3, <3>1, <3>2 DEF FreeBut, v
  <2>4. QED BY <1>1, <1>4, <2>1, <2>2, <2>3 DEF FreeBut
<1>10. RoomAt(s)'
    BY <1>1, <1>5, <1>9 DEF RoomAt
<1>11. QED BY <1>1, <1>2, <1>5, <1>6, <1>8, <1>10, HolderKeeps DEF Locked

\* A dense model has no experts to place.
LEMMA PlacesExpertsKeeps ==
    ASSUME GateInv, NEW s \in Server, PlacesExperts(s)
    PROVE  GateInv'
<1>1. PICK hot \in 0 .. Hot(order[s]) :
          /\ stage[s] = "experts" /\ stage' = [stage EXCEPT ![s] = "rest"]
          /\ holder' = holder /\ order' = order /\ kv' = kv /\ Takes(s, hot, 0)
    BY DEF PlacesExperts, Go
<1>2. order[s] \in Orders /\ holder = s /\ GateType
    BY <1>1 DEF GateInv, GateType, LockHeld, Locked
<1>3. hot \in Nat /\ (order[s].experts = 0 => hot = 0)
  <2>1. Hot(order[s]) \in Int /\ (order[s].experts = 0 => Hot(order[s]) = 0)
      BY <1>2, OrderIs, MachineIs DEF Hot, Lower, Less, GateType
  <2>2. QED BY <2>1
<1>4. /\ vram' = vram - hot /\ ram' = ram - 0 /\ vram' \in Nat /\ ram' \in Nat
      /\ has' \in [Server -> [vram : Nat, ram : Nat]]
      /\ \A u \in Server \ {s} : has'[u] = has[u]
    BY <1>1, <1>2, <1>3, TakesIs
<1>5. GateType' /\ stage'[s] = "rest"
    BY <1>1, <1>2, <1>4 DEF GateType, Stages
<1>6. \A u \in Server \ {s} : Same(u) /\ holder' # u
    BY <1>1, <1>2, <1>4 DEF Same, GateType
<1>7. PlannedAt(s) /\ RoomAt(s)
    BY DEF GateInv
<1>8. PlannedAt(s)'
    BY <1>1, <1>5, <1>7 DEF PlannedAt
<1>9. ASSUME kv[s].fits
      PROVE  /\ kv'[s].ram <= ram'
             /\ order[s].experts = 0 => FreeBut(s, Layers(order[s]))'
  <2>1. kv[s].ram <= ram /\ ram \in Nat /\ vram \in Nat
        /\ (order[s].experts = 0 => FreeBut(s, Layers(order[s])))
      BY <1>1, <1>2, <1>7, <1>9 DEF RoomAt, Loading, GateType
  <2>2. ASSUME order[s].experts = 0
        PROVE  FreeBut(s, Layers(order[s]))'
    <3>1. vram' = vram
        BY <1>3, <1>4, <2>1, <2>2
    <3>2. \A t \in Server \ {s} : stage'[t] = stage[t] /\ has'[t] = has[t]
        BY <1>6 DEF Same
    <3>3. QED BY <1>1, <2>1, <2>2, <3>1, <3>2 DEF FreeBut
  <2>3. QED BY <1>1, <1>4, <2>1, <2>2
<1>10. RoomAt(s)'
    BY <1>1, <1>5, <1>9 DEF RoomAt
<1>11. QED BY <1>1, <1>2, <1>5, <1>6, <1>8, <1>10, HolderKeeps DEF Locked

LEMMA LoadsRestKeeps ==
    ASSUME GateInv, NEW s \in Server, LoadsRest(s)
    PROVE  GateInv'
<1>1. /\ stage[s] = "rest" /\ stage' = [stage EXCEPT ![s] = "up"] /\ holder' = Nobody
      /\ order' = order /\ kv' = kv /\ Takes(s, Resting(s), kv[s].ram)
    BY DEF LoadsRest, Go
<1>2. order[s] \in Orders /\ holder = s /\ GateType
    BY <1>1 DEF GateInv, GateType, LockHeld, Locked
<1>3. Resting(s) \in Nat /\ kv[s].ram \in Nat
  <2>1. order[s].head \in Nat /\ OnCard(order[s]) \in Nat /\ kv[s].vram \in Nat /\ kv[s].ram \in Nat
      BY <1>2, OrderIs DEF GateType
  <2>2. Contexts * State \in Nat
      BY MachineIs
  <2>3. QED BY <2>1, <2>2 DEF Resting
<1>4. /\ vram' \in Nat /\ ram' \in Nat /\ has' \in [Server -> [vram : Nat, ram : Nat]]
      /\ \A u \in Server \ {s} : has'[u] = has[u]
    BY <1>1, <1>2, <1>3, TakesIs
<1>5. GateType' /\ stage'[s] = "up"
    BY <1>1, <1>2, <1>4 DEF GateType, Stages
<1>6. \A u \in Server \ {s} : Same(u) /\ holder' # u
    BY <1>1, <1>2, <1>4, TwoServers DEF Same, GateType
<1>7. PlannedAt(s)
    BY DEF GateInv
<1>8. PlannedAt(s)' /\ RoomAt(s)'
    BY <1>1, <1>5, <1>7 DEF PlannedAt, RoomAt, Loading
<1>9. stage'[s] \in Locked <=> holder' = s
    BY <1>1, <1>5, TwoServers DEF Locked
<1>10. QED BY <1>2, <1>5, <1>6, <1>8, <1>9, HolderKeeps

(***************************************************************************)
(* Working buffers come out of the reserve, and only one server besides    *)
(* the one that loads can take them.                                       *)
(***************************************************************************)
LEMMA WarmsUpKeeps ==
    ASSUME GateInv, NEW s \in Server, WarmsUp(s)
    PROVE  GateInv'
<1>1. PICK w \in 1 .. Reserve - State :
          /\ stage[s] = "up" /\ stage' = [stage EXCEPT ![s] = "warm"]
          /\ holder' = holder /\ order' = order /\ kv' = kv /\ Takes(s, w, 0)
    BY DEF WarmsUp, Go
<1>2. GateType /\ w \in Nat /\ w <= Reserve - State
    BY MachineIs DEF GateInv
<1>3. /\ vram' = vram - w /\ ram' = ram - 0 /\ vram' \in Nat /\ ram' \in Nat
      /\ has' \in [Server -> [vram : Nat, ram : Nat]]
      /\ has'[s].vram = has[s].vram + w
      /\ \A u \in Server \ {s} : has'[u] = has[u]
    BY <1>1, <1>2, TakesIs
<1>4. GateType' /\ stage'[s] = "warm"
    BY <1>1, <1>2, <1>3 DEF GateType, Stages
<1>5. \A u \in Server \ {s} : Same(u) /\ (holder' = u <=> holder = u)
    BY <1>1, <1>2, <1>3 DEF Same, GateType
<1>6. PlannedAt(s) /\ holder # s
    BY <1>1 DEF GateInv, LockHeld, Locked
<1>7. PlannedAt(s)' /\ RoomAt(s)' /\ (stage'[s] \in Locked <=> holder' = s)
    BY <1>1, <1>4, <1>6 DEF PlannedAt, RoomAt, Loading, Locked
<1>8. ASSUME NEW u \in Server \ {s}, NEW x \in Nat, stage[u] \in Loading, FreeBut(u, x)
      PROVE  FreeBut(u, x)'
  <2>1. kv[u].seen \in Nat /\ vram \in Nat /\ has[s].vram \in Nat /\ kv'[u] = kv[u]
      BY <1>1, <1>2 DEF GateType
  <2>2. CASE kv[u].seen <= vram + x
    <3>1. /\ kv'[u].seen <= vram' + x + has'[s].vram
          /\ kv'[u].seen <= vram' + x + Reserve - State
        BY <1>2, <1>3, <2>1, <2>2, MachineIs
    <3>2. QED BY <1>4, <3>1 DEF FreeBut
  <2>3. ASSUME NEW t \in Server \ {u}, stage[t] = "warm" PROVE FALSE
    <3>1. t = s
        BY <2>3, NoThird
    <3>2. QED BY <1>1, <2>3, <3>1
  <2>4. QED BY <1>8, <2>2, <2>3 DEF FreeBut
<1>9. \A u \in Server \ {s} : kv[u].ram <= ram => kv[u].ram <= ram'
    BY <1>2, <1>3 DEF GateType
<1>10. QED BY <1>4, <1>5, <1>7, <1>8, <1>9, OnlyItsOwn

LEMMA GateInvStep == GateInv /\ [GateNext]_gateVars => GateInv'
<1> SUFFICES ASSUME GateInv, [GateNext]_gateVars PROVE GateInv'
    OBVIOUS
<1>1. CASE UNCHANGED gateVars
  <2>1. /\ vram' = vram /\ ram' = ram /\ holder' = holder /\ stage' = stage
        /\ order' = order /\ kv' = kv /\ has' = has
      BY <1>1 DEF gateVars
  <2>2. GateType' /\ LockHeld'
      BY <2>1 DEF GateInv, GateType, LockHeld
  <2>3. \A s \in Server : PlannedAt(s)' /\ RoomAt(s)'
      BY <2>1 DEF GateInv, PlannedAt, RoomAt, FreeBut
  <2>4. QED BY <2>2, <2>3 DEF GateInv
<1>2. ASSUME NEW s \in Server,
             TimesOut(s) \/ PreflightFails(s) \/ PlanRefuses(s) \/ OutOfMemory(s) \/ Exit(s)
      PROVE  GateInv'
    BY <1>2, ExitKeeps DEF TimesOut, PreflightFails, PlanRefuses, OutOfMemory
<1>3. QED BY <1>1, <1>2, StartKeeps, LocksKeeps, PreflightKeeps, PlansKeeps, LoadsDenseKeeps,
             PlacesExpertsKeeps, LoadsRestKeeps, WarmsUpKeeps DEF GateNext

LEMMA GateInvariant == GateSpec => []GateInv
<1>1. QED BY GateInvInit, GateInvStep, PTL DEF GateSpec

(***************************************************************************)
(* A plan that does not refuse gives no byte of the card away twice (plan  *)
(* of plan.rs), with any model, any machine and any reserve.               *)
(***************************************************************************)
THEOREM NothingSpentTwice == GateSpec => []PlanSpendsOnce
<1>1. GateInv => PlanSpendsOnce
  <2> SUFFICES ASSUME GateInv, NEW s \in Server, kv[s].fits
               PROVE  LET o == order[s]
                          p == Plan(o, kv[s].seen, kv[s].seenRam)
                      IN  /\ o.dense + OnCard(o) + Reserve + Others + p.ctx + p.hot
                                + (IF p.rows = "vram" THEN o.rows ELSE 0) <= kv[s].seen
                          /\ p.experts = "vram" <=> p.hot = o.experts
                          /\ p.experts = "host" => p.ramNeed + p.kvRam = kv[s].seenRam
      BY DEF PlanSpendsOnce
  <2> DEFINE o == order[s]
             p == Plan(o, kv[s].seen, kv[s].seenRam)
             r == IF p.rows = "vram" THEN o.rows ELSE 0
  <2>1. /\ p.fits /\ kv[s].seen \in Nat /\ kv[s].seenRam \in Nat
        /\ stage[s] # "off" /\ o \in Orders
      BY DEF GateInv, GateType, PlannedAt
  <2>2. /\ p.budget \in Nat /\ p.ctx \in Nat /\ p.hot \in Nat
        /\ o.dense + OnCard(o) + Reserve + Others + p.budget = kv[s].seen
        /\ p.ctx + p.hot + r <= p.budget
        /\ p.experts = "vram" <=> p.hot = o.experts
        /\ p.experts = "host" => p.ramNeed + p.kvRam = kv[s].seenRam
      BY <2>1, PlanIs
  <2>3. o.dense \in Nat /\ OnCard(o) \in Nat /\ o.rows \in Nat /\ r \in Nat
      BY <2>1, OrderIs
  <2> HIDE DEF p, r, o
  <2>4. o.dense + OnCard(o) + Reserve + Others + p.ctx + p.hot + r <= kv[s].seen
      BY <2>1, <2>2, <2>3, MachineIs
  <2>5. QED BY <2>2, <2>4 DEF p, r, o
<1>2. QED BY <1>1, GateInvariant, PTL

(***************************************************************************)
(* What a start was told fits does fit when it is loaded (cmd_serve under  *)
(* acquire_load_lock of resource.rs), with any models and any machine, and *)
(* whatever a second server on the card does meanwhile.                    *)
(***************************************************************************)
THEOREM ToldFitsFits == GateSpec => []PassedFits
<1>1. GateInv => PassedFits
  <2> SUFFICES ASSUME GateInv, NEW s \in Server, kv[s].fits
               PROVE  /\ stage[s] = "dense" =>
                            /\ Layers(order[s]) <= vram
                            /\ order[s].experts = 0 => Layers(order[s]) + Resting(s) <= vram
                      /\ stage[s] = "rest" /\ order[s].experts = 0 => Resting(s) <= vram
                      /\ stage[s] \in {"dense", "experts", "rest"} => kv[s].ram <= ram
      BY DEF PassedFits
  <2> DEFINE o == order[s]
             b == Plan(o, kv[s].seen, kv[s].seenRam).budget
             l == Layers(o)
  <2>1. /\ Plan(o, kv[s].seen, kv[s].seenRam).fits /\ kv[s].seen \in Nat /\ kv[s].seenRam \in Nat
        /\ o \in Orders /\ vram \in Nat /\ kv[s].vram \in Nat /\ kv[s].vram <= b
      BY DEF GateInv, GateType, PlannedAt
  <2>2. b \in Nat /\ o.dense + OnCard(o) + Reserve + Others + b = kv[s].seen
      BY <2>1, PlanIs
  <2>3. o.head \in Nat /\ o.dense \in Nat /\ OnCard(o) \in Nat /\ l \in Nat /\ l + o.head = o.dense
      BY <2>1, OrderIs
  <2>4. Resting(s) = o.head + OnCard(o) + (Others + State) + kv[s].vram
      BY MachineIs DEF Resting
  <2> HIDE DEF b, l, o
  <2>5. l + Resting(s) <= kv[s].seen - Reserve + State /\ Resting(s) \in Nat
      BY <2>1, <2>2, <2>3, <2>4, MachineIs
  <2>6. ASSUME NEW x \in Nat, FreeBut(s, x)
        PROVE  l + Resting(s) <= vram + x
    <3>1. kv[s].seen <= vram + x \/ kv[s].seen <= vram + x + Reserve - State
        BY <2>6 DEF FreeBut
    <3>2. QED BY <2>1, <2>3, <2>5, <3>1, MachineIs
  <2>7. stage[s] = "dense" => l <= vram /\ l + Resting(s) <= vram
    <3>1. stage[s] = "dense" => FreeBut(s, 0)
        BY DEF GateInv, RoomAt, Loading
    <3>2. stage[s] = "dense" => l + Resting(s) <= vram + 0
        BY <2>6, <3>1
    <3>3. QED BY <2>1, <2>3, <2>5, <3>2
  <2>8. stage[s] = "rest" /\ o.experts = 0 => Resting(s) <= vram
    <3>1. stage[s] = "rest" /\ o.experts = 0 => FreeBut(s, l)
        BY DEF GateInv, RoomAt, Loading, l, o
    <3>2. stage[s] = "rest" /\ o.experts = 0 => l + Resting(s) <= vram + l
        BY <2>3, <2>6, <3>1
    <3>3. QED BY <2>1, <2>3, <2>5, <3>2
  <2>9. stage[s] \in {"dense", "experts", "rest"} => kv[s].ram <= ram
      BY DEF GateInv, RoomAt, Loading
  <2>10. QED BY <2>7, <2>8, <2>9 DEF l, o
<1>2. QED BY <1>1, GateInvariant, PTL

-----------------------------------------------------------------------------
(***************************************************************************)
(* Repack.  Rows of k: where row r, column j is, and how a scale is found  *)
(* among those that stand for Rep of the groups.                           *)
(***************************************************************************)
LEMMA RowAndColumn ==
    ASSUME NEW k \in Nat \ {0}, NEW r \in Nat, NEW j \in 0 .. k - 1
    PROVE  /\ r * k + j \in Nat /\ (r * k + j) \div k = r /\ (r * k + j) % k = j
           /\ \A n \in Nat : r < n => r * k + j \in 0 .. n * k - 1
<1> DEFINE d == r * k + j
           q == d \div k
<1>1. r * k \in Nat /\ d \in Nat
    OBVIOUS
<1>2. q \in Int /\ d = k * q + (d % k) /\ d % k \in 0 .. k - 1
  <2>1. d \in Int
      BY <1>1
  <2> HIDE DEF d
  <2>2. QED BY <2>1, Euclid
<1>3. \A x \in Int : x <= q <=> x * k <= d
    BY <1>1, QuotientReaches
<1> HIDE DEF q
<1>4. r <= q
    BY <1>1, <1>3
<1>5. ~(r + 1 <= q)
  <2>1. ~((r + 1) * k <= d)
      BY <1>1
  <2>2. QED BY <1>3, <2>1
<1>6. q = r
    BY <1>2, <1>4, <1>5
<1>7. d % k = j
    BY <1>1, <1>2, <1>6
<1>8. ASSUME NEW n \in Nat, r < n
      PROVE  d \in 0 .. n * k - 1
  <2>1. PICK e \in Nat : n = r + 1 + e
    <3>1. n - r - 1 \in Nat /\ n = r + 1 + (n - r - 1)
        BY <1>8
    <3>2. QED BY <3>1
  <2>2. n * k = r * k + k + e * k /\ e * k \in Nat
      BY <2>1
  <2>3. QED BY <1>1, <2>2
<1>9. QED BY <1>1, <1>6, <1>7, <1>8 DEF q

LEMMA QuotientTwice ==
    ASSUME NEW a \in Int, NEW b \in Nat \ {0}, NEW c \in Nat \ {0}
    PROVE  (a \div b) \div c = a \div (b * c)
<1> DEFINE p == a \div b
           q == p \div c
           t == a \div (b * c)
<1>1. b * c \in Nat \ {0} /\ b * c > 0
    OBVIOUS
<1>2. p \in Int /\ q \in Int /\ t \in Int
    BY <1>1, QuotientReaches
<1>3. \A x \in Int : x <= p <=> x * b <= a
    BY QuotientReaches
<1>4. \A x \in Int : x <= t <=> x * (b * c) <= a
    BY <1>1, QuotientReaches
<1> HIDE DEF p, t
<1>5. \A x \in Int : x <= q <=> x * c <= p
    BY <1>2, QuotientReaches
<1> HIDE DEF q
<1>6. ASSUME NEW x \in Int
      PROVE  x <= q <=> x <= t
  <2>1. x * c \in Int /\ (x * c) * b = x * (b * c)
      OBVIOUS
  <2>2. x <= q <=> (x * c) * b <= a
      BY <1>3, <1>5, <2>1
  <2>3. QED BY <1>4, <2>1, <2>2
<1>7. q = t
  <2>1. q <= t /\ t <= q
      BY <1>2, <1>6
  <2>2. QED BY <1>2, <2>1
<1>8. QED BY <1>7 DEF p, q, t

\* The output has Rep scales where the source has one.
LEMMA ScaleGroups ==
    ASSUME NEW kw \in Nat, kw % GroupWords = 0
    PROVE  /\ GroupWords \in Nat \ {0} /\ OutGroupWords \in Nat \ {0} /\ Rep \in Nat \ {0}
           /\ GroupWords = OutGroupWords * Rep
           /\ kw \div GroupWords \in Nat
           /\ kw \div OutGroupWords = (kw \div GroupWords) * Rep
           /\ kw = OutGroupWords * (kw \div OutGroupWords)
<1> DEFINE G == GroupWords
           O == OutGroupWords
           a == kw \div G
           m == Rep
<1>1. G \in Nat \ {0} /\ O \in Nat \ {0} /\ G % O = 0
    BY RepackAssumption
<1>2. m \in Int /\ G = O * m
    BY <1>1 DEF Rep
<1> HIDE DEF m
<1>3. m \in Nat \ {0}
  <2>1. ~(m <= 0)
    <3>1. m <= 0 => O * m <= 0
        BY <1>1, <1>2
    <3>2. QED BY <1>1, <1>2, <3>1
  <2>2. QED BY <1>2, <2>1
<1>4. a \in Nat /\ kw = G * a
    BY <1>1
<1> HIDE DEF a
<1>5. kw = (a * m) * O + 0 /\ a * m \in Nat
    BY <1>1, <1>2, <1>3, <1>4
<1>6. kw \div O = a * m
  <2> DEFINE w == a * m
  <2>1. w \in Nat /\ 0 \in 0 .. O - 1
      BY <1>1, <1>5
  <2> HIDE DEF w
  <2>2. (w * O + 0) \div O = w
      BY <1>1, <2>1, RowAndColumn
  <2>3. QED BY <1>5, <2>2 DEF w
<1>7. kw = O * (kw \div O)
    BY <1>1, <1>3, <1>4, <1>5, <1>6
<1>8. QED BY <1>1, <1>2, <1>3, <1>4, <1>6, <1>7 DEF a, m

\* Word for word and scale for scale, the output is the source.
LEMMA WeightsAre ==
    ASSUME NEW b \in Proj, NEW r \in 0 .. Shape[b].n - 1, NEW j \in 0 .. Shape[b].kw - 1
    PROVE  /\ Packed(b)[r * Shape[b].kw + j] = QWeight(b)[j * Shape[b].n + r]
           /\ Scale(b)[r * (Shape[b].kw \div OutGroupWords) + j \div OutGroupWords]
                = Scales(b)[(j \div GroupWords) * Shape[b].n + r]
<1> DEFINE n == Shape[b].n
           kw == Shape[b].kw
           G == GroupWords
           O == OutGroupWords
           m == Rep
           kg == kw \div G
           ko == kw \div O
           jo == j \div O
           d == r * kw + j
           e == r * ko + jo
<1>1. n \in Nat \ {0} /\ kw \in Nat \ {0} /\ kw % G = 0 /\ r \in Nat /\ j \in 0 .. kw - 1
    BY RepackAssumption
<1>2. /\ G \in Nat \ {0} /\ O \in Nat \ {0} /\ m \in Nat \ {0} /\ G = O * m
      /\ kg \in Nat /\ ko = kg * m /\ kw = O * ko
    BY <1>1, ScaleGroups
<1>3. jo \in Nat /\ jo < ko /\ jo \div m = j \div G
  <2>1. jo \in Int /\ \A x \in Int : x <= jo <=> x * O <= j
    <3>1. j \in Int
        BY <1>1
    <3>2. QED BY <1>2, <3>1, QuotientReaches
  <2>2. jo \div m = j \div (O * m)
      BY <1>1, <1>2, QuotientTwice
  <2> HIDE DEF jo, ko, kg, m
  <2>3. 0 <= jo
      BY <1>1, <1>2, <2>1
  <2>4. ko \in Nat
      BY <1>2
  <2>5. ~(ko <= jo)
    <3>1. ko * O = kw
        BY <1>2, <2>4
    <3>2. QED BY <1>1, <2>1, <2>4, <3>1
  <2>6. QED BY <1>2, <2>1, <2>2, <2>3, <2>4, <2>5
<1>4. Packed(b)[d] = QWeight(b)[j * n + r]
  <2>1. d \in 0 .. n * kw - 1 /\ d \div kw = r /\ d % kw = j
    <3>1. n \in Nat /\ r < n
        BY <1>1
    <3> HIDE DEF G, O, m, kg, ko, jo, d, e, n, kw
    <3>2. d \div kw = r /\ d % kw = j /\ \A x \in Nat : r < x => d \in 0 .. x * kw - 1
      <4>1. kw \in Nat \ {0} /\ r \in Nat /\ j \in 0 .. kw - 1
          BY <1>1
      <4>2. /\ (r * kw + j) \div kw = r /\ (r * kw + j) % kw = j
            /\ \A x \in Nat : r < x => r * kw + j \in 0 .. x * kw - 1
          BY <4>1, RowAndColumn, Zenon
      <4>3. QED BY <4>2, Zenon DEF d
    <3>3. QED BY <3>1, <3>2
  <2> HIDE DEF d, n, kw
  <2>2. Packed(b) = [x \in 0 .. n * kw - 1 |-> QWeight(b)[(x % kw) * n + x \div kw]]
      BY DEF Packed, n, kw
  <2>3. QED BY <2>1, <2>2
<1>5. Scale(b)[e] = Scales(b)[(j \div G) * n + r]
  <2>1. ko \in Nat \ {0} /\ jo \in 0 .. ko - 1
    <3> HIDE DEF jo, ko, kg, m
    <3>1. QED BY <1>2, <1>3
  <2>2. e \in 0 .. n * ko - 1 /\ e \div ko = r /\ e % ko = jo
    <3>1. n \in Nat /\ r < n
        BY <1>1
    <3> HIDE DEF G, O, m, kg, ko, jo, d, e, n, kw
    <3>2. e \div ko = r /\ e % ko = jo /\ \A x \in Nat : r < x => e \in 0 .. x * ko - 1
      <4>1. ko \in Nat \ {0} /\ r \in Nat /\ jo \in 0 .. ko - 1
          BY <1>1, <2>1
      <4>2. /\ (r * ko + jo) \div ko = r /\ (r * ko + jo) % ko = jo
            /\ \A x \in Nat : r < x => r * ko + jo \in 0 .. x * ko - 1
          BY <4>1, RowAndColumn, Zenon
      <4>3. QED BY <4>2, Zenon DEF e
    <3>3. QED BY <3>1, <3>2
  <2> HIDE DEF e, n, kw
  <2>3. Scale(b) = [x \in 0 .. n * (kg * m) - 1 |-> Scales(b)[((x % (kg * m)) \div m) * n + x \div (kg * m)]]
      BY DEF Scale, n, kw
  <2> HIDE DEF kg, m, ko, jo
  <2>4. Scale(b) = [x \in 0 .. n * ko - 1 |-> Scales(b)[((x % ko) \div m) * n + x \div ko]]
      BY <1>2, <2>3
  <2>5. QED BY <1>3, <2>2, <2>4
<1>6. QED BY <1>4, <1>5

-----------------------------------------------------------------------------
(***************************************************************************)
(* What a file is to hold: the tensors of its home, in their order.        *)
(***************************************************************************)
UpToIs(f, n, u) == u = [k \in 0 .. n |->
    IF k = 0 THEN <<>>
    ELSE IF source.home[NameOrder[k]] = f THEN Append(u[k - 1], NameOrder[k])
    ELSE u[k - 1]]

LEMMA UpToIsThere ==
    ASSUME NEW f, NEW n \in Nat
    PROVE  \E u : UpToIs(f, n, u)
<1> DEFINE Bad == {k \in 0 .. n : ~ \E u : UpToIs(f, k, u)}
<1> SUFFICES ASSUME Bad # {} PROVE FALSE
    OBVIOUS
<1>1. Bad \in SUBSET Nat
    OBVIOUS
<1>2. PICK m \in Bad : \A k \in Bad : m <= k
  <2> HIDE DEF Bad
  <2>1. QED BY <1>1, MinOfNats
<1>3. CASE m = 0
  <2> DEFINE u == [k \in 0 .. 0 |-> <<>>]
  <2>1. UpToIs(f, 0, u)
      BY DEF UpToIs
  <2>2. QED BY <1>2, <1>3, <2>1
<1>4. CASE m # 0
  <2>1. m \in 1 .. n /\ m - 1 \in 0 .. n
      BY <1>2, <1>4
  <2>2. PICK v : UpToIs(f, m - 1, v)
      BY <1>2, <2>1
  <2> DEFINE u == [k \in 0 .. m |-> IF k < m THEN v[k] ELSE
                      IF source.home[NameOrder[m]] = f THEN Append(v[m - 1], NameOrder[m])
                      ELSE v[m - 1]]
  <2>3. \A k \in 0 .. m - 1 : u[k] = v[k]
      BY <2>1
  <2>4. ASSUME NEW k \in 0 .. m
        PROVE  u[k] = IF k = 0 THEN <<>>
                      ELSE IF source.home[NameOrder[k]] = f THEN Append(u[k - 1], NameOrder[k])
                      ELSE u[k - 1]
    <3>1. CASE k = m
        BY <2>1, <2>3, <3>1
    <3>2. CASE k # m
      <4>1. k \in 0 .. m - 1 /\ (k # 0 => k - 1 \in 0 .. m - 1)
          BY <2>1, <3>2
      <4>2. v[k] = IF k = 0 THEN <<>>
                   ELSE IF source.home[NameOrder[k]] = f THEN Append(v[k - 1], NameOrder[k])
                   ELSE v[k - 1]
          BY <2>2, <4>1 DEF UpToIs
      <4> HIDE DEF u
      <4>3. QED BY <2>3, <4>1, <4>2
    <3>3. QED BY <3>1, <3>2
  <2>5. UpToIs(f, m, u)
    <3>1. DOMAIN u = 0 .. m /\ u = [k \in 0 .. m |-> u[k]]
        OBVIOUS
    <3> HIDE DEF u
    <3>2. QED BY <2>4, <3>1 DEF UpToIs
  <2>6. QED BY <1>2, <2>5
<1>5. QED BY <1>3, <1>4

LEMMA InFileIs ==
    ASSUME NEW f
    PROVE  /\ InFile(f) \in Seq(SourceTensor)
           /\ \A t \in SourceTensor : source.home[t] = f =>
                 \E i \in 1 .. Len(InFile(f)) : InFile(f)[i] = t
<1> DEFINE n == Len(NameOrder)
           U == CHOOSE u : UpToIs(f, n, u)
           Holds(k) == /\ U[k] \in Seq(SourceTensor)
                       /\ \A j \in 1 .. k : source.home[NameOrder[j]] = f =>
                             \E i \in 1 .. Len(U[k]) : U[k][i] = NameOrder[j]
           Bad == {k \in 0 .. n : ~Holds(k)}
<1>1. NameOrder \in Seq(SourceTensor) /\ n \in Nat /\ \A k \in 1 .. n : NameOrder[k] \in SourceTensor
    BY RepackAssumption
<1>2. UpToIs(f, n, U)
    BY <1>1, UpToIsThere
<1>3. InFile(f) = U[n]
    BY DEF InFile, UpToIs
<1> HIDE DEF U, n
<1>4. \A k \in 0 .. n : U[k] = IF k = 0 THEN <<>>
                             ELSE IF source.home[NameOrder[k]] = f THEN Append(U[k - 1], NameOrder[k])
                             ELSE U[k - 1]
    BY <1>2 DEF UpToIs
<1>5. \A k \in 0 .. n : Holds(k)
  <2> SUFFICES ASSUME Bad # {} PROVE FALSE
      OBVIOUS
  <2>1. Bad \in SUBSET Nat
      BY <1>1
  <2>2. PICK m \in Bad : \A k \in Bad : m <= k
    <3> HIDE DEF Bad
    <3>1. QED BY <2>1, MinOfNats
  <2>3. m \in 0 .. n /\ ~Holds(m)
      BY <2>2
  <2>4. m # 0
    <3>1. CASE m = 0
      <4>1. U[0] = <<>>
          BY <1>4, <2>3, <3>1
      <4>2. Holds(0)
          BY <4>1
      <4>3. QED BY <2>3, <3>1, <4>2
    <3>2. QED BY <3>1
  <2>5. m - 1 \in 0 .. n /\ m \in 1 .. n /\ m - 1 < m
      BY <1>1, <2>3, <2>4
  <2>6. m - 1 \notin Bad
    <3> HIDE DEF Bad
    <3>1. QED BY <1>1, <2>1, <2>2, <2>5
  <2>7. Holds(m - 1)
      BY <2>5, <2>6
  <2> DEFINE a == U[m - 1]
             x == NameOrder[m]
  <2>8. /\ a \in Seq(SourceTensor) /\ x \in SourceTensor
        /\ \A j \in 1 .. m - 1 : source.home[NameOrder[j]] = f => \E i \in 1 .. Len(a) : a[i] = NameOrder[j]
        /\ U[m] = IF source.home[x] = f THEN Append(a, x) ELSE a
      BY <1>1, <1>4, <2>4, <2>5, <2>7
  <2>9. \A j \in 1 .. m : j \in 1 .. m - 1 \/ j = m
      BY <2>5
  <2> HIDE DEF a
  <2>10. CASE source.home[x] # f
      BY <2>3, <2>8, <2>9, <2>10
  <2>11. CASE source.home[x] = f
    <3> DEFINE c == Append(a, x)
    <3>1. /\ c \in Seq(SourceTensor) /\ Len(c) = Len(a) + 1 /\ c[Len(a) + 1] = x
          /\ \A i \in 1 .. Len(a) : c[i] = a[i]
        BY <2>8, AppendProperties
    <3>2. Len(a) \in Nat /\ U[m] = c
        BY <2>8, <2>11
    <3> HIDE DEF c
    <3>3. \A i \in 1 .. Len(a) : i \in 1 .. Len(c)
        BY <3>1, <3>2
    <3>4. Len(a) + 1 \in 1 .. Len(c)
        BY <3>1, <3>2
    <3>5. ASSUME NEW j \in 1 .. m, source.home[NameOrder[j]] = f
          PROVE  \E i \in 1 .. Len(c) : c[i] = NameOrder[j]
      <4>1. CASE j = m
          BY <3>1, <3>4, <4>1
      <4>2. CASE j \in 1 .. m - 1
          BY <2>8, <3>1, <3>3, <3>5, <4>2
      <4>3. QED BY <2>9, <4>1, <4>2
    <3>6. QED BY <2>3, <3>1, <3>2, <3>5
  <2>12. QED BY <2>10, <2>11
<1>6. n \in 0 .. n
    BY <1>1
<1>7. Holds(n)
    BY <1>5, <1>6
<1>8. ASSUME NEW t \in SourceTensor, source.home[t] = f
      PROVE  \E i \in 1 .. Len(U[n]) : U[n][i] = t
  <2>1. PICK j \in 1 .. n : NameOrder[j] = t
    <3>1. t \in ToSet(NameOrder)
        BY RepackAssumption
    <3>2. \E j \in DOMAIN NameOrder : NameOrder[j] = t
        BY <3>1 DEF ToSet
    <3>3. DOMAIN NameOrder = 1 .. n
        BY <1>1 DEF n
    <3>4. QED BY <3>2, <3>3
  <2>2. QED BY <1>7, <1>8, <2>1
<1>9. QED BY <1>3, <1>7, <1>8

-----------------------------------------------------------------------------
OutTensor == SourceTensor \cup (Proj \X {"packed", "scale", "shape"})

LEMMA OutsAre ==
    ASSUME NEW t \in SourceTensor
    PROVE  /\ Outs(t) \in Seq(OutTensor)
           /\ t[2] = "qweight" => 1 \in 1 .. Len(Outs(t)) /\ Outs(t)[1] = <<t[1], "packed">>
<1>1. CASE t[2] = "qweight"
  <2>1. t[1] \in Proj
      BY <1>1 DEF SourceTensor
  <2> DEFINE o == [i \in 1 .. 3 |-> <<t[1], <<"packed", "scale", "shape">>[i]>>]
  <2>2. Outs(t) = o
      BY <1>1 DEF Outs
  <2>3. \A i \in 1 .. 3 : o[i] \in OutTensor
    <3>1. \A i \in 1 .. 3 : i = 1 \/ i = 2 \/ i = 3
        OBVIOUS
    <3>2. o[1] \in OutTensor /\ o[2] \in OutTensor /\ o[3] \in OutTensor
        BY <2>1 DEF OutTensor
    <3>3. QED BY <3>1, <3>2
  <2>4. o[1] = <<t[1], "packed">>
      OBVIOUS
  <2>5. o \in [1 .. 3 -> OutTensor]
      BY <2>3
  <2> HIDE DEF o
  <2>6. o \in Seq(OutTensor) /\ Len(o) = 3
    <3>1. o \in Seq(OutTensor)
      <4>1. 3 \in Nat
          OBVIOUS
      <4>2. QED BY <2>5, <4>1, SeqDef
    <3>2. DOMAIN o = 1 .. 3
        BY <2>5
    <3>3. DOMAIN o = 1 .. Len(o) /\ Len(o) \in Nat
        BY <3>1, LenProperties
    <3>4. QED BY <3>1, <3>2, <3>3
  <2>7. QED BY <2>2, <2>4, <2>6
<1>2. CASE t[2] \in {"qzeros", "scales"}
    BY <1>2 DEF Outs
<1>3. CASE t[2] \notin {"qweight", "qzeros", "scales"}
  <2>1. Outs(t) = <<t>> /\ t \in OutTensor
      BY <1>3 DEF Outs, OutTensor
  <2>2. QED BY <1>3, <2>1
<1>4. QED BY <1>1, <1>2, <1>3

LEMMA PlannedIs ==
    ASSUME NEW f
    PROVE  /\ Planned(f) \in Seq(OutTensor)
           /\ \A b \in Proj : f \in ModelFile /\ source.home[<<b, "qweight">>] = f =>
                 \E i \in 1 .. Len(Planned(f)) : Planned(f)[i] = <<b, "packed">>
           /\ InFile(f) = <<>> => Planned(f) = <<>>
<1> DEFINE q == InFile(f)
           ss == [i \in DOMAIN q |-> Outs(q[i])]
<1>1. /\ q \in Seq(SourceTensor)
      /\ \A t \in SourceTensor : source.home[t] = f => \E i \in 1 .. Len(q) : q[i] = t
    BY InFileIs
<1> HIDE DEF q
<1>2. Len(q) \in Nat /\ DOMAIN q = 1 .. Len(q) /\ \A i \in 1 .. Len(q) : q[i] \in SourceTensor
    BY <1>1
<1>3. ss \in Seq(Seq(OutTensor)) /\ Len(ss) = Len(q) /\ \A i \in 1 .. Len(q) : ss[i] = Outs(q[i])
  <2>1. \A i \in 1 .. Len(q) : ss[i] = Outs(q[i]) /\ Outs(q[i]) \in Seq(OutTensor)
      BY <1>2, OutsAre
  <2>2. ss \in [1 .. Len(q) -> Seq(OutTensor)]
      BY <1>2, <2>1
  <2> HIDE DEF ss
  <2>3. QED BY <1>2, <2>1, <2>2
<1>4. f \in ModelFile => Planned(f) = FlattenSeq(ss)
    BY DEF Planned, q
<1>5. f \notin ModelFile => Planned(f) = q
    BY DEF Planned, q
<1> HIDE DEF ss
<1>6. /\ FlattenSeq(ss) \in Seq(OutTensor)
      /\ \A j \in 1 .. Len(ss) : \A l \in 1 .. Len(ss[j]) :
            \E i \in 1 .. Len(FlattenSeq(ss)) : FlattenSeq(ss)[i] = ss[j][l]
    BY <1>3, FlattenHas
<1>7. Planned(f) \in Seq(OutTensor)
  <2>1. q \in Seq(OutTensor)
      BY <1>1 DEF OutTensor
  <2>2. QED BY <1>4, <1>5, <1>6, <2>1
<1>8. ASSUME NEW b \in Proj, f \in ModelFile, source.home[<<b, "qweight">>] = f
      PROVE  \E i \in 1 .. Len(Planned(f)) : Planned(f)[i] = <<b, "packed">>
  <2> DEFINE t == <<b, "qweight">>
  <2>1. t \in SourceTensor /\ t[1] = b /\ t[2] = "qweight"
      BY DEF SourceTensor
  <2>2. PICK j \in 1 .. Len(q) : q[j] = t
      BY <1>1, <1>8, <2>1
  <2>3. 1 \in 1 .. Len(Outs(t)) /\ Outs(t)[1] = <<b, "packed">>
      BY <2>1, OutsAre
  <2>4. j \in 1 .. Len(ss) /\ ss[j] = Outs(t)
      BY <1>3, <2>2
  <2>5. 1 \in 1 .. Len(ss[j]) /\ ss[j][1] = <<b, "packed">>
      BY <2>3, <2>4
  <2>6. \E i \in 1 .. Len(FlattenSeq(ss)) : FlattenSeq(ss)[i] = ss[j][1]
      BY <1>6, <2>4, <2>5
  <2>7. QED BY <1>4, <1>8, <2>5, <2>6
<1>9. q = <<>> => Planned(f) = <<>>
  <2>1. q = <<>> => FlattenSeq(ss) = <<>>
    <3> SUFFICES ASSUME q = <<>> PROVE FlattenSeq(ss) = <<>>
        OBVIOUS
    <3>1. Len(ss) = 0
        BY <1>3
    <3>2. ss = <<>>
        BY <1>3, <3>1
    <3>3. QED BY <3>1, <3>2 DEF FlattenSeq
  <2>2. QED BY <1>4, <1>5, <2>1
<1>10. QED BY <1>7, <1>8, <1>9 DEF q

(***************************************************************************)
(* While files are written, a projection that has been written had its     *)
(* zero points looked at; a file whose thread has ended without an error   *)
(* is whole; and the configuration is never there without the index.       *)
(***************************************************************************)
SoundFile(f) == f \in ModelFile => \A i \in 1 .. Len(Planned(f)) :
    i < parts[f] /\ Planned(f)[i][2] = "packed" => source.zeros[Planned(f)[i][1]]

RepackInv ==
    /\ parts \in [File -> Int]
    /\ config => index
    /\ at \in {"index", "config", "ok"} => index
    /\ at = "write" => \A f \in Shards : SoundFile(f) /\ (failed \/ f \in todo \/ parts[f] = Whole(f))
    /\ at \in {"index", "config", "ok"} => \A f \in Shards : SoundFile(f) /\ parts[f] = Whole(f)

LEMMA RepackInvInit == RepackInit => RepackInv
BY DEF RepackInit, RepackInv

LEMMA PlanStays ==
    ASSUME source' = source
    PROVE  /\ \A f : Planned(f)' = Planned(f) /\ Whole(f)' = Whole(f)
           /\ Shards' = Shards
<1>1. \A f : InFile(f)' = InFile(f)
    BY DEF InFile
<1>2. \A f : Planned(f)' = Planned(f)
    BY <1>1 DEF Planned
<1>3. QED BY <1>1, <1>2 DEF Whole, Shards

LEMMA WritesKeep ==
    ASSUME RepackInv, NEW f \in File, WritePart(f)
    PROVE  RepackInv'
<1>0. source' = source /\ index' = index /\ config' = config /\ at' = at /\ todo' = todo /\ failed' = failed
      /\ at = "write" /\ f \in todo /\ parts[f] < Whole(f) /\ ~Unsound(f)
      /\ parts' = [parts EXCEPT ![f] = @ + 1]
    BY DEF WritePart
<1>1. /\ \A g : Planned(g)' = Planned(g) /\ Whole(g)' = Whole(g)
      /\ Shards' = Shards
    BY <1>0, PlanStays
<1>2. parts' \in [File -> Int] /\ \A g \in File : parts'[g] = IF g = f THEN parts[f] + 1 ELSE parts[g]
    BY <1>0 DEF RepackInv
<1>3. ASSUME NEW g \in Shards
      PROVE  SoundFile(g)' /\ (failed' \/ g \in todo' \/ parts'[g] = Whole(g)')
  <2>1. g \in File /\ SoundFile(g) /\ (failed \/ g \in todo \/ parts[g] = Whole(g)) /\ parts[g] \in Int
      BY <1>0 DEF RepackInv, Shards
  <2>2. CASE g # f
      BY <1>0, <1>1, <1>2, <2>1, <2>2 DEF SoundFile
  <2>3. CASE g = f
    <3>1. ASSUME f \in ModelFile, NEW i \in 1 .. Len(Planned(f)), i < parts[f] + 1, Planned(f)[i][2] = "packed"
          PROVE  source.zeros[Planned(f)[i][1]]
      <4>1. CASE i < parts[f]
          BY <2>1, <2>3, <3>1, <4>1 DEF SoundFile
      <4>2. CASE i = parts[f]
        <5>1. i \in 1 .. Len(Planned(f)) /\ f \in ModelFile
            BY <3>1
        <5>2. QED BY <1>0, <3>1, <4>2, <5>1 DEF Unsound
      <4>3. i < parts[f] \/ i = parts[f]
        <5>1. Len(Planned(f)) \in Nat
          <6>1. Planned(f) \in Seq(OutTensor)
              BY PlannedIs
          <6>2. QED BY <6>1
        <5>2. i \in Int
            BY <5>1
        <5>3. QED BY <2>1, <2>3, <3>1, <5>2
      <4>4. QED BY <4>1, <4>2, <4>3
    <3>2. SoundFile(f)'
        BY <1>0, <1>1, <1>2, <3>1 DEF SoundFile
    <3>3. QED BY <1>0, <2>3, <3>2
  <2>4. QED BY <2>2, <2>3
<1>4. QED BY <1>0, <1>1, <1>2, <1>3 DEF RepackInv

LEMMA RepackInvStep == RepackInv /\ [RepackNext]_repackVars => RepackInv'
<1> SUFFICES ASSUME RepackInv, [RepackNext]_repackVars PROVE RepackInv'
    OBVIOUS
<1>1. CASE UNCHANGED repackVars
  <2>1. source' = source
      BY <1>1 DEF repackVars
  <2>2. QED BY <1>1, <2>1, PlanStays DEF RepackInv, repackVars, SoundFile
<1>2. CASE StartRepack
  <2>1. source' = source /\ parts' = parts /\ index' = index /\ config' = config
      BY <1>2 DEF StartRepack, disk
  <2>2. CASE Refuses
      BY <1>2, <2>1, <2>2 DEF StartRepack, RepackInv
  <2>3. CASE ~Refuses
    <3>1. at' = "write" /\ todo' = Shards
        BY <1>2, <2>3 DEF StartRepack
    <3>2. Shards' = Shards /\ \A f : Planned(f)' = Planned(f) /\ Whole(f)' = Whole(f)
        BY <2>1, PlanStays
    <3>3. ASSUME NEW f \in Shards
          PROVE  SoundFile(f)' /\ f \in todo'
      <4>1. f \in File /\ ~(parts[f] >= 0) /\ parts[f] \in Int
          BY <2>3 DEF Refuses, Shards, RepackInv
      <4>2. Len(Planned(f)) \in Nat
        <5>1. Planned(f) \in Seq(OutTensor)
            BY PlannedIs
        <5>2. QED BY <5>1
      <4>3. \A i \in 1 .. Len(Planned(f)) : ~(i < parts[f])
          BY <4>1, <4>2
      <4>4. QED BY <2>1, <3>1, <3>2, <4>3 DEF SoundFile
    <3>4. QED BY <2>1, <3>1, <3>2, <3>3 DEF RepackInv
  <2>4. QED BY <2>2, <2>3
<1>3. CASE WriteIndex
  <2>1. source' = source
      BY <1>3 DEF WriteIndex
  <2>2. QED BY <1>3, <2>1, PlanStays DEF WriteIndex, RepackInv, SoundFile
<1>4. CASE WriteConfig
  <2>1. source' = source
      BY <1>4 DEF WriteConfig
  <2>2. QED BY <1>4, <2>1, PlanStays DEF WriteConfig, RepackInv, SoundFile
<1>5. CASE SelfCheck
  <2>1. source' = source /\ at' \in {"ok", "err"} /\ parts' = parts /\ index' = index /\ config' = config
        /\ at = "config"
      BY <1>5 DEF SelfCheck, disk
  <2>2. QED BY <2>1, PlanStays DEF RepackInv, SoundFile
<1>6. CASE RepackErr
    BY <1>6 DEF RepackErr, RepackInv, disk
<1>7. CASE \E f \in File : WritePart(f) \/ FileDone(f) \/ FileErr(f)
  <2> SUFFICES ASSUME NEW f \in File, WritePart(f) \/ FileDone(f) \/ FileErr(f) PROVE RepackInv'
      BY <1>7
  <2>1. CASE WritePart(f)
      BY <2>1, WritesKeep
  <2>2. CASE FileDone(f)
    <3>1. source' = source
        BY <2>2 DEF FileDone
    <3>2. QED BY <2>2, <3>1, PlanStays DEF FileDone, RepackInv, SoundFile, disk
  <2>3. CASE FileErr(f)
    <3>1. source' = source
        BY <2>3 DEF FileErr
    <3>2. QED BY <2>3, <3>1, PlanStays DEF FileErr, RepackInv, SoundFile, disk
  <2>4. QED BY <2>1, <2>2, <2>3
<1>8. CASE at # "none" /\ EndOfRepack
    BY <1>8 DEF EndOfRepack, RepackInv, disk
<1>9. CASE \E S \in SUBSET File : DeleteFiles(S)
    BY <1>9 DEF DeleteFiles, RepackInv
<1>10. CASE DeleteAll
    BY <1>10 DEF DeleteAll, RepackInv
<1>11. QED BY <1>1, <1>2, <1>3, <1>4, <1>5, <1>6, <1>7, <1>8, <1>9, <1>10 DEF RepackNext

LEMMA RepackInvariant == RepackSpec => []RepackInv
<1>1. QED BY RepackInvInit, RepackInvStep, PTL DEF RepackSpec

(***************************************************************************)
(* Whatever a conversion that failed or was killed leaves behind (repack   *)
(* of core/src/qwen4exp/repack.rs), and however much of it is deleted, a   *)
(* reader that opens it knows of every tensor of the source.               *)
(***************************************************************************)
THEOREM NothingLesserOpens == RepackSpec => []NoLesserModel
<1>1. RepackInv => NoLesserModel
  <2> SUFFICES ASSUME RepackInv, Opens, NEW f \in Shards, NEW x \in NamesIn(f)
               PROVE  x \in Named
      BY DEF NoLesserModel, Entries
  <2>1. index /\ f \in File
      BY DEF RepackInv, Opens, Shards
  <2>2. Planned(f) # <<>>
      BY DEF NamesIn, ToSet
  <2>3. f \in Seen
      BY <2>1, <2>2 DEF Seen
  <2>4. QED BY <2>3 DEF Named
<1>2. QED BY <1>1, RepackInvariant, PTL

(***************************************************************************)
(* A conversion that says it has succeeded has written every tensor, and   *)
(* each weight is the source's, for projections of any shape and groups of *)
(* any sizes of which one divides the other (repack_triple), with the      *)
(* tensors of a projection in whatever files of the source.                *)
(***************************************************************************)
THEOREM ConvertsExactly == RepackSpec => []RepackExact
<1>1. RepackInv => RepackExact
  <2> SUFFICES ASSUME RepackInv, at = "ok"
               PROVE  /\ \A t \in Entries : There(t)
                      /\ \A b \in Rebuilt : \A r \in 0 .. Shape[b].n - 1 : \A j \in 0 .. Shape[b].kw - 1 :
                            WeightOf(b, r, j) = WeightIn(b, r, j)
      BY DEF RepackExact
  <2>1. index /\ \A f \in Shards : f \in File /\ SoundFile(f) /\ parts[f] = Len(Planned(f)) + 1
      BY DEF RepackInv, Shards, Whole
  <2>2. \A f : Planned(f) \in Seq(OutTensor)
      BY PlannedIs
  <2>3. \A f : Len(Planned(f)) \in Nat /\ DOMAIN Planned(f) = 1 .. Len(Planned(f))
      BY <2>2
  <2>4. ASSUME NEW t \in Entries
        PROVE  There(t)
    <3>1. PICK f \in Shards : t \in NamesIn(f)
        BY <2>4 DEF Entries
    <3>2. PICK i \in DOMAIN Planned(f) : Planned(f)[i] = t
        BY <3>1 DEF NamesIn, ToSet
    <3>3. i < parts[f]
        BY <2>1, <2>3, <3>2
    <3>4. Planned(f) # <<>>
        BY <3>2
    <3>5. f \in Seen
        BY <2>1, <3>4 DEF Seen
    <3>6. QED BY <3>2, <3>3, <3>5 DEF There
  <2>5. ASSUME NEW b \in Rebuilt
        PROVE  b \in Proj /\ source.zeros[b]
    <3> DEFINE f == source.home[<<b, "qweight">>]
    <3>1. b \in Proj /\ f \in ModelFile
        BY <2>5 DEF Rebuilt
    <3>2. PICK i \in 1 .. Len(Planned(f)) : Planned(f)[i] = <<b, "packed">>
        BY <3>1, PlannedIs
    <3>3. Planned(f) # <<>>
        BY <2>3, <3>2
    <3>4. InFile(f) # <<>>
        BY <3>3, PlannedIs
    <3>5. f \in Shards
        BY <3>1, <3>4 DEF Shards, File
    <3> HIDE DEF f
    <3>6. i < parts[f]
        BY <2>1, <2>3, <3>2, <3>5
    <3>7. Planned(f)[i][2] = "packed" /\ Planned(f)[i][1] = b
        BY <3>2
    <3>8. QED BY <2>1, <3>1, <3>2, <3>5, <3>6, <3>7 DEF SoundFile
  <2>6. ASSUME NEW b \in Rebuilt, NEW r \in 0 .. Shape[b].n - 1, NEW j \in 0 .. Shape[b].kw - 1
        PROVE  WeightOf(b, r, j) = WeightIn(b, r, j)
    <3>1. b \in Proj /\ source.zeros[b]
        BY <2>5
    <3>2. /\ Packed(b)[r * Shape[b].kw + j] = QWeight(b)[j * Shape[b].n + r]
          /\ Scale(b)[r * (Shape[b].kw \div OutGroupWords) + j \div OutGroupWords]
               = Scales(b)[(j \div GroupWords) * Shape[b].n + r]
        BY <3>1, WeightsAre
    <3>3. QED BY <3>1, <3>2 DEF WeightOf, WeightIn
  <2>7. QED BY <2>4, <2>6
<1>2. QED BY <1>1, RepackInvariant, PTL

-----------------------------------------------------------------------------
(***************************************************************************)
(* ShardPlan.  Sums over the first of some numbers, and over a part.       *)
(***************************************************************************)
\* Steps on a set can be taken n times.
Steps(S, a, n, G) == \E u \in [0 .. n -> S] : u[0] = a /\ \A i \in 1 .. n : u[i] = G[i][u[i - 1]]

LEMMA StepsExist ==
    ASSUME NEW S, NEW a \in S, NEW n \in Nat, NEW G, \A i \in 1 .. n : \A x \in S : G[i][x] \in S
    PROVE  Steps(S, a, n, G)
<1> DEFINE Goes(k) == \E u \in [0 .. k -> S] : u[0] = a /\ \A i \in 1 .. k : u[i] = G[i][u[i - 1]]
           P == {k \in 0 .. n : Goes(k)}
<1>1. 0 \in P
  <2> DEFINE u == [i \in 0 .. 0 |-> a]
  <2>1. u \in [0 .. 0 -> S] /\ u[0] = a /\ \A i \in 1 .. 0 : FALSE
      OBVIOUS
  <2> HIDE DEF u
  <2>2. Goes(0)
      BY <2>1
  <2> HIDE DEF Goes
  <2>3. QED BY <2>2
<1>2. ASSUME NEW k \in 1 .. n, k - 1 \in P PROVE k \in P
  <2>1. PICK u \in [0 .. (k - 1) -> S] : u[0] = a /\ \A i \in 1 .. (k - 1) : u[i] = G[i][u[i - 1]]
      BY <1>2
  <2> DEFINE v == [i \in 0 .. k |-> IF i = k THEN G[k][u[k - 1]] ELSE u[i]]
  <2>2. k - 1 \in 0 .. (k - 1) /\ k \in 0 .. n /\ 0 # k
      OBVIOUS
  <2>3. G[k][u[k - 1]] \in S
      BY <2>2
  <2>4. \A i \in 0 .. k : i = k \/ i \in 0 .. (k - 1)
      OBVIOUS
  <2>5. v \in [0 .. k -> S]
      BY <2>3, <2>4
  <2>6. v[k] = G[k][u[k - 1]] /\ \A i \in 0 .. (k - 1) : v[i] = u[i]
      OBVIOUS
  <2> HIDE DEF v
  <2>7. v[0] = a
      BY <2>1, <2>6
  <2>8. \A i \in 1 .. k : i - 1 \in 0 .. (k - 1) /\ (i = k \/ (i \in 1 .. (k - 1) /\ i \in 0 .. (k - 1)))
      OBVIOUS
  <2>9. \A i \in 1 .. k : v[i] = G[i][v[i - 1]]
      BY <2>1, <2>6, <2>8
  <2>10. Goes(k)
      BY <2>5, <2>7, <2>9
  <2> HIDE DEF Goes
  <2>11. QED BY <2>2, <2>10
<1> HIDE DEF P
<1>3. 0 .. n \subseteq P
    BY <1>1, <1>2, Upwards
<1>4. n \in P
    BY <1>3
<1>5. QED BY <1>4 DEF P, Steps

\* The function TotalOf takes its sum from.
UptoIs(f, n, u) == u = [i \in 0 .. n |-> IF i = 0 THEN 0 ELSE u[i - 1] + f[i]]

\* S sum is known from one that grows the same way.
LEMMA TotalMeets ==
    ASSUME NEW n \in Nat, NEW f, NEW v, v[0] = 0, \A i \in 1 .. n : v[i] = v[i - 1] + f[i]
    PROVE  TotalOf(f, n) = v[n]
<1> DEFINE U == CHOOSE u : UptoIs(f, n, u)
           w == [i \in 0 .. n |-> v[i]]
<1>1. TotalOf(f, n) = U[n]
    BY DEF TotalOf, UptoIs
<1>2. UptoIs(f, n, w)
  <2>1. \A i \in 0 .. n : i = 0 \/ (i \in 1 .. n /\ i - 1 \in 0 .. n)
      OBVIOUS
  <2>2. \A i \in 0 .. n : w[i] = v[i]
      OBVIOUS
  <2>3. w = [i \in 0 .. n |-> w[i]]
      OBVIOUS
  <2> HIDE DEF w
  <2>4. \A i \in 0 .. n : w[i] = IF i = 0 THEN 0 ELSE w[i - 1] + f[i]
      BY <2>1, <2>2
  <2>5. QED BY <2>3, <2>4 DEF UptoIs
<1>3. UptoIs(f, n, U)
  <2> HIDE DEF w
  <2>1. QED BY <1>2
<1> HIDE DEF U
<1>4. U[0] = 0 /\ \A i \in 1 .. n : U[i] = U[i - 1] + f[i]
  <2>1. 0 \in 0 .. n /\ \A i \in 1 .. n : i \in 0 .. n /\ i # 0
      OBVIOUS
  <2>2. QED BY <1>3, <2>1 DEF UptoIs
<1>5. U[n] = v[n]
  <2>1. U[0] = v[0] /\ \A i \in 1 .. n : U[i - 1] = v[i - 1] => U[i] = v[i]
      BY <1>4
  <2>2. QED BY <2>1, StepByStep
<1>6. QED BY <1>1, <1>5

\* The sums of the first of some numbers.
LEMMA TotalsAre ==
    ASSUME NEW n \in Nat, NEW f, \A i \in 1 .. n : f[i] \in Nat
    PROVE  /\ TotalOf(f, 0) = 0
           /\ \A i \in 0 .. n : TotalOf(f, i) \in Nat
           /\ \A i \in 1 .. n : TotalOf(f, i) = TotalOf(f, i - 1) + f[i]
<1> DEFINE G == [i \in 1 .. n |-> [x \in Nat |-> x + f[i]]]
<1>1. \A i \in 1 .. n : \A x \in Nat : G[i][x] = x + f[i] /\ G[i][x] \in Nat
    OBVIOUS
<1> HIDE DEF G
<1>2. \E u \in [0 .. n -> Nat] : u[0] = 0 /\ \A i \in 1 .. n : u[i] = G[i][u[i - 1]]
  <2>1. 0 \in Nat
      OBVIOUS
  <2>2. \A i \in 1 .. n : \A x \in Nat : G[i][x] \in Nat
      BY <1>1
  <2>3. Steps(Nat, 0, n, G)
      BY <2>1, <2>2, StepsExist
  <2>4. QED BY <2>3 DEF Steps
<1>3. PICK u \in [0 .. n -> Nat] : u[0] = 0 /\ \A i \in 1 .. n : u[i] = G[i][u[i - 1]]
    BY <1>2
<1>4. \A i \in 1 .. n : i - 1 \in 0 .. n /\ i \in 0 .. n
    OBVIOUS
<1>5. \A i \in 1 .. n : u[i] = u[i - 1] + f[i]
    BY <1>1, <1>3, <1>4
<1>6. ASSUME NEW i \in 0 .. n PROVE TotalOf(f, i) = u[i]
  <2>1. i \in Nat /\ \A k \in 1 .. i : k \in 1 .. n
      OBVIOUS
  <2>2. u[0] = 0 /\ \A k \in 1 .. i : u[k] = u[k - 1] + f[k]
      BY <1>3, <1>5, <2>1
  <2>3. QED BY <2>1, <2>2, TotalMeets, Zenon
<1>7. 0 \in 0 .. n
    OBVIOUS
<1>8. QED BY <1>3, <1>4, <1>5, <1>6, <1>7

\* The sum of what lies between two places.
LEMMA TotalOfPart ==
    ASSUME NEW n \in Nat, NEW f, \A i \in 1 .. n : f[i] \in Nat,
           NEW a \in 0 .. n, NEW b \in a .. n, NEW g, \A i \in 1 .. (b - a) : g[i] = f[a + i]
    PROVE  TotalOf(g, b - a) = TotalOf(f, b) - TotalOf(f, a)
<1> DEFINE v == [i \in 0 .. (b - a) |-> TotalOf(f, a + i) - TotalOf(f, a)]
           m == b - a
<1>1. /\ \A i \in 0 .. n : TotalOf(f, i) \in Nat
      /\ \A i \in 1 .. n : TotalOf(f, i) = TotalOf(f, i - 1) + f[i]
    BY TotalsAre
<1>2. m \in Nat /\ a + m = b /\ a + 0 = a /\ 0 \in 0 .. m /\ m \in 0 .. m
    OBVIOUS
<1>3. v[0] = 0
    BY <1>1, <1>2
<1>4. \A i \in 1 .. m : v[i] = v[i - 1] + g[i]
  <2> SUFFICES ASSUME NEW i \in 1 .. m PROVE v[i] = v[i - 1] + g[i]
      OBVIOUS
  <2>1. i \in 0 .. m /\ i - 1 \in 0 .. m /\ a + i \in 1 .. n /\ a + (i - 1) \in 0 .. n /\ (a + i) - 1 = a + (i - 1)
      OBVIOUS
  <2>2. v[i] = TotalOf(f, a + i) - TotalOf(f, a) /\ v[i - 1] = TotalOf(f, a + (i - 1)) - TotalOf(f, a)
      BY <2>1
  <2>3. TotalOf(f, a + i) = TotalOf(f, (a + i) - 1) + f[a + i]
      BY <1>1, <2>1
  <2>4. TotalOf(f, a + i) \in Nat /\ TotalOf(f, a + (i - 1)) \in Nat /\ TotalOf(f, a) \in Nat /\ f[a + i] \in Nat
    <3>1. a + i \in 0 .. n
        BY <2>1
    <3>2. QED BY <1>1, <2>1, <3>1
  <2>5. g[i] = f[a + i]
      OBVIOUS
  <2> DEFINE x == TotalOf(f, a + i)
             y == TotalOf(f, a + (i - 1))
             z == TotalOf(f, a)
             w == f[a + i]
  <2>6. v[i] = x - z /\ v[i - 1] = y - z /\ x = y + w /\ g[i] = w /\ x \in Nat /\ y \in Nat /\ z \in Nat /\ w \in Nat
      BY <2>1, <2>2, <2>3, <2>4, <2>5
  <2> HIDE DEF v, x, y, z, w
  <2>7. QED BY <2>6
<1>5. v[m] = TotalOf(f, b) - TotalOf(f, a)
    BY <1>2
<1> HIDE DEF v
<1>6. TotalOf(g, m) = v[m]
  <2> HIDE DEF m
  <2>1. QED BY <1>2, <1>3, <1>4, TotalMeets
<1>7. QED BY <1>5, <1>6

-----------------------------------------------------------------------------
(***************************************************************************)
(* The blocks are a chain from the first layer to the last.                *)
(***************************************************************************)
LayerRec == [bytes : Nat, full : BOOLEAN]

PlanInv == layers \in Seq(LayerRec) /\ items \in Nat

\* Blocks that follow one another, from no layer up to layer e.
ChainTo(bl, e) ==
    /\ bl \in Seq(Nat \X Nat) /\ e \in Nat
    /\ \A c \in 1 .. Len(bl) : bl[c][1] <= bl[c][2] /\ bl[c][2] <= e
                               /\ bl[c][1] = IF c = 1 THEN 0 ELSE bl[c - 1][2]
    /\ e = IF Len(bl) = 0 THEN 0 ELSE bl[Len(bl)][2]

\* What the plan is given.
LEMMA CardsAre ==
    /\ Cards \in Nat \ {0} /\ LayerMax \in Nat /\ ItemMax \in Nat /\ NonLayer \in Nat /\ KvBytes \in Nat
    /\ \A x \in Tensor : x \in Nat
BY ShardPlanAssumption

\* One block more.
LEMMA ChainGoesOn ==
    ASSUME NEW bl, NEW e, ChainTo(bl, e), NEW x \in Nat, e <= x
    PROVE  ChainTo(Append(bl, <<e, x>>), x) /\ Len(Append(bl, <<e, x>>)) = Len(bl) + 1
<1> DEFINE n == Len(bl)
           a == Append(bl, <<e, x>>)
<1>1. bl \in Seq(Nat \X Nat) /\ e \in Nat /\ n \in Nat /\ <<e, x>> \in Nat \X Nat
    BY DEF ChainTo
<1>2. a \in Seq(Nat \X Nat) /\ Len(a) = n + 1 /\ a[n + 1] = <<e, x>> /\ \A c \in 1 .. n : a[c] = bl[c]
    BY <1>1, AppendProperties
<1>3. \A c \in 1 .. n : bl[c][1] <= bl[c][2] /\ bl[c][2] <= e /\ bl[c][1] = IF c = 1 THEN 0 ELSE bl[c - 1][2]
    BY DEF ChainTo
<1>4. e = IF n = 0 THEN 0 ELSE bl[n][2]
    BY DEF ChainTo
<1>5. \A c \in 1 .. n : bl[c] \in Nat \X Nat
    BY <1>1, ElementOfSeq
<1> HIDE DEF a, n
<1>6. ASSUME NEW c \in 1 .. n + 1
      PROVE  a[c][1] <= a[c][2] /\ a[c][2] <= x /\ a[c][1] = IF c = 1 THEN 0 ELSE a[c - 1][2]
  <2>1. CASE c = n + 1
    <3>1. a[c] = <<e, x>> /\ a[c][1] = e /\ a[c][2] = x
        BY <1>2, <2>1
    <3>2. CASE n = 0
        BY <1>4, <2>1, <3>1, <3>2
    <3>3. CASE n # 0
      <4>1. n \in 1 .. n /\ c - 1 = n /\ c # 1
          BY <1>1, <2>1, <3>3
      <4>2. a[n] = bl[n]
          BY <1>2, <4>1
      <4>3. QED BY <1>4, <3>1, <3>3, <4>1, <4>2
    <3>4. QED BY <3>2, <3>3
  <2>2. CASE c \in 1 .. n
    <3>1. a[c] = bl[c] /\ bl[c][2] \in Nat
        BY <1>2, <1>5, <2>2
    <3>2. c # 1 => c - 1 \in 1 .. n /\ a[c - 1] = bl[c - 1]
      <4>1. n \in Nat
          BY <1>1
      <4>2. c # 1 => c - 1 \in 1 .. n
          BY <2>2, <4>1
      <4>3. QED BY <1>2, <4>2
    <3>3. bl[c][1] <= bl[c][2] /\ bl[c][2] <= e /\ bl[c][1] = IF c = 1 THEN 0 ELSE bl[c - 1][2]
        BY <1>3, <2>2
    <3>4. a[c][2] <= x
        BY <1>1, <3>1, <3>3
    <3>5. QED BY <3>1, <3>2, <3>3, <3>4
  <2>3. QED BY <1>1, <2>1, <2>2
<1>7. x = a[n + 1][2] /\ n + 1 # 0
    BY <1>1, <1>2
<1>8. ChainTo(a, x)
    BY <1>2, <1>6, <1>7 DEF ChainTo
<1>9. QED BY <1>2, <1>8 DEF a, n

Acc == [i : Nat, start : Nat, sum : Nat, blocks : Seq(Nat \X Nat)]

\* What is placed with the first i layers.
Cut(acc, i) ==
    /\ acc \in Acc /\ acc.i = i /\ acc.start <= i
    /\ Len(acc.blocks) + 1 <= Cards /\ ChainTo(acc.blocks, acc.start)

\* A layer more leaves a placement one.
LEMMA PlacedIs ==
    ASSUME NEW acc \in Acc, NEW l \in LayerRec
    PROVE  Placed(acc, l) \in Acc
<1> DEFINE x == [i |-> acc.i + 1, start |-> acc.i, sum |-> l.bytes, blocks |-> Append(acc.blocks, <<acc.start, acc.i>>)]
           y == [acc EXCEPT !.i = @ + 1, !.sum = @ + l.bytes]
<1>1. acc.i \in Nat /\ acc.start \in Nat /\ acc.sum \in Nat /\ acc.blocks \in Seq(Nat \X Nat) /\ l.bytes \in Nat
    BY DEF Acc, LayerRec
<1>2. Append(acc.blocks, <<acc.start, acc.i>>) \in Seq(Nat \X Nat)
  <2>1. <<acc.start, acc.i>> \in Nat \X Nat
      BY <1>1
  <2>2. QED BY <1>1, <2>1, AppendProperties
<1>3. x \in Acc
    BY <1>1, <1>2 DEF Acc
<1>4. y \in Acc
  <2>1. acc.i + 1 \in Nat /\ acc.sum + l.bytes \in Nat
      BY <1>1
  <2> DEFINE m == acc.i + 1
             s == acc.sum + l.bytes
             z == [acc EXCEPT !.i = m]
  <2>2. y = [z EXCEPT !.sum = s]
      OBVIOUS
  <2> HIDE DEF y, s
  <2>3. z \in Acc
    <3> HIDE DEF m
    <3>1. QED BY <2>1 DEF Acc, m
  <2> HIDE DEF z
  <2>4. [z EXCEPT !.sum = s] \in Acc
      BY <2>1, <2>3 DEF Acc, s
  <2>5. QED BY <2>2, <2>4
<1>5. Placed(acc, l) = IF Full(acc, l) THEN x ELSE y
    BY DEF Placed
<1>6. QED BY <1>3, <1>4, <1>5

\* ... and of one layer more, whether the card is full or not.
LEMMA PlacedCuts ==
    ASSUME NEW i \in Nat, NEW acc, Cut(acc, i), NEW l \in LayerRec
    PROVE  Cut(Placed(acc, l), i + 1)
<1>1. acc \in Acc /\ acc.i = i /\ acc.start <= i /\ Len(acc.blocks) + 1 <= Cards /\ ChainTo(acc.blocks, acc.start)
    BY DEF Cut
<1>2. acc.start \in Nat /\ acc.blocks \in Seq(Nat \X Nat) /\ Len(acc.blocks) \in Nat /\ Cards \in Nat
    BY <1>1, CardsAre DEF Acc
<1>3. Placed(acc, l) \in Acc
    BY <1>1, PlacedIs
<1>4. CASE Full(acc, l)
  <2> DEFINE bl == Append(acc.blocks, <<acc.start, acc.i>>)
             x == [i |-> acc.i + 1, start |-> acc.i, sum |-> l.bytes, blocks |-> bl]
  <2>1. Placed(acc, l) = x
      BY <1>4 DEF Placed
  <2>2. ChainTo(bl, acc.i) /\ Len(bl) = Len(acc.blocks) + 1
      BY <1>1, ChainGoesOn
  <2>3. Len(acc.blocks) + 1 < Cards
      BY <1>4 DEF Full
  <2> HIDE DEF bl
  <2>4. x.i = i + 1 /\ x.start = i /\ x.blocks = bl
      BY <1>1
  <2>5. i <= i + 1 /\ Len(bl) + 1 <= Cards
      BY <1>2, <2>2, <2>3
  <2> HIDE DEF x
  <2>6. Cut(x, i + 1)
      BY <1>1, <1>3, <2>1, <2>2, <2>4, <2>5 DEF Cut
  <2>7. QED BY <2>1, <2>6
<1>5. CASE ~Full(acc, l)
  <2> DEFINE y == [acc EXCEPT !.i = @ + 1, !.sum = @ + l.bytes]
  <2>1. Placed(acc, l) = y
      BY <1>5 DEF Placed
  <2>2. y.i = i + 1 /\ y.start = acc.start /\ y.blocks = acc.blocks
      BY <1>1 DEF Acc
  <2> HIDE DEF y
  <2>3. acc.start <= i + 1
      BY <1>1, <1>2
  <2>4. Cut(y, i + 1)
      BY <1>1, <1>3, <2>1, <2>2, <2>3 DEF Cut
  <2>5. QED BY <2>1, <2>4
<1>6. QED BY <1>4, <1>5

Nothing == [i |-> 0, start |-> 0, sum |-> 0, blocks |-> <<>>]

\* The function LayerBlocks ends in.
PlacesIs(n, u) == u = [i \in 0 .. n |-> IF i = 0 THEN Nothing ELSE Placed(u[i - 1], layers[i])]

\* So what the fold over the layers ends in places them all.
LEMMA PlacesCut ==
    ASSUME PlanInv, NEW u, PlacesIs(Len(layers), u)
    PROVE  Cut(u[Len(layers)], Len(layers))
<1> DEFINE n == Len(layers)
           P == {i \in 0 .. n : Cut(u[i], i)}
<1>1. n \in Nat /\ \A i \in 1 .. n : layers[i] \in LayerRec
    BY ElementOfSeq DEF PlanInv
<1> HIDE DEF n
<1>2. u[0] = Nothing /\ \A i \in 1 .. n : u[i] = Placed(u[i - 1], layers[i])
  <2>1. 0 \in 0 .. n /\ \A i \in 1 .. n : i \in 0 .. n /\ i # 0
      BY <1>1
  <2>2. QED BY <2>1 DEF PlacesIs, n
<1>3. 0 \in P
  <2>1. Nothing \in Acc /\ Nothing.i = 0 /\ Nothing.start = 0 /\ Nothing.blocks = <<>>
      BY DEF Nothing, Acc
  <2>2. ChainTo(<<>>, 0)
      BY DEF ChainTo
  <2>3. Cut(Nothing, 0)
      BY <2>1, <2>2, CardsAre DEF Cut
  <2>4. QED BY <1>1, <1>2, <2>3
<1>4. ASSUME NEW i \in 1 .. n, i - 1 \in P PROVE i \in P
  <2>1. i - 1 \in Nat /\ (i - 1) + 1 = i /\ i \in 0 .. n /\ Cut(u[i - 1], i - 1)
      BY <1>4
  <2>2. Cut(Placed(u[i - 1], layers[i]), (i - 1) + 1)
      BY <1>1, <2>1, PlacedCuts
  <2>3. QED BY <1>2, <2>1, <2>2
<1> HIDE DEF P
<1>5. 0 .. n \subseteq P
    BY <1>1, <1>3, <1>4, Upwards
<1>6. n \in P
    BY <1>1, <1>5
<1>7. QED BY <1>6 DEF P, n

\* The fold is there.
LEMMA PlacesExist ==
    ASSUME PlanInv
    PROVE  \E u : PlacesIs(Len(layers), u)
<1> DEFINE n == Len(layers)
           G == [i \in 1 .. n |-> [x \in Acc |-> Placed(x, layers[i])]]
<1>1. n \in Nat /\ \A i \in 1 .. n : layers[i] \in LayerRec
    BY ElementOfSeq DEF PlanInv
<1> HIDE DEF n
<1>2. \A i \in 1 .. n : \A x \in Acc : G[i][x] = Placed(x, layers[i]) /\ G[i][x] \in Acc
    BY <1>1, PlacedIs
<1> HIDE DEF G
<1>3. Nothing \in Acc
    BY DEF Nothing, Acc
<1>4. Steps(Acc, Nothing, n, G)
    BY <1>1, <1>2, <1>3, StepsExist
<1>5. PICK u \in [0 .. n -> Acc] : u[0] = Nothing /\ \A i \in 1 .. n : u[i] = G[i][u[i - 1]]
    BY <1>4 DEF Steps
<1>6. \A i \in 0 .. n : i = 0 \/ (i \in 1 .. n /\ i - 1 \in 0 .. n)
    BY <1>1
<1>7. \A i \in 0 .. n : u[i] \in Acc
    BY <1>5
<1>8. \A i \in 0 .. n : u[i] = IF i = 0 THEN Nothing ELSE Placed(u[i - 1], layers[i])
    BY <1>2, <1>5, <1>6, <1>7
<1>9. u = [i \in 0 .. n |-> u[i]]
    BY <1>5
<1>10. PlacesIs(n, u)
    BY <1>8, <1>9 DEF PlacesIs
<1>11. QED BY <1>10 DEF n

\* Blocks of no layers at the end change nothing.
LEMMA ChainPadded ==
    ASSUME NEW bl, NEW e, ChainTo(bl, e), NEW k \in Nat, Len(bl) # 0
    PROVE  LET a == bl \o [c \in 1 .. k |-> <<e, e>>] IN ChainTo(a, e) /\ Len(a) = Len(bl) + k
<1> DEFINE n == Len(bl)
           p == [c \in 1 .. k |-> <<e, e>>]
           a == bl \o p
<1>1. bl \in Seq(Nat \X Nat) /\ e \in Nat /\ n \in Nat \ {0} /\ <<e, e>> \in Nat \X Nat
    BY DEF ChainTo
<1>2. p \in Seq(Nat \X Nat) /\ Len(p) = k /\ \A c \in 1 .. k : p[c] = <<e, e>>
  <2>1. p \in [1 .. k -> Nat \X Nat]
      BY <1>1
  <2>2. QED BY <2>1
<1> HIDE DEF p
<1>3. a \in Seq(Nat \X Nat) /\ Len(a) = n + k /\ \A c \in 1 .. n + k : a[c] = IF c <= n THEN bl[c] ELSE p[c - n]
  <2>1. /\ a \in Seq(Nat \X Nat) /\ Len(a) = Len(bl) + Len(p)
        /\ \A c \in 1 .. Len(bl) + Len(p) : a[c] = IF c <= Len(bl) THEN bl[c] ELSE p[c - Len(bl)]
      BY <1>1, <1>2, ConcatProperties
  <2> HIDE DEF a
  <2>2. QED BY <1>2, <2>1
<1>4. \A c \in 1 .. n : bl[c][1] <= bl[c][2] /\ bl[c][2] <= e /\ bl[c][1] = IF c = 1 THEN 0 ELSE bl[c - 1][2]
    BY DEF ChainTo
<1>5. e = bl[n][2]
    BY <1>1 DEF ChainTo
<1> HIDE DEF a, n
<1>6. \A c \in 1 .. n : a[c] = bl[c]
    BY <1>1, <1>3
<1>7. ASSUME NEW c \in 1 .. n + k, c > n PROVE a[c][1] = e /\ a[c][2] = e
  <2>1. c - n \in 1 .. k /\ ~(c <= n)
      BY <1>1, <1>7
  <2>2. a[c] = <<e, e>>
      BY <1>2, <1>3, <2>1
  <2>3. QED BY <2>2
<1>8. ASSUME NEW c \in 1 .. n + k
      PROVE  a[c][1] <= a[c][2] /\ a[c][2] <= e /\ a[c][1] = IF c = 1 THEN 0 ELSE a[c - 1][2]
  <2>1. CASE c > n
    <3>1. c # 1 /\ c - 1 \in 1 .. n + k /\ (c - 1 > n \/ c - 1 = n) /\ n \in 1 .. n
        BY <1>1, <2>1
    <3>2. a[c - 1][2] = e
        BY <1>5, <1>6, <1>7, <3>1
    <3>3. a[c][1] = e /\ a[c][2] = e
        BY <1>7, <2>1
    <3>4. QED BY <1>1, <3>1, <3>2, <3>3
  <2>2. CASE c \in 1 .. n
    <3>1. a[c] = bl[c] /\ (c # 1 => c - 1 \in 1 .. n)
        BY <1>1, <1>6, <2>2
    <3>2. c # 1 => a[c - 1] = bl[c - 1]
        BY <1>6, <3>1
    <3>3. QED BY <1>4, <2>2, <3>1, <3>2
  <2>3. QED BY <1>1, <2>1, <2>2
<1>9. n + k # 0 /\ a[n + k][2] = e
  <2>1. n + k \in 1 .. n + k /\ n \in 1 .. n /\ (n + k > n \/ n + k = n)
      BY <1>1
  <2>2. QED BY <1>5, <1>6, <1>7, <2>1
<1>10. ChainTo(a, e)
    BY <1>1, <1>3, <1>8, <1>9 DEF ChainTo
<1>11. QED BY <1>3, <1>10 DEF a, n, p

\* One block a card, in a chain over the layers.
LEMMA BlocksAre ==
    ASSUME PlanInv
    PROVE  ChainTo(LayerBlocks, Len(layers)) /\ Len(LayerBlocks) = Cards
<1> DEFINE n == Len(layers)
           U == CHOOSE u : PlacesIs(n, u)
           end == U[n]
           taken == Append(end.blocks, <<end.start, n>>)
<1>1. n \in Nat
    BY DEF PlanInv
<1>2. LayerBlocks = taken \o [c \in 1 .. Cards - Len(taken) |-> <<n, n>>]
    BY DEF LayerBlocks, PlacesIs, Nothing
<1>3. PlacesIs(n, U)
  <2>1. \E u : PlacesIs(n, u)
      BY PlacesExist
  <2> HIDE DEF n
  <2>2. QED BY <2>1
<1> HIDE DEF U
<1>4. Cut(end, n)
    BY <1>3, PlacesCut
<1> HIDE DEF end
<1>5. end.start <= n /\ Len(end.blocks) + 1 <= Cards /\ ChainTo(end.blocks, end.start) /\ Len(end.blocks) \in Nat
    BY <1>4 DEF Cut, Acc
<1> HIDE DEF n
<1>6. ChainTo(taken, n) /\ Len(taken) = Len(end.blocks) + 1
    BY <1>1, <1>5, ChainGoesOn
<1> HIDE DEF taken
<1>7. Cards - Len(taken) \in Nat /\ Len(taken) # 0 /\ Len(taken) + (Cards - Len(taken)) = Cards
  <2> DEFINE t == Len(taken)
             m == Len(end.blocks)
  <2>1. t = m + 1 /\ m \in Nat /\ m + 1 <= Cards /\ Cards \in Nat
      BY <1>5, <1>6, CardsAre
  <2> HIDE DEF t, m
  <2>2. Cards - t \in Nat /\ t # 0 /\ t + (Cards - t) = Cards
      BY <2>1
  <2>3. QED BY <2>2 DEF t
<1>8. ChainTo(LayerBlocks, n) /\ Len(LayerBlocks) = Cards
    BY <1>2, <1>6, <1>7, ChainPadded
<1>9. QED BY <1>8 DEF n

-----------------------------------------------------------------------------
\* What the first i layers have.
BytesTo(i) == TotalOf(BytesIn(layers), i)
FullTo(i) == TotalOf(FullIn(layers), i)

\* What a layer has is a number.
LEMMA LayersHave ==
    ASSUME PlanInv
    PROVE  /\ Len(layers) \in Nat
           /\ \A k \in 1 .. Len(layers) : layers[k].bytes \in Nat /\ layers[k] \in LayerRec
           /\ BytesTo(0) = 0 /\ FullTo(0) = 0
           /\ \A i \in 0 .. Len(layers) : BytesTo(i) \in Nat /\ FullTo(i) \in Nat
           /\ BytesOf(layers) = BytesTo(Len(layers)) /\ FullOf(layers) = FullTo(Len(layers))
<1> DEFINE n == Len(layers)
           f == BytesIn(layers)
           g == FullIn(layers)
<1>1. n \in Nat /\ \A k \in 1 .. n : layers[k] \in LayerRec
    BY ElementOfSeq DEF PlanInv
<1>2. \A k \in 1 .. n : layers[k].bytes \in Nat
    BY <1>1 DEF LayerRec
<1>3. \A k \in 1 .. n : f[k] \in Nat /\ g[k] \in Nat
    BY <1>2 DEF BytesIn, FullIn
<1>4. \A i : BytesTo(i) = TotalOf(f, i) /\ FullTo(i) = TotalOf(g, i)
    BY DEF BytesTo, FullTo
<1>5. BytesOf(layers) = TotalOf(f, n) /\ FullOf(layers) = TotalOf(g, n)
    BY DEF BytesOf, FullOf
<1> HIDE DEF f, g
<1>6. TotalOf(f, 0) = 0 /\ \A i \in 0 .. n : TotalOf(f, i) \in Nat
    BY <1>1, <1>3, TotalsAre
<1>7. TotalOf(g, 0) = 0 /\ \A i \in 0 .. n : TotalOf(g, i) \in Nat
    BY <1>1, <1>3, TotalsAre
<1>8. QED BY <1>1, <1>2, <1>4, <1>5, <1>6, <1>7

\* What a block holds is what comes up to its end, less what comes before it.
LEMMA PartIs ==
    ASSUME PlanInv, NEW p \in Nat \X Nat, p[1] <= p[2], p[2] <= Len(layers)
    PROVE  /\ BytesOf(LayersIn(p)) = BytesTo(p[2]) - BytesTo(p[1])
           /\ FullOf(LayersIn(p)) = FullTo(p[2]) - FullTo(p[1])
           /\ FullOf(LayersIn(p)) \in Nat
<1> DEFINE n == Len(layers)
           a == p[1]
           e == p[2]
           ls == LayersIn(p)
           f == BytesIn(layers)
           g == FullIn(layers)
           ff == BytesIn(ls)
           gg == FullIn(ls)
<1>1. n \in Nat /\ \A k \in 1 .. n : layers[k].bytes \in Nat /\ layers[k] \in LayerRec
    BY LayersHave
<1>2. a \in Nat /\ e \in Nat /\ a \in 0 .. n /\ e \in a .. n /\ e - a \in Nat
    BY <1>1
<1>3. Len(ls) = e - a /\ \A k \in 1 .. (e - a) : ls[k] = layers[a + k]
  <2>1. \A k \in a + 1 .. e : layers[k] \in LayerRec
      BY <1>1, <1>2
  <2>2. /\ Len(SubSeq(layers, a + 1, e)) = IF a + 1 <= e THEN (e - (a + 1)) + 1 ELSE 0
        /\ \A k \in 1 .. ((e - (a + 1)) + 1) : SubSeq(layers, a + 1, e)[k] = layers[((a + 1) + k) - 1]
      BY <1>2, <2>1, SubSeqProperties
  <2>3. (e - (a + 1)) + 1 = e - a /\ (~(a + 1 <= e) => e - a = 0) /\ \A k \in 1 .. (e - a) : ((a + 1) + k) - 1 = a + k
      BY <1>2
  <2>4. ls = SubSeq(layers, a + 1, e)
      BY DEF LayersIn
  <2> HIDE DEF ls, a, e
  <2>5. QED BY <2>2, <2>3, <2>4
<1>4. \A k \in 1 .. n : f[k] \in Nat /\ g[k] \in Nat
    BY <1>1 DEF BytesIn, FullIn
<1>5. \A k \in 1 .. (e - a) : ff[k] = f[a + k] /\ gg[k] = g[a + k]
  <2>1. \A k \in 1 .. (e - a) : a + k \in 1 .. n
      BY <1>1, <1>2
  <2>2. QED BY <1>3, <2>1 DEF BytesIn, FullIn
<1>6. BytesOf(ls) = TotalOf(ff, Len(ls)) /\ FullOf(ls) = TotalOf(gg, Len(ls))
    BY DEF BytesOf, FullOf
<1>7. \A i : BytesTo(i) = TotalOf(f, i) /\ FullTo(i) = TotalOf(g, i)
    BY DEF BytesTo, FullTo
<1> HIDE DEF f, g, ff, gg, ls, a, e, n
<1>8. TotalOf(ff, e - a) = TotalOf(f, e) - TotalOf(f, a)
    BY <1>1, <1>2, <1>4, <1>5, TotalOfPart
<1>9. TotalOf(gg, e - a) = TotalOf(g, e) - TotalOf(g, a)
    BY <1>1, <1>2, <1>4, <1>5, TotalOfPart
<1>10. TotalOf(gg, e - a) \in Nat
  <2> DEFINE m == e - a
  <2>1. m \in Nat /\ m \in 0 .. m
      BY <1>2
  <2>3. \A k \in 1 .. m : gg[k] \in Nat
    <3>1. \A k \in 1 .. m : a + k \in 1 .. n
        BY <1>1, <1>2
    <3>2. \A k \in 1 .. m : g[a + k] \in Nat
        BY <1>4, <3>1
    <3>3. QED BY <1>5, <3>2
  <2> HIDE DEF m
  <2>2. TotalOf(gg, m) \in Nat
      BY <2>1, <2>3, TotalsAre
  <2>4. QED BY <2>2 DEF m
<1>11. QED BY <1>3, <1>6, <1>7, <1>8, <1>9, <1>10 DEF ls, a, e

\* The layers placed up to each card, and what they weigh.
LEMMA BlocksInOrder ==
    ASSUME PlanInv
    PROVE  /\ Len(layers) \in Nat /\ Len(LayerBlocks) = Cards
           /\ LayerBlocks[1][1] = 0 /\ LayerBlocks[Cards][2] = Len(layers)
           /\ \A c \in 1 .. Cards :
                /\ LayerBlocks[c] \in Nat \X Nat
                /\ LayerBlocks[c][1] <= LayerBlocks[c][2] /\ LayerBlocks[c][2] <= Len(layers)
                /\ c > 1 => LayerBlocks[c - 1][2] = LayerBlocks[c][1]
                /\ BytesOf(LayersIn(LayerBlocks[c])) = BytesTo(LayerBlocks[c][2]) - BytesTo(LayerBlocks[c][1])
                /\ FullOf(LayersIn(LayerBlocks[c])) = FullTo(LayerBlocks[c][2]) - FullTo(LayerBlocks[c][1])
                /\ FullOf(LayersIn(LayerBlocks[c])) \in Nat
                /\ BytesTo(LayerBlocks[c][2]) \in Nat /\ FullTo(LayerBlocks[c][2]) \in Nat
<1> DEFINE b == LayerBlocks
           n == Len(layers)
<1>1. n \in Nat /\ \A i \in 0 .. n : BytesTo(i) \in Nat /\ FullTo(i) \in Nat
    BY LayersHave
<1>2. ChainTo(b, n) /\ Len(b) = Cards /\ Cards \in Nat \ {0}
    BY BlocksAre, CardsAre
<1> HIDE DEF b, n
<1>3. /\ b \in Seq(Nat \X Nat)
      /\ \A c \in 1 .. Cards : b[c][1] <= b[c][2] /\ b[c][2] <= n /\ b[c][1] = IF c = 1 THEN 0 ELSE b[c - 1][2]
      /\ n = b[Cards][2]
    BY <1>2 DEF ChainTo
<1>4. b[1][1] = 0
    BY <1>2, <1>3
<1>5. ASSUME NEW c \in 1 .. Cards
      PROVE  /\ b[c] \in Nat \X Nat
             /\ b[c][1] <= b[c][2] /\ b[c][2] <= n
             /\ c > 1 => b[c - 1][2] = b[c][1]
             /\ BytesOf(LayersIn(b[c])) = BytesTo(b[c][2]) - BytesTo(b[c][1])
             /\ FullOf(LayersIn(b[c])) = FullTo(b[c][2]) - FullTo(b[c][1])
             /\ FullOf(LayersIn(b[c])) \in Nat
             /\ BytesTo(b[c][2]) \in Nat /\ FullTo(b[c][2]) \in Nat
  <2>1. b[c] \in Nat \X Nat
      BY <1>2, <1>3, ElementOfSeq
  <2>2. b[c][1] <= b[c][2] /\ b[c][2] <= n /\ (c > 1 => b[c - 1][2] = b[c][1])
    <3>1. c > 1 => ~(c = 1)
        BY <1>2
    <3>2. QED BY <1>3, <3>1
  <2>3. b[c][2] \in 0 .. n
      BY <1>1, <2>1, <2>2
  <2>4. /\ BytesOf(LayersIn(b[c])) = BytesTo(b[c][2]) - BytesTo(b[c][1])
        /\ FullOf(LayersIn(b[c])) = FullTo(b[c][2]) - FullTo(b[c][1])
        /\ FullOf(LayersIn(b[c])) \in Nat
      BY <2>1, <2>2, PartIs DEF n
  <2>5. QED BY <1>1, <2>1, <2>2, <2>3, <2>4
<1>6. QED BY <1>1, <1>2, <1>3, <1>4, <1>5 DEF b, n

\* The weights telescope along the chain.
LEMMA WeightsAddUp ==
    ASSUME PlanInv
    PROVE  TotalOf([c \in 1 .. Cards |-> Weights(c, LayerBlocks[c])], Cards) = BytesOf(layers) + NonLayer
<1> DEFINE b == LayerBlocks
           n == Len(layers)
           T(c) == BytesTo(b[c][2])
           w == [c \in 1 .. Cards |-> Weights(c, b[c])]
           v == [c \in 0 .. Cards |-> IF c = 0 THEN 0 ELSE T(c) + IF c = Cards THEN NonLayer ELSE 0]
<1>1. Cards \in Nat \ {0} /\ NonLayer \in Nat /\ BytesTo(0) = 0 /\ BytesOf(layers) = BytesTo(n)
    BY CardsAre, LayersHave
<1>2. /\ b[1][1] = 0 /\ b[Cards][2] = n
      /\ \A c \in 1 .. Cards :
            /\ c > 1 => b[c - 1][2] = b[c][1]
            /\ BytesOf(LayersIn(b[c])) = T(c) - BytesTo(b[c][1])
            /\ T(c) \in Nat
    BY BlocksInOrder
<1>3. \A c \in 1 .. Cards : w[c] = (T(c) - BytesTo(b[c][1])) + IF c = Cards THEN NonLayer ELSE 0
    BY <1>2 DEF Weights
<1>4. /\ v[0] = 0 /\ v[Cards] = BytesTo(n) + NonLayer
      /\ \A c \in 1 .. Cards : v[c] = T(c) + IF c = Cards THEN NonLayer ELSE 0
  <2>1. T(Cards) = BytesTo(n)
      BY <1>2
  <2> HIDE DEF T
  <2>2. v[0] = 0 /\ \A c \in 1 .. Cards : v[c] = T(c) + IF c = Cards THEN NonLayer ELSE 0
    <3>1. 0 \in 0 .. Cards /\ \A c \in 1 .. Cards : c \in 0 .. Cards /\ ~(c = 0)
        BY <1>1
    <3>2. \A c \in 0 .. Cards : v[c] = IF c = 0 THEN 0 ELSE T(c) + IF c = Cards THEN NonLayer ELSE 0
        BY Zenon
    <3> HIDE DEF v
    <3>3. QED BY <3>1, <3>2
  <2> HIDE DEF v
  <2>3. v[Cards] = T(Cards) + NonLayer
      BY <1>1, <2>2
  <2>4. QED BY <2>1, <2>2, <2>3
<1> HIDE DEF b, n, w, v
<1>5. ASSUME NEW c \in 1 .. Cards PROVE v[c] = v[c - 1] + w[c]
  <2>1. CASE c = 1
    <3>1. BytesTo(b[c][1]) = 0 /\ v[c - 1] = 0 /\ T(c) \in Nat
        BY <1>1, <1>2, <1>4, <2>1
    <3>2. QED BY <1>1, <1>3, <1>4, <3>1
  <2>2. CASE c # 1
    <3>1. c - 1 \in 1 .. Cards /\ c > 1 /\ c - 1 # Cards
        BY <1>1, <2>2
    <3>2. v[c - 1] = T(c - 1) + 0 /\ T(c - 1) \in Nat /\ T(c) \in Nat /\ T(c - 1) = BytesTo(b[c][1])
        BY <1>2, <1>4, <3>1
    <3>3. w[c] = (T(c) - T(c - 1)) + (IF c = Cards THEN NonLayer ELSE 0) /\ v[c] = T(c) + IF c = Cards THEN NonLayer ELSE 0
        BY <1>3, <1>4, <3>2
    <3> HIDE DEF T
    <3>4. QED BY <1>1, <3>2, <3>3
  <2>3. QED BY <2>1, <2>2
<1>6. TotalOf(w, Cards) = v[Cards]
    BY <1>1, <1>4, <1>5, TotalMeets
<1>7. QED BY <1>1, <1>4, <1>6 DEF w, b

\* A factor taken away.
LEMMA TimesLe ==
    ASSUME NEW f \in Nat \ {0}, NEW x \in Int, NEW y \in Int, f * x <= f * y
    PROVE  x <= y
<1>1. SUFFICES ASSUME y + 1 <= x PROVE FALSE
    OBVIOUS
<1>2. f * (y + 1) = f * y + f
    OBVIOUS
<1>3. x = (y + 1) + (x - (y + 1)) /\ x - (y + 1) \in Nat
    BY <1>1
<1>4. f * x = f * (y + 1) + f * (x - (y + 1)) /\ f * (x - (y + 1)) \in Nat
    BY <1>3
<1>5. QED BY <1>2, <1>4

(***************************************************************************)
(* The shares of the KV up to a card lie, times the attention layers, no   *)
(* more than one rounding per card below what the layers so far call for.  *)
(***************************************************************************)
LEMMA KvAddsUp ==
    ASSUME PlanInv, FullOf(layers) > 0
    PROVE  TotalOf([c \in 1 .. Cards |-> KvShare(LayerBlocks[c])], Cards) \in KvBytes - Cards .. KvBytes
<1> DEFINE b == LayerBlocks
           n == Len(layers)
           F == FullOf(layers)
           K == KvBytes
           G == [c \in 0 .. Cards |-> IF c = 0 THEN 0 ELSE FullTo(b[c][2])]
           share == [c \in 1 .. Cards |-> KvShare(b[c])]
           D(c) == FullOf(LayersIn(b[c]))
           P == {c \in 0 .. Cards : /\ F * TotalOf(share, c) <= K * G[c]
                                    /\ K * G[c] <= F * TotalOf(share, c) + F * c}
<1>1. Cards \in Nat \ {0} /\ K \in Nat /\ FullTo(0) = 0 /\ F = FullTo(n) /\ F \in Nat \ {0}
  <2>1. F = FullTo(n) /\ FullTo(0) = 0 /\ n \in Nat /\ \A i \in 0 .. n : FullTo(i) \in Nat
      BY LayersHave
  <2>2. QED BY <2>1, CardsAre
<1>2. /\ b[1][1] = 0 /\ b[Cards][2] = n
      /\ \A c \in 1 .. Cards :
            /\ c > 1 => b[c - 1][2] = b[c][1]
            /\ D(c) = FullTo(b[c][2]) - FullTo(b[c][1])
            /\ D(c) \in Nat /\ FullTo(b[c][2]) \in Nat
    BY BlocksInOrder
<1>3. G[0] = 0 /\ G[Cards] = F /\ \A c \in 0 .. Cards : G[c] \in Nat
    BY <1>1, <1>2
<1>4. ASSUME NEW c \in 1 .. Cards PROVE G[c] = G[c - 1] + D(c) /\ D(c) \in Nat
  <2> DEFINE x == FullTo(b[c][2])
             y == FullTo(b[c][1])
             d == D(c)
  <2>1. d = x - y /\ d \in Nat /\ x \in Nat /\ G[c] = x
      BY <1>1, <1>2
  <2>2. G[c - 1] = y
    <3>1. CASE c = 1
        BY <1>1, <1>2, <1>3, <3>1
    <3>2. CASE c # 1
      <4>1. c - 1 \in 0 .. Cards /\ c - 1 # 0 /\ c > 1
          BY <1>1, <3>2
      <4>2. QED BY <1>2, <4>1
    <3>3. QED BY <3>1, <3>2
  <2>3. G[c - 1] \in Nat
    <3>1. c - 1 \in 0 .. Cards
        BY <1>1
    <3>2. QED BY <1>3, <3>1
  <2> HIDE DEF x, y, d, G
  <2>4. G[c] = G[c - 1] + d
      BY <2>1, <2>2, <2>3
  <2>5. QED BY <2>1, <2>4 DEF d
<1>5. \A c \in 1 .. Cards : share[c] = (K * D(c)) \div F
    BY <1>1 DEF KvShare
<1> HIDE DEF b, n, F, G, share, D, K
<1>6. ASSUME NEW c \in 1 .. Cards
      PROVE  share[c] \in Nat /\ F * share[c] <= K * D(c) /\ K * D(c) <= F * share[c] + F
  <2> DEFINE a == K * D(c)
             q == a \div F
  <2>1. a \in Nat
      BY <1>1, <1>4
  <2> HIDE DEF a
  <2>2. q \in Int /\ a = F * q + (a % F) /\ a % F \in 0 .. F - 1
    <3>1. \A x \in Int : \A y \in Nat \ {0} :
             x \div y \in Int /\ x = y * (x \div y) + (x % y) /\ x % y \in 0 .. y - 1
        BY Euclid
    <3>2. a \in Int /\ F \in Nat \ {0}
        BY <1>1, <2>1
    <3>3. QED BY <3>1, <3>2, Zenon
  <2>3. q \in Nat
      BY <1>1, <2>1, QuotientReaches
  <2> DEFINE r == a % F
             m == F * q
  <2>4. m \in Int /\ a = m + r /\ r \in 0 .. F - 1
      BY <1>1, <2>2
  <2> HIDE DEF r, m
  <2>5. m <= a /\ a <= m + F
      BY <1>1, <2>4
  <2>6. share[c] = q
      BY <1>5 DEF a
  <2> HIDE DEF q
  <2>7. QED BY <2>3, <2>5, <2>6 DEF m, a
<1>7. /\ TotalOf(share, 0) = 0
      /\ \A c \in 0 .. Cards : TotalOf(share, c) \in Nat
      /\ \A c \in 1 .. Cards : TotalOf(share, c) = TotalOf(share, c - 1) + share[c]
  <2>1. Cards \in Nat /\ \A c \in 1 .. Cards : share[c] \in Nat
      BY <1>1, <1>6
  <2>2. QED BY <2>1, TotalsAre
<1>8. 0 \in P
  <2>1. 0 \in 0 .. Cards /\ F * 0 = 0 /\ K * 0 = 0
      BY <1>1
  <2>2. QED BY <1>3, <1>7, <2>1
<1>9. ASSUME NEW c \in 1 .. Cards, c - 1 \in P PROVE c \in P
  <2> DEFINE s == TotalOf(share, c - 1)
             q == share[c]
             g == G[c - 1]
             d == D(c)
  <2>1. c - 1 \in 0 .. Cards /\ c \in 0 .. Cards /\ F * s <= K * g /\ K * g <= F * s + F * (c - 1)
      BY <1>1, <1>9
  <2>2. s \in Nat /\ q \in Nat /\ g \in Nat /\ d \in Nat /\ F \in Nat /\ K \in Nat
      BY <1>1, <1>3, <1>4, <1>6, <1>7, <2>1
  <2>3. TotalOf(share, c) = s + q /\ G[c] = g + d
      BY <1>4, <1>7
  <2>4. F * q <= K * d /\ K * d <= F * q + F
      BY <1>6
  <2> HIDE DEF s, q, g, d
  <2>5. F * (s + q) = F * s + F * q /\ K * (g + d) = K * g + K * d /\ F * (c - 1) + F = F * c
      BY <1>1, <2>2
  <2> DEFINE Fs == F * s
             Fq == F * q
             Kg == K * g
             Kd == K * d
             Fc == F * (c - 1)
  <2>6. Fs \in Nat /\ Fq \in Nat /\ Kg \in Nat /\ Kd \in Nat /\ Fc \in Int
      BY <1>1, <2>2
  <2>7. Fs <= Kg /\ Kg <= Fs + Fc /\ Fq <= Kd /\ Kd <= Fq + F
      BY <2>1, <2>4
  <2> HIDE DEF Fs, Fq, Kg, Kd, Fc
  <2>8. Fs + Fq <= Kg + Kd /\ Kg + Kd <= (Fs + Fq) + (Fc + F)
      BY <1>1, <2>2, <2>6, <2>7
  <2>9. F * (s + q) <= K * (g + d) /\ K * (g + d) <= F * (s + q) + F * c
      BY <2>5, <2>8 DEF Fs, Fq, Kg, Kd, Fc
  <2>10. QED BY <2>1, <2>3, <2>9
<1> DEFINE S == TotalOf(share, Cards)
<1>10. F * S <= K * F /\ K * F <= F * S + F * Cards /\ S \in Nat
  <2> HIDE DEF P
  <2>1. 0 .. Cards \subseteq P
      BY <1>1, <1>8, <1>9, Upwards
  <2>2. Cards \in P /\ Cards \in 0 .. Cards
      BY <1>1, <2>1
  <2>3. QED BY <1>3, <1>7, <2>2 DEF P
<1> HIDE DEF S, P
<1>11. K * F = F * K /\ F * S + F * Cards = F * (S + Cards) /\ S + Cards \in Int
    BY <1>1, <1>10
<1>12. S <= K /\ K <= S + Cards
    BY <1>1, <1>10, <1>11, TimesLe
<1>13. S \in K - Cards .. K
    BY <1>1, <1>10, <1>12
<1>14. QED BY <1>13 DEF S, share, b, K

-----------------------------------------------------------------------------
\* What is read are layers.
LEMMA PlanInvariant == PlanSpec => []PlanInv
<1>1. PlanInit => PlanInv
    BY DEF PlanInit, PlanInv
<1>2. ASSUME PlanInv, [PlanNext]_planVars PROVE PlanInv'
  <2>1. CASE UNCHANGED planVars
      BY <1>2, <2>1 DEF planVars, PlanInv
  <2>2. ASSUME NEW li \in 1 .. LayerMax, NEW bytes \in Tensor, NEW attn \in BOOLEAN, Scan(li, bytes, attn)
        PROVE  PlanInv'
    <3> DEFINE n == Len(layers)
               m == IF li > n THEN li ELSE n
               grown == [i \in 1 .. m |-> IF i <= n THEN layers[i] ELSE NoLayer]
    <3>1. n \in Nat /\ li \in Nat /\ bytes \in Nat /\ items \in Nat /\ \A i \in 1 .. n : layers[i] \in LayerRec
        BY <1>2, CardsAre, ElementOfSeq DEF PlanInv
    <3>2. NoLayer \in LayerRec
        BY DEF NoLayer, LayerRec
    <3>3. layers' = [grown EXCEPT ![li] = [bytes |-> @.bytes + bytes, full |-> @.full \/ attn]] /\ items' = items + 1
        BY <2>2 DEF Scan
    <3> HIDE DEF n
    <3>4. m \in Nat /\ li \in 1 .. m
        BY <3>1
    <3>5. \A i \in 1 .. m : i <= n => i \in 1 .. n
        BY <3>1, <3>4
    <3> HIDE DEF m
    <3>6. grown \in [1 .. m -> LayerRec]
        BY <3>1, <3>2, <3>5
    <3> HIDE DEF grown
    <3> DEFINE x == [bytes |-> grown[li].bytes + bytes, full |-> grown[li].full \/ attn]
    <3>7. grown[li] \in LayerRec
        BY <3>4, <3>6
    <3>8. x \in LayerRec
        BY <3>1, <3>7 DEF LayerRec
    <3>9. layers' = [grown EXCEPT ![li] = x]
        BY <3>3
    <3> HIDE DEF x
    <3>10. layers' \in [1 .. m -> LayerRec]
        BY <3>6, <3>8, <3>9
    <3>11. layers' \in Seq(LayerRec)
        BY <3>4, <3>10
    <3>12. QED BY <3>1, <3>3, <3>11 DEF PlanInv
  <2>3. QED BY <1>2, <2>1, <2>2 DEF PlanNext
<1>3. QED BY <1>1, <1>2, PTL DEF PlanSpec

(***************************************************************************)
(* The dry run covers the model (shard_plan of plan.rs over what           *)
(* layer_split has read): one block a card, the layers in order and none   *)
(* twice, weights that add up to the model and KV that does up to a        *)
(* rounding per card, with any tensors, any layers and any cards.          *)
(***************************************************************************)
THEOREM BlocksCoverTheModel == PlanSpec => []BlocksCover
<1>1. ASSUME PlanInv PROVE BlocksCover
  <2>1. Cards \in Nat \ {0}
      BY CardsAre
  <2>2. TotalOf([c \in 1 .. Cards |-> Weights(c, LayerBlocks[c])], Cards) = BytesOf(layers) + NonLayer
      BY <1>1, WeightsAddUp
  <2>3. FullOf(layers) > 0 =>
           TotalOf([c \in 1 .. Cards |-> KvShare(LayerBlocks[c])], Cards) \in KvBytes - Cards .. KvBytes
      BY <1>1, KvAddsUp
  <2>4. /\ Len(LayerBlocks) = Cards
        /\ LayerBlocks[1][1] = 0 /\ LayerBlocks[Cards][2] = Len(layers)
        /\ \A c \in 1 .. Cards : LayerBlocks[c][1] <= LayerBlocks[c][2]
                                  /\ (c > 1 => LayerBlocks[c - 1][2] = LayerBlocks[c][1])
      BY <1>1, BlocksInOrder
  <2>5. QED BY <2>2, <2>3, <2>4, Zenon DEF BlocksCover
<1>2. QED BY <1>1, PlanInvariant, PTL

-----------------------------------------------------------------------------
(***************************************************************************)
(* Shards.  For every number of checkpoints and every distance between     *)
(* them: the two shards of a sequence stand at one position unless a call  *)
(* failed between them, and while nothing of what the sequence went        *)
(* through disturbs them both have read the conversation, whatever was     *)
(* reused.                                                                 *)
(***************************************************************************)
Together == ~skewed => posA = posB

(***************************************************************************)
(* The prompts of a sequence continue one another: a checkpoint is found   *)
(* by its position alone.                                                  *)
(***************************************************************************)
Straight == \A p, q \in Texts : IsPrefix(p, q) \/ IsPrefix(q, p)

Ring == [A!RingEntry -> [pos : Nat, state : Seq(Word), saved : Int]]

\* What position n of every prompt leads to.
LeadsTo(s, n) == n > 0 => \A q \in Texts : n <= Len(q) => s = SubSeq(q, 1, n)

RingOK(ck) == ck \in Ring /\ \A e \in A!RingEntry : LeadsTo(ck[e].state, ck[e].pos)

ShardsType ==
    /\ stateA \in Seq(Word) /\ stateB = stateA
    /\ posA \in Nat /\ posB = posA
    /\ prompt \in Texts \union {<<>>} /\ conv \in Seq(Word)

AtRest == ~Served /\ posA > 0 /\ Len(conv) = posA => stateA = conv

Reading == prefilled = posA /\ posA < Len(prompt) /\ conv = prompt
Behind == prefilled = Len(prompt) /\ Len(conv) = posA + 1
Serving == Served => stateA = SubSeq(conv, 1, posA) /\ (Reading \/ Behind)

Undisturbed == ShardsType /\ RingOK(ckA) /\ RingOK(ckB) /\ AtRest /\ Serving

ShardsInv ==
    /\ Together
    /\ skewed => past # {}
    /\ past = {} => Undisturbed

-----------------------------------------------------------------------------
\* The operators of the two GdnCheckpoints.
LEMMA SharedIs ==
    ASSUME NEW p
    PROVE  A!Shared(p) = Min({Len(LongestCommonPrefix({conv, p})), posA, Len(p) - 1})
<1>1. ASSUME NEW S PROVE A!Min(S) = Min(S)
    BY DEF A!Min, Min
<1>2. ASSUME NEW S PROVE A!LongestCommonPrefix(S) = LongestCommonPrefix(S)
    BY DEF A!LongestCommonPrefix, LongestCommonPrefix, A!CommonPrefixes, CommonPrefixes,
           A!Prefixes, Prefixes, A!IsPrefix, IsPrefix, A!Max, Max
<1> QED
    BY <1>1, <1>2 DEF A!Shared

LEMMA ResetIs ==
    ASSUME ResetBoth
    PROVE  stateA' = <<>> /\ posA' = 0 /\ stateB' = <<>> /\ posB' = 0
BY DEF ResetBoth, A!Reset, B!Reset

\* A ring after the end of a pass: as it was, or with a new checkpoint.
Overwritten(ck, p, s, new) ==
    new = ck \/ \E v : new = [ck EXCEPT ![v] = [pos |-> p, state |-> s, saved |-> 0]]

LEMMA EndsAre ==
    ASSUME NEW t, NEW p, NEW s
    PROVE  /\ A!ChainEnd(t, p, s) => Overwritten(ckA, p, s, ckA')
           /\ B!ChainEnd(t, p, s) => Overwritten(ckB, p, s, ckB')
<1>1. A!ChainEnd(t, p, s) => Overwritten(ckA, p, s, ckA')
    BY DEF A!ChainEnd, A!Checkpoint, A!ring, Overwritten
<1>2. B!ChainEnd(t, p, s) => Overwritten(ckB, p, s, ckB')
    BY DEF B!ChainEnd, B!Checkpoint, B!ring, Overwritten
<1> QED
    BY <1>1, <1>2

LEMMA OverwrittenOK ==
    ASSUME NEW ck, RingOK(ck), NEW p \in Nat, NEW s \in Seq(Word), LeadsTo(s, p),
           NEW new, Overwritten(ck, p, s, new)
    PROVE  RingOK(new)
<1>1. CASE new = ck
    BY <1>1
<1>2. ASSUME NEW v, new = [ck EXCEPT ![v] = [pos |-> p, state |-> s, saved |-> 0]]
      PROVE  RingOK(new)
    <2> DEFINE r == [pos |-> p, state |-> s, saved |-> 0]
    <2>1. r \in [pos : Nat, state : Seq(Word), saved : Int] /\ r.pos = p /\ r.state = s
        OBVIOUS
    <2>2. new = [ck EXCEPT ![v] = r]
        BY <1>2
    <2> HIDE DEF r
    <2>3. new \in Ring /\ \A e \in A!RingEntry : new[e] = ck[e] \/ new[e] = r
        BY <2>1, <2>2 DEF RingOK, Ring
    <2>4. ASSUME NEW e \in A!RingEntry
          PROVE  LeadsTo(new[e].state, new[e].pos)
        <3>1. CASE new[e] = ck[e]
            BY <3>1 DEF RingOK
        <3>2. CASE new[e] = r
            BY <3>2, <2>1
        <3> QED
            BY <2>3, <3>1, <3>2
    <2> QED
        BY <2>3, <2>4 DEF RingOK
<1> QED
    BY <1>1, <1>2 DEF Overwritten

(***************************************************************************)
(* The latest checkpoint of one shard within l, and what noting its use    *)
(* changes.                                                                *)
(***************************************************************************)
LEMMA LatestIs ==
    ASSUME NEW ck, RingOK(ck), NEW l \in Nat
    PROVE  /\ Latest(ck, l) \in 0 .. l
           /\ RingOK(Noted(ck, l))
           /\ Latest(ck, l) > 0 =>
                /\ ck[At(ck, Latest(ck, l))].state \in Seq(Word)
                /\ LeadsTo(ck[At(ck, Latest(ck, l))].state, Latest(ck, l))
<1> DEFINE P == ({ck[e].pos : e \in DOMAIN ck} \cap 0 .. l) \cup {0}
           p == Latest(ck, l)
           E == {e \in DOMAIN ck : ck[e].pos = p}
           k == At(ck, p)
<1>1. P \in SUBSET (0 .. l) /\ P # {}
    OBVIOUS
<1>2. p \in P
    <2>1. p = Max(P)
        BY DEF Latest
    <2> HIDE DEF P, p
    <2> QED
        BY <1>1, <2>1, MaxUpTo
<1>3. DOMAIN ck = A!RingEntry /\ A!RingEntry \subseteq Nat /\ ck \in Ring
    BY ShardsAssumption DEF RingOK, Ring, A!RingEntry, ShardsAssumption
<1>4. p \in 0 .. l
    BY <1>1, <1>2
<1>5. CASE p = 0
    BY <1>4, <1>5 DEF Noted
<1>6. CASE p # 0
    <2>1. \E e \in DOMAIN ck : ck[e].pos = p
        BY <1>2, <1>6
    <2> HIDE DEF p
    <2>2. E \in SUBSET Nat /\ E # {}
        BY <1>3, <2>1
    <2>3. k \in E
        <3>1. k = Min(E)
            BY DEF At
        <3> HIDE DEF E, k
        <3> QED
            BY <2>2, <3>1, MinOfNats
    <2>4. k \in A!RingEntry /\ ck[k].pos = p
        BY <1>3, <2>3
    <2> HIDE DEF E, k
    <2>5. ck[k].state \in Seq(Word) /\ ck[k].saved \in Int
        BY <1>3, <2>4 DEF Ring
    <2> DEFINE m == Min({ck[k].saved + l - p, SavedBound})
    <2>6. m \in Int
        <3>1. ck[k].saved + l - p \in Int /\ SavedBound \in Int
            BY <1>4, <2>5, ShardsAssumption DEF ShardsAssumption
        <3> QED
            BY <3>1, MinOfTwo
    <2>7. Noted(ck, l) = [ck EXCEPT ![k].saved = m]
        BY <1>6 DEF Noted, p, k
    <2> DEFINE new == Noted(ck, l)
    <2> HIDE DEF m
    <2>8. new \in Ring
        BY <1>3, <2>4, <2>6, <2>7 DEF Ring
    <2>9. \A e \in A!RingEntry : new[e].pos = ck[e].pos /\ new[e].state = ck[e].state
        BY <1>3, <2>4, <2>7 DEF Ring
    <2>10. RingOK(new)
        BY <2>8, <2>9 DEF RingOK
    <2>11. LeadsTo(ck[k].state, p)
        BY <2>4 DEF RingOK
    <2> QED
        BY <1>4, <2>5, <2>10, <2>11 DEF p, k
<1> QED
    BY <1>5, <1>6

-----------------------------------------------------------------------------
(***************************************************************************)
(* Both shards at one position, whatever the prompts, the checkpoints and  *)
(* the failures: each call moves both by as much, and restore_prefix puts  *)
(* them where the checkpoints of both say, or both at the beginning.       *)
(***************************************************************************)
LEMMA StaysTogether == Together /\ [ShardsNext]_shardsVars => Together'
<1> SUFFICES ASSUME Together, [ShardsNext]_shardsVars PROVE Together'
    OBVIOUS
<1> USE DEF Together
<1>1. ASSUME NEW p \in Texts, ShardAssign(p) PROVE Together'
    <2> DEFINE l == A!Shared(p)
    <2>1. CASE UNCHANGED <<shardA, shardB, skewed>>
        BY <2>1 DEF shardA, shardB
    <2>2. CASE BothRestored(l)
        <3>1. CASE Agreed(l) = 0
            BY <2>2, <3>1, ResetIs DEF BothRestored
        <3>2. CASE Agreed(l) # 0
            BY <2>2, <3>2 DEF BothRestored, Agreed
        <3> QED
            BY <3>1, <3>2
    <2>3. CASE ResetBoth
        BY <2>3, ResetIs
    <2> QED
        BY <1>1, <2>1, <2>2, <2>3 DEF ShardAssign
<1>2. ASSUME NEW c \in 1 .. TextMax, ShardRead(c) PROVE Together'
    BY <1>2 DEF ShardRead, Through, ThroughA, ThroughB
<1>3. CASE ShardDecode
    BY <1>3 DEF ShardDecode, Through, ThroughA, ThroughB
<1>4. CASE MixedDecode
    BY <1>4 DEF MixedDecode, Through, ThroughA, ThroughB
<1>5. ASSUME NEW xs \in Runs, Torn(xs) PROVE Together'
    BY <1>5 DEF Torn
<1>6. ASSUME NEW draft \in BoundedSeq(Word, GuessMax), NEW acc \in 0 .. Len(draft),
             NEW graph \in BOOLEAN, ShardVerify(draft, acc, graph)
      PROVE  Together'
    BY <1>6 DEF ShardVerify
<1>7. CASE ShardFinish
    BY <1>7 DEF ShardFinish, shardA, shardB
<1>8. CASE ShardFail
    BY <1>8, ResetIs DEF ShardFail
<1>9. CASE ShardReclaim
    BY <1>9 DEF ShardReclaim, shardA, shardB
<1>10. CASE UNCHANGED shardsVars
    BY <1>10 DEF shardsVars, shardA, shardB
<1> QED
    BY <1>1, <1>2, <1>3, <1>4, <1>5, <1>6, <1>7, <1>8, <1>9, <1>10 DEF ShardsNext

(***************************************************************************)
(* Two shards are at different positions only after a call failed between  *)
(* them (forward_2shard, restore_prefix, reset_seq): for all prompts and   *)
(* whichever checkpoints each shard keeps.                                 *)
(***************************************************************************)
THEOREM ShardsGoTogether == ShardsSpec => []Together
<1>1. ShardsInit => Together
    BY DEF ShardsInit, Together
<1> QED
    BY <1>1, StaysTogether, PTL DEF ShardsSpec

-----------------------------------------------------------------------------
\* What happened to a sequence is remembered, and a failure is of it.
LEMMA PastStays ==
    ASSUME skewed => past # {}, [ShardsNext]_shardsVars
    PROVE  /\ skewed' => past' # {}
           /\ past' = {} => past = {} /\ ~skewed' /\ ~skewed
<1> DEFINE G == /\ skewed' => past' # {}
                /\ past' = {} => past = {} /\ ~skewed' /\ ~skewed
<1> USE DEF Happened
<1>1. ASSUME NEW p \in Texts, ShardAssign(p) PROVE G
    BY <1>1 DEF ShardAssign
<1>2. ASSUME NEW c \in 1 .. TextMax, ShardRead(c) PROVE G
    BY <1>2 DEF ShardRead
<1>3. CASE ShardDecode \/ ShardFinish \/ ShardReclaim \/ UNCHANGED shardsVars
    BY <1>3 DEF ShardDecode, ShardFinish, ShardReclaim, shardsVars
<1>4. CASE MixedDecode
    BY <1>4 DEF MixedDecode
<1>5. ASSUME NEW xs \in Runs, Torn(xs) PROVE G
    BY <1>5 DEF Torn
<1>6. ASSUME NEW draft \in BoundedSeq(Word, GuessMax), NEW acc \in 0 .. Len(draft),
             NEW graph \in BOOLEAN, ShardVerify(draft, acc, graph)
      PROVE  G
    BY <1>6 DEF ShardVerify
<1>7. CASE ShardFail
    BY <1>7 DEF ShardFail
<1> QED
    BY <1>1, <1>2, <1>3, <1>4, <1>5, <1>6, <1>7 DEF ShardsNext

-----------------------------------------------------------------------------
(***************************************************************************)
(* Both shards have read the conversation.                                 *)
(***************************************************************************)
LEMMA TextsAre ==
    ASSUME NEW p \in Texts
    PROVE  p \in Seq(Word) /\ p # <<>> /\ Len(p) \in Nat \ {0}
<1>1. p \in Seq(Word) /\ p # <<>>
    BY ShardsAssumption DEF ShardsAssumption
<1> QED
    BY <1>1

\* Prompts that continue one another agree as far as both go.
LEMMA TextsAgree ==
    ASSUME Straight, NEW p \in Texts, NEW q \in Texts,
           NEW n \in Nat, n <= Len(p), n <= Len(q)
    PROVE  SubSeq(p, 1, n) = SubSeq(q, 1, n)
<1>1. p \in Seq(Word) /\ Len(p) \in Nat /\ q \in Seq(Word) /\ Len(q) \in Nat
    BY TextsAre
<1>2. ASSUME NEW a \in Seq(Word), NEW b \in Seq(Word), Len(a) \in Nat, Len(b) \in Nat,
             n <= Len(a), IsPrefix(a, b)
      PROVE  SubSeq(a, 1, n) = SubSeq(b, 1, n)
    <2>1. Len(a) <= Len(b) /\ SubSeq(a, 1, Len(a)) = SubSeq(b, 1, Len(a))
        BY <1>2 DEF IsPrefix
    <2>2. Len(a) \in 0 .. Len(a) /\ Len(a) \in 0 .. Len(b) /\ n \in 0 .. Len(a)
        BY <1>2, <2>1
    <2>3. /\ SubSeq(SubSeq(a, 1, Len(a)), 1, n) = SubSeq(a, 1, n)
          /\ SubSeq(SubSeq(b, 1, Len(a)), 1, n) = SubSeq(b, 1, n)
        BY <2>2, FirstOfFirst
    <2> QED
        BY <2>1, <2>3
<1>3. IsPrefix(p, q) \/ IsPrefix(q, p)
    BY DEF Straight
<1> QED
    BY <1>1, <1>2, <1>3

\* At the beginning both shards have read nothing.
LEMMA ResetReads ==
    ASSUME ResetBoth, NEW q
    PROVE  /\ stateA' \in Seq(Word) /\ stateB' = stateA' /\ posA' = 0 /\ posB' = 0
           /\ stateA' = SubSeq(q, 1, posA')
<1>1. SubSeq(q, 1, 0) = <<>> /\ <<>> \in Seq(Word)
    BY SubSeqEmpty
<1> QED
    BY <1>1, ResetIs

LEMMA AssignReads ==
    ASSUME Undisturbed, NEW p \in Texts, ShardAssign(p)
    PROVE  Undisturbed'
<1> DEFINE l == A!Shared(p)
           m == Len(LongestCommonPrefix({conv, p}))
<1> USE DEF Undisturbed
<1>1. p \in Seq(Word) /\ p # <<>> /\ Len(p) \in Nat \ {0}
    BY TextsAre
<1>2. m \in Nat /\ m <= Len(conv) /\ \A n \in 0 .. m : SubSeq(conv, 1, n) = SubSeq(p, 1, n)
    <2>1. conv \in Seq(Word)
        BY DEF ShardsType
    <2> QED
        BY <1>1, <2>1, CommonPrefix
<1>3. l \in Nat /\ l <= m /\ l <= posA /\ l <= Len(p) - 1
    <2> DEFINE C == {m, posA, Len(p) - 1}
    <2>1. C \in SUBSET Nat /\ C # {} /\ m \in C /\ posA \in C /\ Len(p) - 1 \in C
        BY <1>1, <1>2 DEF ShardsType
    <2>2. l = Min(C)
        BY SharedIs
    <2> HIDE DEF C, l, m
    <2>3. l \in C /\ \A y \in C : l <= y
        BY <2>1, <2>2, MinOfNats
    <2> QED
        BY <2>1, <2>3
<1> HIDE DEF l, m
<1>4. prompt' = p /\ conv' = p /\ prefilled' = posA'
    BY DEF ShardAssign
<1>5. /\ stateA' \in Seq(Word) /\ stateB' = stateA' /\ posA' \in 0 .. Len(p) - 1 /\ posB' = posA'
      /\ stateA' = SubSeq(p, 1, posA') /\ RingOK(ckA') /\ RingOK(ckB')
    <2>1. CASE l > 0 /\ l = Len(conv) /\ l = posA /\ UNCHANGED <<shardA, shardB, skewed>>
        <3>1. stateA = conv /\ SubSeq(conv, 1, l) = conv
            BY <2>1, SubSeqFull DEF AtRest, ShardAssign, ShardsType
        <3>2. SubSeq(conv, 1, l) = SubSeq(p, 1, l)
            BY <1>2, <1>3
        <3> QED
            BY <1>1, <1>3, <2>1, <3>1, <3>2 DEF ShardsType, shardA, shardB
    <2>2. CASE BothRestored(l)
        <3>1. /\ Latest(ckA, l) \in 0 .. l /\ RingOK(Noted(ckA, l))
              /\ Latest(ckA, l) > 0 =>
                    /\ ckA[At(ckA, Latest(ckA, l))].state \in Seq(Word)
                    /\ LeadsTo(ckA[At(ckA, Latest(ckA, l))].state, Latest(ckA, l))
            BY <1>3, LatestIs
        <3>2. /\ RingOK(Noted(ckB, l))
              /\ Latest(ckB, l) > 0 =>
                    /\ ckB[At(ckB, Latest(ckB, l))].state \in Seq(Word)
                    /\ LeadsTo(ckB[At(ckB, Latest(ckB, l))].state, Latest(ckB, l))
            BY <1>3, LatestIs
        <3>3. RingOK(ckA') /\ RingOK(ckB')
            BY <2>2, <3>1, <3>2 DEF BothRestored
        <3>4. CASE Agreed(l) = 0
            BY <1>1, <2>2, <3>3, <3>4, ResetReads DEF BothRestored
        <3>5. CASE Agreed(l) # 0
            <4> DEFINE n == Latest(ckA, l)
            <4>1. n = Latest(ckB, l) /\ n > 0 /\ n <= l /\ n <= Len(p)
                BY <1>1, <1>3, <3>1, <3>5 DEF Agreed
            <4>2. /\ posA' = n /\ stateA' = ckA[At(ckA, n)].state
                  /\ posB' = n /\ stateB' = ckB[At(ckB, n)].state
                BY <2>2, <3>5, <4>1 DEF BothRestored
            <4> HIDE DEF n
            <4>3. stateA' = SubSeq(p, 1, n) /\ stateB' = SubSeq(p, 1, n)
                BY <3>1, <3>2, <4>1, <4>2 DEF LeadsTo, n
            <4>4. n \in 0 .. Len(p) - 1
                BY <1>1, <1>3, <3>1, <4>1 DEF n
            <4>5. stateA' \in Seq(Word)
                BY <3>1, <4>1, <4>2 DEF n
            <4> QED
                BY <3>3, <4>2, <4>3, <4>4, <4>5
        <3> QED
            BY <3>4, <3>5
    <2>3. CASE ResetBoth /\ UNCHANGED rings
        BY <1>1, <2>3, ResetReads DEF rings
    <2> QED
        BY <2>1, <2>2, <2>3 DEF ShardAssign, l
<1>6. ShardsType'
    BY <1>1, <1>4, <1>5 DEF ShardsType
<1>7. Served' /\ Serving'
    BY <1>1, <1>4, <1>5 DEF Served, Serving, Reading
<1> QED
    BY <1>5, <1>6, <1>7 DEF AtRest

\* Rows through both shards: one token leaves the rings alone, of several
\* what is checkpointed is what its position leads to.
LEMMA ThroughReads ==
    ASSUME Undisturbed, NEW xs \in Seq(Word), Through(xs),
           Len(xs) = 1 \/ LeadsTo(stateA \o xs, posA + Len(xs))
    PROVE  /\ posA' = posA + Len(xs) /\ stateA' = stateA \o xs /\ posA' \in Nat
           /\ posB' = posA' /\ stateB' = stateA' /\ stateA' \in Seq(Word)
           /\ RingOK(ckA') /\ RingOK(ckB')
<1> USE DEF Undisturbed
<1>1. /\ posA' = posA + Len(xs) /\ stateA' = stateA \o xs
      /\ posB' = posB + Len(xs) /\ stateB' = stateB \o xs
      /\ A!ChainEnd(Len(xs), posA', stateA') /\ B!ChainEnd(Len(xs), posB', stateB')
    BY DEF Through, ThroughA, ThroughB
<1>2. posA' \in Nat /\ posB' = posA' /\ stateB' = stateA' /\ stateA' \in Seq(Word)
    BY <1>1 DEF ShardsType
<1>3. CASE Len(xs) = 1
    <2>1. ckA' = ckA /\ ckB' = ckB
        BY <1>1, <1>3 DEF A!ChainEnd, A!ring, B!ChainEnd, B!ring
    <2> QED
        BY <1>1, <1>2, <2>1
<1>4. CASE LeadsTo(stateA \o xs, posA + Len(xs))
    <2>1. LeadsTo(stateA', posA')
        BY <1>1, <1>4
    <2>2. /\ Overwritten(ckA, posA', stateA', ckA')
          /\ Overwritten(ckB, posA', stateA', ckB')
        BY <1>1, <1>2, EndsAre
    <2>3. RingOK(ckA')
        BY <1>2, <2>1, <2>2, OverwrittenOK
    <2>4. RingOK(ckB')
        BY <1>2, <2>1, <2>2, OverwrittenOK
    <2> QED
        BY <1>1, <1>2, <2>3, <2>4
<1> QED
    BY <1>3, <1>4

LEMMA ReadReads ==
    ASSUME Straight, Undisturbed, NEW c \in 1 .. TextMax, ShardRead(c)
    PROVE  Undisturbed'
<1> USE DEF Undisturbed
<1>1. prompt \in Texts /\ prompt \in Seq(Word) /\ prompt # <<>> /\ Len(prompt) \in Nat \ {0}
    BY TextsAre DEF ShardsType, ShardRead, Served
<1>2. posA \in Nat /\ c \in Nat \ {0} /\ Unread = Len(prompt) - prefilled /\ c <= Unread
    BY ShardsAssumption DEF ShardsAssumption, ShardsType, ShardRead, Unread
<1>3. prefilled = posA /\ conv = prompt /\ stateA = SubSeq(prompt, 1, posA)
    BY <1>1, <1>2 DEF ShardRead, Serving, Reading, Behind
<1>4. posA + c \in 0 .. Len(prompt) /\ posA + c <= Len(prompt)
    BY <1>1, <1>2, <1>3
<1> DEFINE xs == Chunk(c)
<1>5. xs \in Seq(Word) /\ Len(xs) = c
    <2>1. \A i \in posA + 1 .. posA + c : prompt[i] \in Word
        BY <1>1, <1>2, <1>4, ElementOfSeq
    <2>2. xs = SubSeq(prompt, posA + 1, posA + c)
        BY <1>3 DEF Chunk
    <2> HIDE DEF xs
    <2> DEFINE a == posA + 1
               b == posA + c
    <2>4. a \in Int /\ b \in Int /\ a <= b /\ b - a + 1 = c
        BY <1>2
    <2>5. \A i \in a .. b : prompt[i] \in Word
        BY <2>1
    <2> HIDE DEF a, b
    <2>6. SubSeq(prompt, a, b) \in Seq(Word) /\ Len(SubSeq(prompt, a, b)) = IF a <= b THEN b - a + 1 ELSE 0
        BY <1>1, <2>4, <2>5, SubSeqProperties
    <2> QED
        BY <2>2, <2>4, <2>6 DEF a, b
<1>6. stateA \o xs = SubSeq(prompt, 1, posA + c)
    BY <1>1, <1>2, <1>3, <1>4, FirstAndNext DEF Chunk
<1>7. LeadsTo(stateA \o xs, posA + Len(xs))
    <2>1. ASSUME NEW q \in Texts, posA + c <= Len(q)
          PROVE  SubSeq(prompt, 1, posA + c) = SubSeq(q, 1, posA + c)
        BY <1>1, <1>2, <1>4, <2>1, TextsAgree
    <2> HIDE DEF xs
    <2> QED
        BY <1>5, <1>6, <2>1 DEF LeadsTo
<1>8. Through(xs)
    BY DEF ShardRead
<1> HIDE DEF xs
<1>9. /\ posA' = posA + c /\ stateA' = SubSeq(prompt, 1, posA') /\ posA' \in Nat
      /\ posB' = posA' /\ stateB' = stateA' /\ stateA' \in Seq(Word)
      /\ RingOK(ckA') /\ RingOK(ckB')
    BY <1>5, <1>6, <1>7, <1>8, ThroughReads
<1>10. prompt' = prompt /\ prefilled' = posA'
    BY <1>3, <1>9 DEF ShardRead
<1>11. conv' \in Seq(Word) /\ SubSeq(conv', 1, posA') = SubSeq(prompt, 1, posA') /\ (Reading' \/ Behind')
    <2>1. CASE c < Unread
        <3>1. conv' = prompt
            BY <1>3, <2>1 DEF ShardRead
        <3> QED
            BY <1>1, <1>2, <1>3, <1>9, <1>10, <2>1, <3>1 DEF Reading
    <2>2. CASE ~(c < Unread)
        <3>1. PICK x \in Word : conv' = Append(prompt, x)
            BY <1>3, <2>2 DEF ShardRead
        <3>2. /\ conv' \in Seq(Word) /\ Len(conv') = Len(prompt) + 1
              /\ \A n \in 0 .. Len(prompt) : SubSeq(conv', 1, n) = SubSeq(prompt, 1, n)
            BY <1>1, <3>1, FrontOfAppend
        <3>3. posA' = Len(prompt)
            BY <1>1, <1>2, <1>3, <1>9, <2>2
        <3> QED
            BY <1>1, <1>10, <3>2, <3>3 DEF Behind
    <2> QED
        BY <2>1, <2>2
<1>12. ShardsType'
    BY <1>1, <1>9, <1>10, <1>11 DEF ShardsType
<1>13. Served' /\ Serving'
    BY <1>1, <1>9, <1>10, <1>11 DEF Served, Serving
<1> QED
    BY <1>9, <1>12, <1>13 DEF AtRest

\* The conversation is one token ahead of both shards, which read its last.
LEMMA NewestReads ==
    ASSUME Undisturbed, Generating
    PROVE  /\ Len(conv) = posA + 1 /\ prefilled = Len(prompt) /\ prompt # <<>>
           /\ Newest \in Seq(Word) /\ Len(Newest) = 1
           /\ stateA \o Newest = conv /\ SubSeq(conv, 1, posA + 1) = conv
<1> USE DEF Undisturbed
<1>1. prompt \in Texts /\ Len(prompt) \in Nat \ {0} /\ prompt # <<>>
    BY TextsAre DEF ShardsType, Generating, Served
<1>2. conv \in Seq(Word) /\ posA \in Nat
    BY DEF ShardsType
<1>3. Len(conv) = posA + 1 /\ stateA = SubSeq(conv, 1, posA) /\ prefilled = Len(prompt)
    BY <1>1, <1>2 DEF Serving, Reading, Behind, Generating, Unread
<1>4. conv # <<>>
    BY <1>2, <1>3
<1>5. Last(conv) \in Word /\ Front(conv) \o <<Last(conv)>> = conv /\ Front(conv) = SubSeq(conv, 1, posA)
    <2>1. Last(conv) \in Word
        BY <1>2, <1>4, FrontIs
    <2>2. Front(conv) \o <<Last(conv)>> = conv
        BY <1>2, <1>4, EmitsRows
    <2>3. Front(conv) = SubSeq(conv, 1, posA)
        BY <1>2, <1>3 DEF Front
    <2> QED
        BY <2>1, <2>2, <2>3
<1>6. SubSeq(conv, 1, posA + 1) = conv
    BY <1>2, <1>3, SubSeqFull
<1>7. <<Last(conv)>> \in Seq(Word) /\ Len(<<Last(conv)>>) = 1
    BY <1>5
<1> QED
    BY <1>1, <1>3, <1>5, <1>6, <1>7 DEF Newest

LEMMA DecodeReads ==
    ASSUME Undisturbed, Generating, Through(Newest), Emits, UNCHANGED <<prompt, prefilled>>
    PROVE  Undisturbed'
<1> USE DEF Undisturbed
<1>1. /\ Len(conv) = posA + 1 /\ prefilled = Len(prompt) /\ prompt # <<>>
      /\ Newest \in Seq(Word) /\ Len(Newest) = 1
      /\ stateA \o Newest = conv /\ SubSeq(conv, 1, posA + 1) = conv
    BY NewestReads
<1>2. /\ posA' = posA + 1 /\ stateA' = conv /\ posA' \in Nat
      /\ posB' = posA' /\ stateB' = stateA' /\ stateA' \in Seq(Word)
      /\ RingOK(ckA') /\ RingOK(ckB')
    BY <1>1, ThroughReads
<1>3. conv \in Seq(Word) /\ posA \in Nat
    BY DEF ShardsType
<1>4. PICK x \in Word : conv' = Append(conv, x)
    BY DEF Emits
<1>5. /\ conv' \in Seq(Word) /\ Len(conv') = Len(conv) + 1
      /\ \A n \in 0 .. Len(conv) : SubSeq(conv', 1, n) = SubSeq(conv, 1, n)
    BY <1>3, <1>4, FrontOfAppend
<1>6. SubSeq(conv', 1, posA') = conv
    <2>1. posA + 1 \in 0 .. Len(conv)
        BY <1>1, <1>3
    <2>2. SubSeq(conv', 1, posA + 1) = SubSeq(conv, 1, posA + 1)
        BY <1>5, <2>1
    <2> QED
        BY <1>1, <1>2, <2>2
<1>7. ShardsType' /\ Behind'
    BY <1>1, <1>2, <1>3, <1>5 DEF ShardsType, Behind
<1>8. Served' /\ Serving'
    BY <1>1, <1>2, <1>6, <1>7 DEF Served, Serving
<1> QED
    BY <1>2, <1>7, <1>8 DEF AtRest

LEMMA FinishReads == Undisturbed /\ ShardFinish => Undisturbed'
<1> SUFFICES ASSUME Undisturbed, ShardFinish PROVE Undisturbed'
    OBVIOUS
<1> USE DEF Undisturbed
<1>1. prompt \in Texts /\ Len(prompt) \in Nat \ {0}
    BY TextsAre DEF ShardsType, ShardFinish, Served
<1>2. conv \in Seq(Word) /\ Len(conv) \in Nat /\ posA \in Nat
    BY DEF ShardsType
<1>3. stateA = SubSeq(conv, 1, posA) /\ Unread = 0 /\ Served
    BY DEF ShardFinish, Serving
<1>4. PICK n \in Len(prompt) .. Len(conv) : conv' = SubSeq(conv, 1, n)
    BY DEF ShardFinish
<1>5. n \in 0 .. Len(conv) /\ conv' \in Seq(Word) /\ Len(conv') = n
    <2>1. n \in 0 .. Len(conv)
        BY <1>1, <1>2
    <2> QED
        BY <1>2, <1>4, <2>1, FirstOnes
<1>6. /\ stateA' = stateA /\ posA' = posA /\ stateB' = stateB /\ posB' = posB
      /\ prompt' = <<>> /\ ckA' = ckA /\ ckB' = ckB
    BY DEF ShardFinish, shardA, shardB
<1>7. ShardsType' /\ RingOK(ckA') /\ RingOK(ckB')
    BY <1>5, <1>6 DEF ShardsType
<1>8. AtRest' /\ ~Served'
    BY <1>3, <1>4, <1>5, <1>6 DEF AtRest, Served
<1> QED
    BY <1>7, <1>8 DEF Serving

LEMMA ForgetReads == Undisturbed /\ (ShardFail \/ ShardReclaim) => Undisturbed'
<1> SUFFICES ASSUME Undisturbed, ShardFail \/ ShardReclaim PROVE Undisturbed'
    OBVIOUS
<1> USE DEF Undisturbed
<1>1. <<>> \in Seq(Word) /\ Len(<<>>) = 0
    OBVIOUS
<1>2. CASE ShardFail
    <2>1. stateA' = <<>> /\ posA' = 0 /\ stateB' = <<>> /\ posB' = 0
        BY <1>2, ResetIs DEF ShardFail
    <2>2. prompt' = <<>> /\ conv' = <<>> /\ ckA' = ckA /\ ckB' = ckB
        BY <1>2 DEF ShardFail, rings
    <2>3. ShardsType' /\ RingOK(ckA') /\ RingOK(ckB') /\ AtRest' /\ ~Served'
        BY <1>1, <2>1, <2>2 DEF ShardsType, AtRest, Served
    <2> QED
        BY <2>3 DEF Serving
<1>3. CASE ShardReclaim
    <2>1. /\ stateA' = stateA /\ posA' = posA /\ stateB' = stateB /\ posB' = posB
          /\ prompt' = prompt /\ conv' = <<>> /\ ckA' = ckA /\ ckB' = ckB /\ ~Served'
        BY <1>3 DEF ShardReclaim, shardA, shardB, Served
    <2>2. ShardsType' /\ RingOK(ckA') /\ RingOK(ckB')
        BY <1>1, <2>1 DEF ShardsType
    <2>3. AtRest'
        BY <1>1, <2>1 DEF AtRest
    <2> QED
        BY <2>1, <2>2, <2>3 DEF Serving
<1> QED
    BY <1>2, <1>3

LEMMA ShardsInvStep == Straight /\ ShardsInv /\ [ShardsNext]_shardsVars => ShardsInv'
<1> SUFFICES ASSUME Straight, ShardsInv, [ShardsNext]_shardsVars PROVE ShardsInv'
    OBVIOUS
<1>1. Together' /\ (skewed' => past' # {})
    BY StaysTogether, PastStays DEF ShardsInv
<1>2. ASSUME past' = {} PROVE Undisturbed'
    <2>1. past = {} /\ Undisturbed
        BY <1>2, PastStays DEF ShardsInv
    <2>2. CASE ShardDecode
        BY <2>1, <2>2, DecodeReads DEF ShardDecode
    <2>3. CASE MixedDecode
        <3>1. ~HeadGpu
            BY <1>2, <2>3 DEF MixedDecode, Happened
        <3> QED
            BY <2>1, <2>3, <3>1, DecodeReads DEF MixedDecode
    <2>4. ASSUME NEW xs \in Runs, Torn(xs) PROVE FALSE
        BY <1>2, <2>4 DEF Torn, Happened
    <2>5. ASSUME NEW draft \in BoundedSeq(Word, GuessMax), NEW acc \in 0 .. Len(draft),
                 NEW graph \in BOOLEAN, ShardVerify(draft, acc, graph)
          PROVE  FALSE
        BY <1>2, <2>5 DEF ShardVerify, Happened
    <2>6. CASE UNCHANGED shardsVars
        <3>1. /\ stateA' = stateA /\ posA' = posA /\ stateB' = stateB /\ posB' = posB
              /\ prompt' = prompt /\ conv' = conv /\ prefilled' = prefilled /\ ckA' = ckA /\ ckB' = ckB
            BY <2>6 DEF shardsVars, shardA, shardB
        <3> QED
            BY <2>1, <3>1 DEF Undisturbed, ShardsType, AtRest, Serving, Reading, Behind, Served
    <2> QED
        BY <2>1, <2>2, <2>3, <2>4, <2>5, <2>6, AssignReads, ReadReads, FinishReads, ForgetReads
           DEF ShardsNext
<1> QED
    BY <1>1, <1>2 DEF ShardsInv

LEMMA ShardsInvInit == ShardsInit => ShardsInv
<1> SUFFICES ASSUME ShardsInit PROVE ShardsInv
    OBVIOUS
<1>1. <<>> \in Seq(Word) /\ A!NoCkpt \in [pos : Nat, state : Seq(Word), saved : Int] /\ A!NoCkpt.pos = 0
    BY DEF A!NoCkpt
<1>2. B!NoCkpt = A!NoCkpt /\ B!RingEntry = A!RingEntry
    BY DEF A!NoCkpt, B!NoCkpt, A!RingEntry, B!RingEntry
<1>3. RingOK([e \in A!RingEntry |-> A!NoCkpt])
    BY <1>1 DEF RingOK, Ring, LeadsTo
<1>4. RingOK(ckA) /\ RingOK(ckB)
    BY <1>2, <1>3 DEF ShardsInit
<1>5. ShardsType
    BY <1>1 DEF ShardsInit, ShardsType
<1> QED
    BY <1>4, <1>5 DEF ShardsInit, ShardsInv, Together, Undisturbed, AtRest, Serving, Served

(***************************************************************************)
(* Both shards have read the conversation, token by token, although each   *)
(* goes back by checkpoints of its own (assign_slot, restore_prefix,       *)
(* slot_prefill, forward_2shard): with any number of checkpoints and any   *)
(* distance between them, as long as the prompts of the sequence continue  *)
(* one another and nothing that ShardsInStep exempts has happened.         *)
(***************************************************************************)
THEOREM ShardsReadTheSame == ASSUME Straight PROVE ShardsSpec => []ShardsInStep
<1>1. ShardsInv => ShardsInStep
    BY DEF ShardsInv, ShardsInStep, Together, Undisturbed, ShardsType, Serving
<1>2. ShardsInv /\ [ShardsNext]_shardsVars => ShardsInv'
    BY ShardsInvStep
<1> QED
    BY <1>1, <1>2, ShardsInvInit, PTL DEF ShardsSpec
=============================================================================
