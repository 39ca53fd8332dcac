------------------------------ MODULE LoadGate ------------------------------
(***************************************************************************)
(* How servers that share a card and the host's memory come up (main.rs,   *)
(* resource.rs, core/src/plan.rs): the load lock, the preflight guard, the *)
(* plan of what goes where, the split of the KV between the tiers, and the *)
(* load, in the order of the process.  A server holds the lock from before *)
(* it reads how much is free until what it loads is allocated; its working *)
(* buffers come later, out of the reserve.  KV costs one unit per token.   *)
(***************************************************************************)
EXTENDS Integers, FiniteSets

CONSTANTS Server,        \* the processes
          Orders,        \* what they are asked to serve: see OrderType
          CardMemory, HostMemory,   \* memory of the card and of the host
          Reserve,       \* VRAM_RESERVE
          RamReserve,    \* HOST_RESERVE
          Margin,        \* margin of upload_moe
          Scratch,       \* least runtime_scratch
          BlockTokens,   \* tokens of a KV block (512)
          Contexts,      \* SERVE_CONTEXTS
          State          \* recurrent state of a context

OrderType == [dense : Nat, head : Nat, experts : Nat, rows : Nat, embed : Nat,
              gpuEmbed : BOOLEAN,   \* embed_resident
              listed : BOOLEAN,     \* can the manifest be read?
              kvMem : Nat, maxCtx : Nat]

ASSUME LoadGateAssumption ==
    /\ \A o \in Orders : o \in OrderType /\ o.head <= o.dense
    /\ {CardMemory, HostMemory, Reserve, RamReserve, Margin, Scratch, State} \subseteq Nat
    /\ {BlockTokens, Contexts} \subseteq Nat \ {0}

Nobody == "nobody"

\* The first context's state is part of the reserve, and one server at most
\* allocates from its reserve while another loads.
ASSUME TwoServers ==
    /\ State <= Reserve
    /\ IsFiniteSet(Server) /\ Cardinality(Server) <= 2 /\ Nobody \notin Server

VARIABLES vram, ram,     \* what is free
          holder,        \* who has the load lock
          stage,         \* how far a server is
          order,         \* what it serves
          kv,            \* its plan: what is to be where, and does it fit
          has            \* what it has allocated

gateVars == <<vram, ram, holder, stage, order, kv, has>>

NoOrder == CHOOSE o \in Orders : TRUE
NoPlan == [fits |-> FALSE, vram |-> 0, ram |-> 0, seen |-> 0, seenRam |-> 0]

Less(m, n) == IF m <= n THEN 0 ELSE m - n     \* saturating_sub
Lower(m, n) == IF m <= n THEN m ELSE n
Higher(m, n) == IF m <= n THEN n ELSE m
Aligned(n) == (n \div BlockTokens) * BlockTokens

(***************************************************************************)
(* plan: the order of the claims on the card is the dense weights, the     *)
(* embedding, the reserve, the states, the KV of the context, and what is  *)
(* spare goes to experts and then to the sparse rows.                      *)
(***************************************************************************)
Others == (Contexts - 1) * State
OnCard(o) == IF o.gpuEmbed THEN o.embed ELSE 0

\* fault: the states of the other contexts are forgotten.
StatelessBudget(o, v) == Less(v, o.dense + OnCard(o) + Reserve)

KvBudget(o, v) == Less(v, o.dense + OnCard(o) + Reserve + Others)

Plan(o, v, host) ==
    LET budget == KvBudget(o, v)
        ctx == Lower(Aligned(budget), o.maxCtx)
        spare == budget - ctx
        hot == Lower(o.experts, spare)
        need == o.experts - hot + (o.embed - OnCard(o))
    IN  [fits |-> o.dense + OnCard(o) + Reserve <= v /\ ctx >= BlockTokens,
         budget |-> budget, ctx |-> ctx, hot |-> hot,
         experts |-> IF o.experts <= spare THEN "vram"
                     ELSE IF host >= o.experts + (o.embed - OnCard(o)) THEN "host" ELSE "ssd",
         rows |-> IF o.rows <= spare - hot THEN "vram" ELSE "ssd",
         ramNeed |-> need, kvRam |-> Less(host, need)]

-----------------------------------------------------------------------------
Go(s, to) == stage' = [stage EXCEPT ![s] = to]

\* A process that ends, wherever it is: the lock and all memory go back.
Exit(s) ==
    /\ Go(s, "off")
    /\ holder' = IF holder = s THEN Nobody ELSE holder
    /\ vram' = vram + has[s].vram /\ ram' = ram + has[s].ram
    /\ has' = [has EXCEPT ![s] = [vram |-> 0, ram |-> 0]]
    /\ order' = [order EXCEPT ![s] = NoOrder] /\ kv' = [kv EXCEPT ![s] = NoPlan]

Start(s, o) ==
    /\ stage[s] = "off"
    /\ Go(s, "waiting") /\ order' = [order EXCEPT ![s] = o]
    /\ UNCHANGED <<vram, ram, holder, kv, has>>

\* acquire_load_lock: flock, or an error when 600 s have passed.
Locks(s) ==
    /\ stage[s] = "waiting" /\ holder = Nobody
    /\ holder' = s /\ Go(s, "guard")
    /\ UNCHANGED <<vram, ram, order, kv, has>>

TimesOut(s) == stage[s] = "waiting" /\ holder # Nobody /\ Exit(s)

(***************************************************************************)
(* preflight: check_dense_vram, where the manifest can be read, and check. *)
(***************************************************************************)
Total(o) == o.dense + o.experts + o.rows + o.embed
Staged(o) == o.experts + o.rows \div 4
ModelBytes(o) ==
    IF Staged(o) > 0 THEN Staged(o) ELSE Total(o) + Higher(Total(o) \div 8, Scratch)

Passes(o) ==
    /\ o.listed => o.dense + Reserve <= vram
    /\ (ModelBytes(o) * 11) \div 10 <= vram + (ram * 17) \div 20

\* fault: the lock is given back as soon as the guard is through.
PreflightUnlocks(s) ==
    /\ stage[s] = "guard" /\ Passes(order[s])
    /\ Go(s, "plan") /\ holder' = Nobody
    /\ UNCHANGED <<vram, ram, order, kv, has>>

Preflight(s) ==
    /\ stage[s] = "guard" /\ Passes(order[s])
    /\ Go(s, "plan")
    /\ UNCHANGED <<vram, ram, holder, order, kv, has>>

\* The guard's refusal, with VRAM that cannot be read as one.
PreflightFails(s) == stage[s] = "guard" /\ Exit(s)

(***************************************************************************)
(* cmd_serve: kv_layout, the plan on what is free by now, kv_split, and    *)
(* the guard of the host's part.  A plan that refuses does not end the     *)
(* process: it only leaves the limit of the KV at the plain estimate.      *)
(***************************************************************************)
Estimate(o) == Less(vram, (IF o.experts = 0 THEN Total(o) ELSE 0) + Reserve + Others)

MaxKv(o) ==
    IF o.listed /\ Plan(o, vram, ram).fits THEN Plan(o, vram, ram).budget ELSE Estimate(o)

KvSplit(o) ==
    LET part == Lower(o.kvMem, MaxKv(o))
    IN  [fits |-> o.listed /\ Plan(o, vram, ram).fits,
         vram |-> part, ram |-> o.kvMem - part, seen |-> vram, seenRam |-> ram]

KvRefused(o) ==
    \/ Aligned(Lower(o.kvMem, o.maxCtx)) < BlockTokens
    \/ KvSplit(o).ram > 0 /\ KvSplit(o).ram + RamReserve > ram

Plans(s) ==
    /\ stage[s] = "plan" /\ ~KvRefused(order[s])
    /\ kv' = [kv EXCEPT ![s] = KvSplit(order[s])]
    /\ Go(s, "dense")
    /\ UNCHANGED <<vram, ram, holder, order, has>>

PlanRefuses(s) == stage[s] = "plan" /\ KvRefused(order[s]) /\ Exit(s)

(***************************************************************************)
(* The load: the layers' dense weights; then, of a mixture of experts, as  *)
(* many experts as leave room for the KV and a margin; then head,          *)
(* embedding, states and KV.  Out of memory ends the process.              *)
(***************************************************************************)
Layers(o) == o.dense - o.head
Resting(s) == order[s].head + OnCard(order[s]) + Contexts * State + kv[s].vram

\* Experts that go to the card: all, or what is left (a part, or none).
Hot(o) ==
    IF vram > o.experts + o.kvMem + Margin THEN o.experts
    ELSE Lower(o.experts, Less(vram, o.kvMem + Margin))

Takes(s, v, r) ==
    /\ v <= vram /\ r <= ram
    /\ vram' = vram - v /\ ram' = ram - r
    /\ has' = [has EXCEPT ![s] = [vram |-> @.vram + v, ram |-> @.ram + r]]

LoadsDense(s) ==
    /\ stage[s] = "dense" /\ Takes(s, Layers(order[s]), 0)
    /\ Go(s, "experts")
    /\ UNCHANGED <<holder, order, kv>>

\* hot: all of Hot when it is all experts, otherwise at most that.
PlacesExperts(s) ==
    /\ stage[s] = "experts"
    /\ \E hot \in 0 .. Hot(order[s]) :
          /\ Hot(order[s]) = order[s].experts => hot = order[s].experts
          /\ Takes(s, hot, 0)
    /\ Go(s, "rest")
    /\ UNCHANGED <<holder, order, kv>>

LoadsRest(s) ==
    /\ stage[s] = "rest" /\ Takes(s, Resting(s), kv[s].ram)
    /\ Go(s, "up") /\ holder' = Nobody          \* release_load_lock
    /\ UNCHANGED <<order, kv>>

OutOfMemory(s) ==
    /\ \/ stage[s] = "dense" /\ Layers(order[s]) > vram
       \/ stage[s] = "rest" /\ (Resting(s) > vram \/ kv[s].ram > ram)
    /\ Exit(s)

\* Working buffers and graphs, when the first requests need them.
WarmsUp(s) ==
    /\ stage[s] = "up"
    /\ \E w \in 1 .. Reserve - State : Takes(s, w, 0)
    /\ Go(s, "warm")
    /\ UNCHANGED <<holder, order, kv>>

GateInit ==
    /\ vram = CardMemory /\ ram = HostMemory /\ holder = Nobody
    /\ stage = [s \in Server |-> "off"] /\ order = [s \in Server |-> NoOrder]
    /\ kv = [s \in Server |-> NoPlan] /\ has = [s \in Server |-> [vram |-> 0, ram |-> 0]]

GateNext ==
    \E s \in Server :
        \/ \E o \in Orders : Start(s, o)
        \/ Locks(s) \/ TimesOut(s)
        \/ Preflight(s) \/ PreflightFails(s)
        \/ Plans(s) \/ PlanRefuses(s)
        \/ LoadsDense(s) \/ PlacesExperts(s) \/ LoadsRest(s) \/ OutOfMemory(s)
        \/ WarmsUp(s)
        \/ stage[s] # "off" /\ Exit(s)

GateSpec == GateInit /\ [][GateNext]_gateVars
-----------------------------------------------------------------------------
(***************************************************************************)
(* A plan that does not refuse spends each byte once: dense weights,       *)
(* embedding, reserve, states, context, hot experts and the sparse rows it *)
(* keeps on the card are within it, what it counts on in the host's memory *)
(* is there when it says so, and the KV may have what is left.             *)
(***************************************************************************)
PlanSpendsOnce ==
    \A s \in Server :
        kv[s].fits =>
            LET o == order[s]
                p == Plan(o, kv[s].seen, kv[s].seenRam)
            IN  /\ o.dense + OnCard(o) + Reserve + Others + p.ctx + p.hot
                      + (IF p.rows = "vram" THEN o.rows ELSE 0) <= kv[s].seen
                /\ p.experts = "vram" <=> p.hot = o.experts
                /\ p.experts = "host" => p.ramNeed + p.kvRam = kv[s].seenRam

(***************************************************************************)
(* What a start was told fits does fit when it is loaded: another server   *)
(* may take its working buffers in between, but none can have loaded on    *)
(* the same reading.  Of a mixture of experts only as far as the experts:  *)
(* the margin they leave does not look at head, embedding and states.      *)
(***************************************************************************)
PassedFits ==
    \A s \in Server :
        kv[s].fits =>
            /\ stage[s] = "dense" =>
                  /\ Layers(order[s]) <= vram
                  /\ order[s].experts = 0 => Layers(order[s]) + Resting(s) <= vram
            /\ stage[s] = "rest" /\ order[s].experts = 0 => Resting(s) <= vram
            /\ stage[s] \in {"dense", "experts", "rest"} => kv[s].ram <= ram
=============================================================================
