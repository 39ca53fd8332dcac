----------------------------- MODULE ExpertCache -----------------------------
(***************************************************************************)
(* The experts of a layer when they do not all fit into VRAM (moe_gemv.rs  *)
(* of w4a16_dec): a cache of k slots that the selected experts are copied  *)
(* into before the kernels that read them are launched.  One token keeps a *)
(* list of the addresses it found (moe_experts_streaming); a chunk goes by *)
(* the table of addresses on the device (moe_stage_t).  Copies and kernels *)
(* are on one stream, so they happen in the order they are issued.         *)
(*                                                                         *)
(* Experts are those that are not always resident (hot_per_layer).  Ages   *)
(* are kept as the order of last use; the counter behind them may wrap at  *)
(* any of its steps, which makes all ages equal.                           *)
(***************************************************************************)
EXTENDS Integers, Sequences, SequencesExt, FiniteSets, FiniteSetsExt

CONSTANTS Expert,
          Ks,         \* sizes the cache may get: what is free in VRAM, or tuned
          TopK,       \* experts selected for a token
          ChunkTokens    \* tokens of a chunk (prefill_tmax, 8 to 12)

None == "none"

ASSUME ExpertAssumption ==
    /\ IsFiniteSet(Expert) /\ None \notin Expert
    /\ Ks \subseteq Nat /\ Ks # {} /\ TopK \in Nat /\ ChunkTokens \in Nat

VARIABLES ids,       \* mcache_ids: the expert each slot is registered for
          recent,    \* the slots by mcache_age, the oldest first
          weights,   \* the expert whose weights are in the slot
          devTab,     \* moe_dev_tab: the slot of each expert, 0 when never set
          torn,      \* experts registered although their copy failed
          pass       \* the call in progress

expertVars == <<ids, recent, weights, devTab, torn, pass>>

K == Len(ids)       \* mcache_k
Staged == 1 .. K
InOrder == [s \in Staged |-> s]

NoStage == [mode |-> "idle", sel |-> <<>>, found |-> <<>>, wrapped |-> FALSE]

(***************************************************************************)
(* ensure_moe_bufs after set_lru_tuning, an eviction of the cache as a     *)
(* whole, or at the start: a new cache of k slots in new memory.           *)
(***************************************************************************)
EmptyCache(k) ==
    /\ ids' = [s \in 1 .. k |-> None] /\ recent' = [s \in 1 .. k |-> s]
    /\ weights' = [s \in 1 .. k |-> None] /\ torn' = {}

Retune(k) ==
    /\ pass.mode = "idle" /\ K > 0
    /\ EmptyCache(k)
    /\ UNCHANGED <<devTab, pass>>

(***************************************************************************)
(* The selection of a token is the experts the gate ranks highest.  A      *)
(* chunk is refused when there is no cache or when its experts are more    *)
(* than the cache has slots for.                                           *)
(***************************************************************************)
Distinct == {sel \in BoundedSeq(Expert, TopK) : IsInjective(sel)}
ChunkSelections ==
    BoundedSeq(Expert, ChunkTokens * TopK)
        \intersect {FlattenSeq(sels) : sels \in BoundedSeq(Distinct, ChunkTokens)}

TokenStep(sel) ==
    /\ pass.mode = "idle" /\ sel # <<>>
    /\ pass' = [NoStage EXCEPT !.mode = "token", !.sel = sel]
    /\ UNCHANGED <<ids, recent, weights, devTab, torn>>

Chunk(sel) ==
    /\ pass.mode = "idle" /\ K > 0
    /\ Cardinality(ToSet(sel)) <= K
    /\ pass' = [NoStage EXCEPT !.mode = "chunk", !.sel = sel]
    /\ UNCHANGED <<ids, recent, weights, devTab, torn>>

(***************************************************************************)
(* The next expert of the call: mcache_lookup, and on a miss mcache_insert *)
(* with mcache_upload_to: the first empty slot, else the oldest.  Each of  *)
(* the two bumps the counter first; w1 and w2 say whether it wraps there.  *)
(***************************************************************************)
Selecting == pass.mode \in {"token", "chunk"} /\ Len(pass.found) < Len(pass.sel)
This == pass.sel[Len(pass.found) + 1]
Hit == {s \in Staged : ids[s] = This}

Found(s, wraps) ==
    pass' = [pass EXCEPT !.found = Append(@, s), !.wrapped = @ \/ wraps]

BumpUnused(order, s, wraps) == IF wraps THEN InOrder ELSE order     \* fault: no age is set

MadeLast(order, s) ==
    LET i == CHOOSE i \in DOMAIN order : order[i] = s
    IN  Append(RemoveAt(order, i), s)

Bump(order, s, wraps) == IF wraps THEN InOrder ELSE MadeLast(order, s)

Lookup(w1) ==
    /\ Selecting
    /\ \E s \in Hit :
        /\ s = Min(Hit)
        /\ recent' = Bump(recent, s, w1)
        /\ Found(s, w1)
    /\ UNCHANGED <<ids, weights, devTab, torn>>

Oldest(order) ==
    LET empty == {s \in Staged : ids[s] = None}
    IN  IF empty # {} THEN Min(empty) ELSE Head(order)

Register(s, order, w2) ==
    /\ ids' = [ids EXCEPT ![s] = This]
    /\ recent' = Bump(order, s, w2)

After(w1, w2) == IF w1 \/ w2 THEN InOrder ELSE recent

Insert(w1, w2) ==
    /\ Selecting /\ Hit = {} /\ K > 0
    /\ LET s == Oldest(After(w1, w2))
       IN  /\ Register(s, After(w1, FALSE), w2)
           /\ devTab' = [devTab EXCEPT ![This] = s]
           /\ weights' = [weights EXCEPT ![s] = This]
           /\ Found(s, w1 \/ w2)
    /\ torn' = torn \ {This}

(***************************************************************************)
(* A copy fails: the expert is registered already, its table entry or some *)
(* of its weights were not copied, and the call is the error.              *)
(***************************************************************************)
InsertErr(w1, w2) ==
    /\ Selecting /\ Hit = {} /\ K > 0
    /\ LET s == Oldest(After(w1, w2))
       IN  /\ Register(s, After(w1, FALSE), w2)
           /\ \/ UNCHANGED <<devTab, weights>>
              \/ /\ devTab' = [devTab EXCEPT ![This] = s]
                 /\ weights' = [weights EXCEPT ![s] = None]
    /\ torn' = torn \union {This}
    /\ pass' = NoStage

\* Without a cache a token's experts have places of their own (stg).
Stage ==
    /\ Selecting /\ K = 0
    /\ Found(0, FALSE)
    /\ UNCHANGED <<ids, recent, weights, devTab, torn>>

StageErr ==
    /\ Selecting /\ K = 0
    /\ pass' = NoStage
    /\ UNCHANGED <<ids, recent, weights, devTab, torn>>

Staging(w1, w2) ==
    \/ ~w2 /\ Lookup(w1)
    \/ ~(w1 /\ w2) /\ (Insert(w1, w2) \/ InsertErr(w1, w2))

\* All experts are staged: the kernels run.
Launching == pass.mode # "idle" /\ ~Selecting

Launch ==
    /\ Launching
    /\ pass' = NoStage
    /\ UNCHANGED <<ids, recent, weights, devTab, torn>>

ExpertInit ==
    /\ \E k \in Ks :
        /\ ids = [s \in 1 .. k |-> None] /\ recent = [s \in 1 .. k |-> s]
        /\ weights = [s \in 1 .. k |-> None]
    /\ devTab = [e \in Expert |-> 0] /\ torn = {} /\ pass = NoStage

ExpertNext ==
    \/ \E k \in Ks : Retune(k)
    \/ \E sel \in Distinct : TokenStep(sel)
    \/ \E sel \in ChunkSelections : Chunk(sel)
    \/ \E w1, w2 \in BOOLEAN : Staging(w1, w2)
    \/ Stage \/ StageErr \/ Launch

ExpertSpec == ExpertInit /\ [][ExpertNext]_expertVars
-----------------------------------------------------------------------------
(***************************************************************************)
(* Each selected expert is computed with its own weights: nothing staged   *)
(* later in the call took its slot, and no address is from before.  But    *)
(* for an expert whose copy failed (it stays registered) and for a call in *)
(* which the counter of ages wrapped (its experts look unused).            *)
(***************************************************************************)
ReadsOwn(i) ==
    LET s == IF pass.mode = "token" THEN pass.found[i] ELSE devTab[pass.sel[i]]
    IN  \/ s \in Staged /\ weights[s] = pass.sel[i]
        \/ s = 0 /\ K = 0

ExpertsOwn ==
    Launching /\ ~pass.wrapped =>
        \A i \in DOMAIN pass.sel : pass.sel[i] \in torn \/ ReadsOwn(i)
=============================================================================
