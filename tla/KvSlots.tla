------------------------------- MODULE KvSlots -------------------------------
(***************************************************************************)
(* What a request does to the KV cache of its slot, from admission to      *)
(* reclaim: the reservation made by assign_slot (sched/assign.rs), the     *)
(* growth and trimming around every forward pass (w4a16_dec/upload.rs and  *)
(* gpu_engine/gemma.rs), the reuse of a cached prefix, and the scheduler's *)
(* reclaim of idle slots (sched.rs).                                       *)
(*                                                                         *)
(* Tokens are left out: a prompt is its length, and the length of the      *)
(* prefix it shares with a cached conversation is an input.  Which block   *)
(* backs an entry is KvPool's concern; here an entry has one or not.       *)
(***************************************************************************)
EXTENDS Integers, FiniteSets

CONSTANTS Slot,
          Layer,            \* the attention layers
          Sliding,          \* those with a sliding window
          BT,               \* rows of a block (512)
          Mb,               \* blocks of one layer at most: context / 512
          TotalBlocks,      \* blocks of the pool
          SW,               \* rows of the sliding window
          Grid,             \* the prefill chunk grid of the Gemma engine
          VerifyMax,        \* SPEC_VERIFY_TMAX - 1 = RESERVE_SLACK
          ModelMax,         \* the model's own context limit
          Prompts,          \* prompt lengths asked for
          Predicts,         \* max_tokens asked for
          Gemma,            \* the Gemma engine; FALSE: the Qwen engine
          PartialSharing    \* do prompts share part of a conversation?

ASSUME SlotsAssumption ==
    /\ IsFiniteSet(Slot)
    /\ IsFiniteSet(Layer) /\ Layer # {}
    /\ Sliding \subseteq Layer
    /\ BT \in Nat \ {0} /\ Mb \in Nat \ {0} /\ TotalBlocks \in Nat
    /\ SW \in Nat \ {0} /\ Grid \in Nat \ {0} /\ VerifyMax \in Nat \ {0, 1}
    /\ ModelMax \in Nat
    /\ Prompts \subseteq Nat \ {0} /\ Predicts \subseteq Nat
    /\ Gemma \in BOOLEAN /\ PartialSharing \in BOOLEAN
    /\ ~Gemma => Sliding = {}

VARIABLES mapped,       \* entries of the slot's block map that have a block
          hollow,       \* those whose block came when rows of theirs were written
          kvAssigned,   \* kv_assigned[s]
          kvFloor,      \* kv_floor[s]: sliding rows below it were given back
          pos,          \* slot_pos[s]
          job,          \* the request the slot serves, or NoJob
          cached,       \* length of the conversation whose rows are kept
          exhausted     \* some kv_grow found the pool empty

slotVars == <<mapped, hollow, kvAssigned, kvFloor, pos, job, cached, exhausted>>

MinOf(a, b) == IF a <= b THEN a ELSE b
MaxOf(a, b) == IF a >= b THEN a ELSE b

Entry == Layer \X (0 .. Mb - 1)
Cap == Mb * BT

NoJob == [prompt |-> 0, predict |-> 0]
Idle(s) == job[s] = NoJob

(***************************************************************************)
(* The rows reserved for a job: the prompt, the tokens asked for, and the  *)
(* rows a last verify pass may write beyond them.                          *)
(***************************************************************************)
NeedWithoutSlack(j) == j.prompt + j.predict     \* fault

Need(j) == j.prompt + j.predict + VerifyMax

(***************************************************************************)
(* kv_blocks_needed, and kv_cap_tokens with the cap http.rs takes from it. *)
(***************************************************************************)
BlocksOf(n) == MinOf((n + 2 + BT - 1) \div BT, Mb)
BlocksNeeded(n) == BlocksOf(n) * Cardinality(Layer)
PoolCap == LET c == (TotalBlocks \div Cardinality(Layer)) * BT - 2
           IN  IF c >= BT THEN MinOf(Cap, c) ELSE Cap

(***************************************************************************)
(* The jobs that pass cap_output: max_tokens is clamped so that prompt,    *)
(* output and slack stay within the model, and refused beyond the pool.    *)
(***************************************************************************)
Clamped(p, n) == MaxOf(MinOf(n, ModelMax - p - VerifyMax), 1)

JobsWithoutSlack ==     \* fault: the pool is compared without the slack
    {j \in [prompt : Prompts, predict : {Clamped(p, n) : p \in Prompts, n \in Predicts}] :
        /\ j.prompt + VerifyMax < ModelMax
        /\ \E n \in Predicts : j.predict = Clamped(j.prompt, n)
        /\ j.prompt + j.predict <= PoolCap}

Jobs ==
    {j \in [prompt : Prompts, predict : {Clamped(p, n) : p \in Prompts, n \in Predicts}] :
        /\ j.prompt + VerifyMax < ModelMax
        /\ \E n \in Predicts : j.predict = Clamped(j.prompt, n)
        /\ j.prompt + j.predict + VerifyMax <= PoolCap}

(***************************************************************************)
(* kv_grow: the entries that must have a block for n rows.  Entry          *)
(* <<l, bi>> holds rows bi*BT .. bi*BT + BT-1; blocks of a sliding layer   *)
(* that end at or below the floor are skipped.                             *)
(***************************************************************************)
WantUncapped(n, floor) ==     \* fault: not limited to the block table's row
    {e \in Layer \X (0 .. n) : /\ e[2] * BT < n + 2
                              /\ ~(e[1] \in Sliding /\ e[2] * BT + BT <= floor)}

Want(n, floor) ==
    {e \in Entry : /\ e[2] * BT < n + 2
                   /\ ~(e[1] \in Sliding /\ e[2] * BT + BT <= floor)}

\* The entries E whose first rows lie before row p.
Before(E, p) == {e \in E : e[2] * BT < p}

Taken == {p \in Slot \X Entry : p[2] \in mapped[p[1]]}
FreeBlocks == TotalBlocks - Cardinality(Taken)

\* Does the pool hold what slot s lacks of the entries E, if it keeps `held'?
\* The blocks of mapped[s] outside `held' are back in the pool by then.
Suffices(s, held, E) ==
    E \subseteq held \/ Cardinality(E \ held) <= FreeBlocks + Cardinality(mapped[s] \ held)

(***************************************************************************)
(* reuse_valid, and the position restore_prefix goes back to (0: Err).     *)
(* The Gemma engine goes to its chunk grid, the Qwen engine to whichever   *)
(* recurrent-state checkpoint it has.                                      *)
(***************************************************************************)
ReuseValid(floor, l, plen) ==
    ~Gemma \/ (floor <= l /\ floor <= MaxOf(plen - SW, 0))

Restored(s, l) ==
    IF Gemma
    THEN LET q == (l \div Grid) * Grid
         IN  {IF q = 0 \/ kvFloor[s] > q THEN 0 ELSE q}
    ELSE {q \in 0 .. l : q % BT = 0}

Reuse(s, j, l) ==
    IF l = 0 \/ ~ReuseValid(kvFloor[s], l, j.prompt) THEN {0}
    ELSE IF l = cached[s] /\ l = pos[s] THEN {l}
    ELSE Restored(s, l)

\* assign_slot's l: what prompt and conversation share, at most epos and
\* one less than the prompt.
Shared(s, j) ==
    {l \in 0 .. MinOf(cached[s], MinOf(pos[s], j.prompt - 1)) :
        PartialSharing \/ l = 0 \/ (l = cached[s] /\ l = pos[s])}

(***************************************************************************)
(* admit_ok and assign_slot: with nothing to reuse the slot is reset, then *)
(* the whole reservation is grown; if that fails everything is given back. *)
(***************************************************************************)
AdmitGrowingOnlyCold(s, j, l, r) ==     \* fault: a reused slot is not grown
    /\ Idle(s)
    /\ BlocksNeeded(Need(j)) <= FreeBlocks
    /\ l \in Shared(s, j) /\ r \in Reuse(s, j, l)
    /\ mapped' = [mapped EXCEPT ![s] = IF r = 0 THEN Want(Need(j), 0) ELSE @]
    /\ hollow' = [hollow EXCEPT ![s] = Before(@, r)]
    /\ kvAssigned' = [kvAssigned EXCEPT ![s] = MaxOf(@, Need(j))]
    /\ kvFloor' = [kvFloor EXCEPT ![s] = IF r = 0 THEN 0 ELSE @]
    /\ pos' = [pos EXCEPT ![s] = r]
    /\ job' = [job EXCEPT ![s] = j]
    /\ UNCHANGED <<cached, exhausted>>

Admit(s, j, l, r) ==
    LET held  == IF r = 0 THEN {} ELSE mapped[s]
        floor == IF r = 0 THEN 0 ELSE kvFloor[s]
        rows  == IF r = 0 THEN 0 ELSE kvAssigned[s]
        E     == Want(Need(j), floor)
        ok    == Suffices(s, held, E)
        freed == held # {} \/ FreeBlocks + Cardinality(mapped[s] \ held) > 0
    IN  /\ Idle(s)
        /\ BlocksNeeded(Need(j)) <= FreeBlocks
        /\ l \in Shared(s, j) /\ r \in Reuse(s, j, l)
        /\ mapped' = [mapped EXCEPT ![s] = IF ok THEN held \union E ELSE {}]
        /\ hollow' = [hollow EXCEPT ![s] =
              IF ok THEN Before((@ \intersect held) \union (E \ held), r) ELSE {}]
        /\ kvAssigned' =
              [kvAssigned EXCEPT ![s] = IF ok THEN MaxOf(rows, Need(j)) ELSE 0]
        /\ kvFloor' = [kvFloor EXCEPT ![s] = IF ok THEN floor ELSE 0]
        /\ pos' = [pos EXCEPT ![s] = r]
        /\ job' = [job EXCEPT ![s] = IF ok THEN j ELSE NoJob]
        /\ cached' = [cached EXCEPT ![s] = IF ok \/ ~freed THEN @ ELSE 0]
        /\ exhausted' = (exhausted \/ ~ok)

(***************************************************************************)
(* maybe_trim: sliding rows further behind than the window and one block   *)
(* of slack are given back, in whole blocks (kv_release_below).            *)
(***************************************************************************)
FloorWithoutWindow(p) ==     \* fault: the window itself is not kept
    IF p > SW + BT THEN ((p - BT) \div BT) * BT ELSE 0

FloorForPos(p) == IF p > SW + BT THEN ((p - SW - BT) \div BT) * BT ELSE 0

Trimmed(held, floor) ==
    {e \in held : ~(e[1] \in Sliding /\ e[2] < floor \div BT)}

(***************************************************************************)
(* After the pass: a prompt not yet read whole goes on; otherwise          *)
(* finish_slot ends the job, at the latest with the last token asked for,  *)
(* before it on eos, a stop token or a lost client, and keeps the          *)
(* conversation: the prompt and the tokens left after popping stops.       *)
(***************************************************************************)
Finish(s, p) ==
    LET j == job[s]
        generated == p - j.prompt + 1
    IN  \/ /\ generated < j.predict
           /\ UNCHANGED <<job, cached>>
        \/ /\ generated >= 1
           /\ \E c \in j.prompt .. j.prompt + MinOf(generated, j.predict) :
                  cached' = [cached EXCEPT ![s] = c]
           /\ job' = [job EXCEPT ![s] = NoJob]

(***************************************************************************)
(* A forward pass of t rows of which k stay (the others are rewound): room *)
(* is made first, by kv_grow or, in the Qwen engine, by kv_ensure with two *)
(* rows to spare, which does nothing within kv_assigned.  A grow that runs *)
(* dry keeps what it got and fails the pass.                               *)
(***************************************************************************)
Pass(s, t, k, trims) ==
    LET ask   == pos[s] + t + IF Gemma THEN 0 ELSE 2
        skip  == ~Gemma /\ ask <= kvAssigned[s]
        E     == IF skip THEN {} ELSE Want(ask, kvFloor[s])
        p     == pos[s] + k
        floor == IF trims /\ FloorForPos(p) > kvFloor[s]
                 THEN FloorForPos(p) ELSE kvFloor[s]
        grown == mapped[s] \union E
    IN  IF Suffices(s, mapped[s], E)
        THEN /\ mapped' = [mapped EXCEPT ![s] =
                    IF floor > kvFloor[s] THEN Trimmed(grown, floor) ELSE grown]
             /\ hollow' = [hollow EXCEPT ![s] =
                    @ \union Before(E \ mapped[s], pos[s])]
             /\ kvFloor' = [kvFloor EXCEPT ![s] = floor]
             /\ kvAssigned' = [kvAssigned EXCEPT ![s] =
                    IF skip THEN @ ELSE MaxOf(@, ask)]
             /\ pos' = [pos EXCEPT ![s] = p]
             /\ Finish(s, p)
             /\ UNCHANGED exhausted
        ELSE /\ \E part \in SUBSET (E \ mapped[s]) :
                    /\ Cardinality(part) = FreeBlocks
                    /\ mapped' = [mapped EXCEPT ![s] = @ \union part]
             /\ exhausted' = TRUE
             /\ UNCHANGED <<hollow, kvAssigned, kvFloor, pos, job, cached>>

\* slot_prefill: the next c tokens of the prompt.
Prefill(s, c) ==
    /\ ~Idle(s)
    /\ c \in 1 .. job[s].prompt - pos[s]
    /\ Pass(s, c, c, Gemma)

\* One decode step, which trims; or a verify pass (or k steps) of t rows, k of
\* them accepted, with a closing decode step (which trims) or without.
Decode(s, t, k, trims) ==
    /\ ~Idle(s)
    /\ pos[s] >= job[s].prompt
    /\ t \in 1 .. VerifyMax /\ k \in 1 .. t
    /\ trims => Gemma
    /\ t = 1 => trims = Gemma
    /\ Pass(s, t, k, trims)

(***************************************************************************)
(* reset_seq and Slot::free: a job that failed three times, or whose       *)
(* client left while the prompt was being read.                            *)
(***************************************************************************)
FailKeepingRows(s) ==     \* fault: reset_seq does not release the blocks
    /\ ~Idle(s)
    /\ job' = [job EXCEPT ![s] = NoJob]
    /\ cached' = [cached EXCEPT ![s] = 0]
    /\ pos' = [pos EXCEPT ![s] = 0]
    /\ UNCHANGED <<mapped, hollow, kvAssigned, kvFloor, exhausted>>

Fail(s) ==
    /\ ~Idle(s)
    /\ mapped' = [mapped EXCEPT ![s] = {}]
    /\ hollow' = [hollow EXCEPT ![s] = {}]
    /\ kvAssigned' = [kvAssigned EXCEPT ![s] = 0]
    /\ kvFloor' = [kvFloor EXCEPT ![s] = 0]
    /\ pos' = [pos EXCEPT ![s] = 0]
    /\ job' = [job EXCEPT ![s] = NoJob]
    /\ cached' = [cached EXCEPT ![s] = 0]
    /\ UNCHANGED exhausted

(***************************************************************************)
(* reclaim_idle: an idle slot's conversation is dropped; the position is   *)
(* left as it is.                                                          *)
(***************************************************************************)
ReclaimKeepsCache(s) ==     \* fault: the conversation stays on offer
    /\ Idle(s) /\ cached[s] > 0
    /\ mapped' = [mapped EXCEPT ![s] = {}]
    /\ hollow' = [hollow EXCEPT ![s] = {}]
    /\ kvAssigned' = [kvAssigned EXCEPT ![s] = 0]
    /\ kvFloor' = [kvFloor EXCEPT ![s] = 0]
    /\ UNCHANGED <<cached, pos, job, exhausted>>

Reclaim(s) ==
    /\ Idle(s) /\ cached[s] > 0
    /\ mapped' = [mapped EXCEPT ![s] = {}]
    /\ hollow' = [hollow EXCEPT ![s] = {}]
    /\ kvAssigned' = [kvAssigned EXCEPT ![s] = 0]
    /\ kvFloor' = [kvFloor EXCEPT ![s] = 0]
    /\ cached' = [cached EXCEPT ![s] = IF mapped[s] = {} THEN @ ELSE 0]
    /\ UNCHANGED <<pos, job, exhausted>>

SlotsInit ==
    /\ mapped = [s \in Slot |-> {}]
    /\ hollow = [s \in Slot |-> {}]
    /\ kvAssigned = [s \in Slot |-> 0]
    /\ kvFloor = [s \in Slot |-> 0]
    /\ pos = [s \in Slot |-> 0]
    /\ job = [s \in Slot |-> NoJob]
    /\ cached = [s \in Slot |-> 0]
    /\ exhausted = FALSE

SlotsNext == \E s \in Slot :
    \/ \E j \in Jobs : \E l \in Shared(s, j) : \E r \in Reuse(s, j, l) :
           Admit(s, j, l, r)
    \/ \E c \in 1 .. job[s].prompt - pos[s] : Prefill(s, c)
    \/ \E t \in 1 .. VerifyMax : \E k \in 1 .. t : \E trims \in BOOLEAN :
           Decode(s, t, k, trims)
    \/ Fail(s)
    \/ Reclaim(s)

SlotsSpec == SlotsInit /\ [][SlotsNext]_slotVars
-----------------------------------------------------------------------------
SlotsTypeOK ==
    /\ mapped \in [Slot -> SUBSET Entry]
    /\ hollow \in [Slot -> SUBSET Entry]
    /\ kvAssigned \in [Slot -> Nat]
    /\ kvFloor \in [Slot -> Nat]
    /\ pos \in [Slot -> Nat]
    /\ job \in [Slot -> Jobs \union {NoJob}]
    /\ cached \in [Slot -> Nat]
    /\ exhausted \in BOOLEAN

(***************************************************************************)
(* The blocks that hold rows the next pass of slot s attends to: all rows  *)
(* before pos in a full layer, the last SW - 1 of them in a sliding one.   *)
(***************************************************************************)
Attended(s) ==
    {e \in Entry :
        /\ e[2] * BT < pos[s]
        /\ e[1] \in Sliding => e[2] * BT + BT > pos[s] + 1 - SW}

(***************************************************************************)
(* No pass attends to rows of a block that was given back, or given back   *)
(* and taken anew: whatever prefix was reused, however often the window    *)
(* was trimmed or the slot reclaimed, a running slot still has every block *)
(* the rows of its next pass were written to.                              *)
(***************************************************************************)
WindowOwned == \A s \in Slot :
    ~Idle(s) => Attended(s) \subseteq mapped[s] \ hollow[s]

(***************************************************************************)
(* Admission reserves once and for all: a running slot holds every block   *)
(* up to the end of its reservation, so no pass of it needs another one.   *)
(***************************************************************************)
Reserved == \A s \in Slot :
    ~Idle(s) => Want(Need(job[s]), kvFloor[s]) \subseteq mapped[s]

(***************************************************************************)
(* kv_grow never finds the pool empty: the block count admit_ok checks and *)
(* the reservation assign_slot makes are enough for the slot to be taken   *)
(* into service, and for every prefill, decode and verify pass it makes,   *)
(* however the other slots grow, fail and are admitted in between.         *)
(***************************************************************************)
NeverExhausted == ~exhausted

(***************************************************************************)
(* A verify pass of any allowed width stays within the context, whose end  *)
(* is the end of the layer's block table row: the graph path of spec_verify*)
(* has no check of its own.                                                *)
(***************************************************************************)
WithinContext == \A s \in Slot :
    ~Idle(s) /\ pos[s] >= job[s].prompt => pos[s] + VerifyMax <= Cap

(***************************************************************************)
(* No block is out of the scheduler's reach: an idle slot holds blocks     *)
(* exactly when it has a cached conversation, so reclaim_idle, which looks *)
(* for a conversation, finds every idle block, and never ends at a victim  *)
(* with nothing to give.                                                   *)
(***************************************************************************)
Reclaimable == \A s \in Slot :
    Idle(s) => (cached[s] > 0 <=> mapped[s] # {})
=============================================================================
