---------------------------- MODULE DeviceGraphs ----------------------------
(***************************************************************************)
(* The working buffers of the GPU decoder and the CUDA graphs captured     *)
(* over them (graphs.rs, buffers.rs, kstep.rs and spec.rs of w4a16_dec).   *)
(* A graph has the addresses of the buffers in it; a buffer that grows     *)
(* moves.  So graph_invalidate goes before each reallocation, and what a   *)
(* captured body needs must be there before the capture begins, because    *)
(* nothing can be allocated while a stream captures.                       *)
(*                                                                         *)
(* One thread drives the decoder: a call is a sequence of steps, each of   *)
(* which may fail (no memory, a launch refused) where the code has a `?`.  *)
(* The order in which a call ensures its buffers is left open.  Lengths    *)
(* are in rows: 1 for a token, Wide for CHAIN_TMAX.                        *)
(***************************************************************************)
EXTENDS Naturals, FiniteSets

CONSTANTS Grouped,    \* buffers freed, zeroed and then allocated together
          Alone,      \* buffers allocated anew before the old one is freed
          WideOnly,   \* of these: those only a pass of Wide rows needs
          GraphSlot, EndToken, Wide, CacheMax

ASSUME GraphsAssumption ==
    /\ WideOnly \subseteq Grouped \union Alone
    /\ Wide \in Nat \ {0, 1} /\ CacheMax \in Nat \ {0}

Buffer == Grouped \union Alone
Body == Buffer \ WideOnly

VARIABLES cap,      \* rows each buffer has room for, 0 when it has no memory
          pinned,   \* which of pin_embed, pin_pos and the batch's are allocated
          pinOut,   \* pin_out: its memory and the length recorded for it
          cached,   \* the graphs of each cache
          failed,   \* caches whose captures were given up
          doing      \* the call in progress

graphVars == <<cap, pinned, pinOut, cached, failed, doing>>

Cache == {"single", "batch", "spec", "kstep"}

(***************************************************************************)
(* The keys of the caches: slot and output of a single step (the hidden    *)
(* row or the token, with lengths 1 and 2); the slots of a batch in their  *)
(* order; slot and rows of a verification; slot and end token of k steps.  *)
(***************************************************************************)
Keys == [single |-> GraphSlot \X {1, 2},
         batch |-> {ks \in GraphSlot \X GraphSlot : ks[1] # ks[2]},
         spec |-> GraphSlot \X (2 .. Wide),
         kstep |-> GraphSlot \X EndToken]

Rows(c, key) == CASE c = "batch" -> 2 [] c = "spec" -> key[2] [] OTHER -> 1

NoPass == [cache |-> "none", key |-> <<>>, at |-> "idle", rows |-> 0, todo |-> {},
         captures |-> FALSE]

Cached(c, key) == \E g \in cached[c] : g.key = key

\* graph_invalidate destroys the graphs of every cache.
NoGraphs == [c \in Cache |-> {}]

Enter(place, rows, todo) == doing' = [doing EXCEPT !.at = place, !.rows = rows, !.todo = todo]

(***************************************************************************)
(* A call begins.  A step over a cached graph replays it, the rest first   *)
(* ensures buffers: a single step and the k steps all of them for the      *)
(* widest pass (warm_for_capture), a batch and a verification run once     *)
(* without a graph.  Given-up caches leave only that run; the k steps are  *)
(* refused then.  A verification has graphs only when the pinned memory of *)
(* single steps and of batches is there, a batch uses those it has.        *)
(***************************************************************************)
GraphsUsed(c) ==
    CASE c = "single" -> "single" \notin failed
      [] c = "kstep" -> {"single", "kstep"} \intersect failed = {}
      [] c = "spec" -> "spec" \notin failed /\ {"pos", "batch"} \subseteq pinned
      [] OTHER -> TRUE

Begin(c, key) ==
    /\ doing.at = "idle"
    /\ c = "kstep" => GraphsUsed(c)
    /\ ~(GraphsUsed(c) /\ Cached(c, key))
    /\ LET warms == c \in {"single", "kstep"} /\ GraphsUsed(c)
       IN  doing' = [cache |-> c, key |-> key,
                    at |-> IF warms THEN "warm" ELSE "run",
                    rows |-> IF warms THEN Wide ELSE Rows(c, key),
                    todo |-> Body,
                    captures |-> GraphsUsed(c) /\ c \notin failed]
    \* ensure_kstep_graph: the graph of the slot for another end token goes.
    /\ cached' = IF c # "kstep" THEN cached
                 ELSE [cached EXCEPT ![c] = {g \in @ : g.key[1] # key[1]}]
    /\ UNCHANGED <<cap, pinned, pinOut, failed>>

Prefill(t) ==
    /\ doing.at = "idle"
    /\ doing' = [cache |-> "none", key |-> <<>>, at |-> "run", rows |-> t,
                todo |-> IF t = Wide THEN Buffer ELSE Body, captures |-> FALSE]
    /\ UNCHANGED <<cap, pinned, pinOut, cached, failed>>

(***************************************************************************)
(* A failed step of a call.  A single step gives up its graphs for good    *)
(* and goes on without; a batch and a verification have their tokens by    *)
(* the time they capture; anything else is the error of the call.          *)
(***************************************************************************)
CallErr ==
    IF doing.cache = "single" /\ "single" \notin failed
    THEN /\ failed' = failed \union {"single"}
         /\ Enter("run", 1, Body)
    ELSE /\ failed' = IF doing.at = "capture" THEN failed \union {doing.cache} ELSE failed
         /\ doing' = NoPass

(***************************************************************************)
(* The ensure functions: a buffer large enough is left alone.  Growing     *)
(* invalidates the graphs, and failing leaves a group without memory but   *)
(* a lone buffer as it was.                                                *)
(***************************************************************************)
Moved == [c \in Cache |-> {[g EXCEPT !.fresh = FALSE] : g \in cached[c]}]

EnsureKeepsGraphs(b) ==     \* fault: the graphs are kept
    /\ doing.at \in {"warm", "run", "capture"} /\ b \in doing.todo
    /\ doing' = [doing EXCEPT !.todo = @ \ {b}]
    /\ cap' = [cap EXCEPT ![b] = IF @ < doing.rows THEN doing.rows ELSE @]
    /\ cached' = IF cap[b] < doing.rows THEN Moved ELSE cached
    /\ UNCHANGED <<pinned, pinOut, failed>>

EnsureBuf(b) ==
    /\ doing.at \in {"warm", "run", "capture"} /\ b \in doing.todo
    /\ doing' = [doing EXCEPT !.todo = @ \ {b}]
    /\ IF doing.rows <= cap[b] THEN UNCHANGED <<cap, cached>>
       ELSE /\ cached' = NoGraphs
            /\ cap' = [cap EXCEPT ![b] = doing.rows]
    /\ UNCHANGED <<pinned, pinOut, failed>>

EnsureErr(b) ==
    /\ doing.at \in {"warm", "run", "capture"} /\ b \in doing.todo
    /\ doing.rows > cap[b]
    /\ cached' = NoGraphs
    /\ cap' = IF b \in Grouped THEN [cap EXCEPT ![b] = 0] ELSE cap
    /\ CallErr
    /\ UNCHANGED <<pinned, pinOut>>

(***************************************************************************)
(* The pinned memory of single steps: pin_embed before pin_pos, then       *)
(* pin_out, which is freed before it is allocated longer and keeps its     *)
(* address and its length when that fails.                                 *)
(***************************************************************************)
Warmed == doing.at = "warm" /\ doing.todo = {}

Pin ==
    /\ Warmed /\ doing.cache = "single" /\ "embed" \notin pinned
    /\ \/ pinned' = pinned \union {"embed", "pos"} /\ UNCHANGED <<failed, doing>>
       \/ pinned' \in {pinned, pinned \union {"embed"}} /\ CallErr
    /\ UNCHANGED <<cap, pinOut, cached>>

PinOut ==
    /\ Warmed /\ doing.cache = "single" /\ "embed" \in pinned
    /\ pinOut.mem = "none" \/ pinOut.len < doing.key[2]
    /\ cached' = NoGraphs
    /\ \/ /\ pinOut' = [mem |-> "live", len |-> doing.key[2]]
          /\ UNCHANGED <<failed, doing>>
       \/ /\ pinOut' = [pinOut EXCEPT !.mem = IF @ = "live" THEN "freed" ELSE @]
          /\ CallErr
    /\ UNCHANGED <<cap, pinned>>

(***************************************************************************)
(* The run without a graph ends, and a batch or a verification goes on to  *)
(* capture what it ran; a full cache drops a graph (the oldest in the      *)
(* code).  The capture itself: a body that ensures what it needs once      *)
(* more, then the graph is instantiated and stored.                        *)
(***************************************************************************)
RoomsOver(c) == {cached[c]}     \* fault: nothing is dropped

Rooms(c) ==
    IF Cardinality(cached[c]) < CacheMax THEN {cached[c]}
    ELSE {cached[c] \ {g} : g \in cached[c]}

Ran ==
    /\ doing.at = "run" /\ doing.todo = {}
    /\ pinned' = IF doing.cache \in {"batch", "spec"} THEN pinned \union {"batch"} ELSE pinned
    /\ IF doing.cache \in {"batch", "spec"} /\ doing.captures
       THEN /\ \E room \in Rooms(doing.cache) : cached' = [cached EXCEPT ![doing.cache] = room]
            /\ Enter("capture", doing.rows, Body)
       ELSE doing' = NoPass /\ UNCHANGED cached
    /\ UNCHANGED <<cap, pinOut, failed>>

Capture ==
    /\ Warmed
    /\ doing.cache = "single" => "embed" \in pinned /\ pinOut.mem # "none" /\ pinOut.len >= doing.key[2]
    /\ Enter("capture", 1, Body)
    /\ UNCHANGED <<cap, pinned, pinOut, cached, failed>>

Captured ==
    /\ doing.at = "capture" /\ doing.todo = {}
    /\ \/ /\ cached' = [cached EXCEPT ![doing.cache] =
                @ \union {[key |-> doing.key, fresh |-> TRUE]}]
          /\ doing' = NoPass /\ UNCHANGED failed
       \/ /\ IF doing.cache = "kstep" THEN doing' = NoPass /\ UNCHANGED failed ELSE CallErr
          /\ UNCHANGED cached
    /\ UNCHANGED <<cap, pinned, pinOut>>

\* A launch in the run or in the body of a capture is refused.
LaunchErr ==
    /\ doing.at \in {"run", "capture"}
    /\ CallErr
    /\ UNCHANGED <<cap, pinned, pinOut, cached>>

GraphsInit ==
    /\ cap = [b \in Buffer |-> 0]
    /\ pinned = {} /\ pinOut = [mem |-> "none", len |-> 0]
    /\ cached = NoGraphs /\ failed = {} /\ doing = NoPass

GraphsNext ==
    \/ \E c \in Cache : \E key \in Keys[c] : Begin(c, key)
    \/ \E t \in 1 .. Wide : Prefill(t)
    \/ \E b \in Buffer : EnsureBuf(b) \/ EnsureErr(b)
    \/ Pin \/ PinOut \/ Ran \/ Capture \/ Captured \/ LaunchErr

GraphsSpec == GraphsInit /\ [][GraphsNext]_graphVars
-----------------------------------------------------------------------------
(***************************************************************************)
(* The variables keep their types; the caches of batches and verifications *)
(* keep their bound, and a slot has the k-step graph of one end token.     *)
(***************************************************************************)
GraphsTypeOK ==
    /\ cap \in [Buffer -> 0 .. Wide]
    /\ pinned \subseteq {"embed", "pos", "batch"}
    /\ pinOut.mem \in {"none", "live", "freed"} /\ pinOut.len \in 0 .. 2
    /\ \A c \in Cache : \A g \in cached[c] : g.key \in Keys[c]
    /\ \A c \in {"batch", "spec"} : Cardinality(cached[c]) <= CacheMax
    /\ \A g, h \in cached["kstep"] : g.key[1] = h.key[1] => g = h
    /\ failed \subseteq Cache
    /\ doing.at \in {"idle", "warm", "run", "capture"}
    /\ doing.rows \in 0 .. Wide /\ doing.todo \subseteq Buffer

(***************************************************************************)
(* A graph that can be replayed has the addresses the buffers have now,    *)
(* and copies its output to pinned memory that is there and long enough.   *)
(* pin_out keeps the address of freed memory when it could not be grown:   *)
(* no single step captures or replays from then on, so that nothing frees  *)
(* it again or copies to it.  And no captured body grows a buffer, each    *)
(* was warmed or run before: what capture_guard asserts.                   *)
(***************************************************************************)
GraphsFresh ==
    /\ \A c \in Cache : \A g \in cached[c] : g.fresh
    /\ \A g \in cached["single"] : pinOut.mem = "live" /\ g.key[2] <= pinOut.len
    /\ pinOut.mem = "freed" => "single" \in failed /\ cached["single"] = {}
    /\ doing.at = "capture" => \A b \in Body : doing.rows <= cap[b]
=============================================================================
