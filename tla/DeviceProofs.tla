---------------------------- MODULE DeviceProofs ----------------------------
(***************************************************************************)
(* Proofs about what the GPU decoder keeps between calls: the blocks of    *)
(* the KV pool and their table on the device (KvPool, KvTable), the ring   *)
(* that weights are uploaded through (PinnedRing), the graphs captured     *)
(* over the working buffers (DeviceGraphs), the cache of experts           *)
(* (ExpertCache), and the recurrent state with its checkpoints             *)
(* (GdnCheckpoint).                                                        *)
(***************************************************************************)
EXTENDS KvTable, GdnCheckpoint, DeviceGraphs, ExpertCache, PinnedRing, DataLemmas,
        FiniteSetTheorems

-----------------------------------------------------------------------------
(***************************************************************************)
(* PinnedRing.  What is issued and not yet copied is still in its buffer;  *)
(* at most two chunks are, because the event of a buffer is that of the    *)
(* chunk two before the next one.                                          *)
(***************************************************************************)
RingType ==
    /\ upload \in {"run", "ok", "err"} /\ stage \in {"unread", "filled"}
    /\ sent \in 0 .. Chunks /\ copied \in 0 .. sent
    /\ buffer \in [{0, 1} -> Nat] /\ recorded \in [{0, 1} -> Nat]
    /\ dest \in [1 .. Chunks -> Nat]

InFlight == \A i \in copied + 1 .. sent : buffer[Side(i)] = i
Ready == stage = "filled" => sent < Chunks /\ buffer[Side(sent + 1)] = sent + 1 /\ copied >= sent - 1
Events ==
    /\ sent >= 1 => recorded[Side(sent)] = sent
    /\ sent >= 2 => recorded[Side(sent - 1)] = sent - 1
Arrived == \A i \in 1 .. copied : dest[i] = i
Whole == upload = "ok" => copied = Chunks

RingInv == RingType /\ InFlight /\ Ready /\ Events /\ Arrived /\ Whole

(***************************************************************************)
(* Neighbouring chunks are in different buffers, chunks two apart in the   *)
(* same.                                                                   *)
(***************************************************************************)
LEMMA Sides ==
    ASSUME NEW i \in Nat
    PROVE  /\ Side(i) \in {0, 1}
           /\ Side(i + 1) # Side(i)
           /\ Side(i + 2) = Side(i)
BY DEF Side

(***************************************************************************)
(* The invariant holds at first and each step keeps it.                    *)
(***************************************************************************)
LEMMA RingStarts == RingInit => RingInv
<1> SUFFICES ASSUME RingInit PROVE RingInv
    OBVIOUS
<1> USE RingAssumption DEF RingAssumption, RingInit, NoChunk, NothingThere
<1>1. RingType
    BY DEF RingType
<1>2. InFlight /\ Arrived
    BY DEF InFlight, Arrived
<1>3. Ready /\ Events /\ Whole
    BY DEF Ready, Events, Whole
<1>4. QED BY <1>1, <1>2, <1>3 DEF RingInv

LEMMA RingSteps == RingInv /\ [RingNext]_ringVars => RingInv'
<1> SUFFICES ASSUME RingInv, [RingNext]_ringVars PROVE RingInv'
    OBVIOUS
<1> USE RingAssumption DEF RingAssumption, RingInv, RingType
<1>1. CASE Fill
    <2>0. sent \in Nat /\ sent + 1 \in Nat
        OBVIOUS
    <2>1. Side(sent + 1) \in {0, 1} /\ Side(sent) \in {0, 1} /\ Side(sent) # Side(sent + 1)
        BY <2>0, Sides
    <2>2. sent >= 2 => Side(sent - 1) = Side(sent + 1)
        BY Sides, sent - 1 \in Nat \/ sent = 0
    <2>3. copied >= sent - 1
        BY <1>1, <2>2 DEF Fill, Following, EventDone, Events
    <2>4. RingType'
        BY <1>1, <2>1 DEF Fill, Following
    <2>5. InFlight'
        <3> SUFFICES ASSUME NEW i \in copied' + 1 .. sent' PROVE buffer'[Side(i)] = i
            BY DEF InFlight
        <3>1. i = sent
            BY <1>1, <2>3 DEF Fill
        <3>2. QED BY <1>1, <2>1, <3>1 DEF Fill, Following, InFlight
    <2>6. Ready'
        BY <1>1, <2>1, <2>3 DEF Fill, Following, Ready
    <2>7. QED BY <1>1, <2>4, <2>5, <2>6 DEF Fill, Events, Arrived, Whole
<1>2. CASE Issue
    <2>0. sent \in Nat /\ sent + 1 \in Nat
        OBVIOUS
    <2>1. Side(sent + 1) \in {0, 1} /\ Side(sent) \in {0, 1} /\ Side(sent) # Side(sent + 1)
        BY <2>0, Sides
    <2>2. RingType'
        BY <1>2, <2>1 DEF Issue, Following, Ready
    <2>3. InFlight'
        BY <1>2 DEF Issue, Following, Ready, InFlight
    <2>4. Events'
        BY <1>2, <2>1 DEF Issue, Following, Events
    <2>5. QED BY <1>2, <2>2, <2>3, <2>4 DEF Issue, Ready, Arrived, Whole
<1>3. CASE GiveUpUpload
    BY <1>3 DEF GiveUpUpload, InFlight, Ready, Events, Arrived, Whole
<1>4. CASE Arrive
    <2>1. Side(copied + 1) \in {0, 1} /\ buffer[Side(copied + 1)] = copied + 1
        BY <1>4, Sides DEF Arrive, InFlight
    <2>2. RingType'
        BY <1>4, <2>1 DEF Arrive
    <2>3. Arrived'
        BY <1>4, <2>1 DEF Arrive, Arrived
    <2>4. QED BY <1>4, <2>2, <2>3 DEF Arrive, InFlight, Ready, Events, Whole
<1>5. CASE Synced
    BY <1>5 DEF Synced, InFlight, Ready, Events, Arrived, Whole
<1>6. CASE Upload
    <2>1. RingType'
        BY <1>6 DEF Upload, NoChunk, NothingThere
    <2>2. InFlight' /\ Arrived'
        BY <1>6 DEF Upload, NoChunk, NothingThere, InFlight, Arrived
    <2>3. Ready' /\ Events' /\ Whole'
        BY <1>6 DEF Upload, NoChunk, NothingThere, Ready, Events, Whole
    <2>4. QED BY <2>1, <2>2, <2>3
<1>7. CASE UNCHANGED ringVars
    BY <1>7 DEF ringVars, InFlight, Ready, Events, Arrived, Whole
<1>8. QED BY <1>1, <1>2, <1>3, <1>4, <1>5, <1>6, <1>7 DEF RingNext

(***************************************************************************)
(* Whatever the number of chunks, what is registered is what was read.     *)
(***************************************************************************)
THEOREM RingExact == RingSpec => []UploadExact
<1>1. RingInv => UploadExact
    BY DEF RingInv, RingType, Arrived, Whole, UploadExact
<1>2. QED BY <1>1, RingStarts, RingSteps, PTL DEF RingSpec

-----------------------------------------------------------------------------
(***************************************************************************)
(* DeviceGraphs.  What is cached: graphs over the present addresses, in    *)
(* caches that keep their bounds, and none whose output goes to memory     *)
(* that is gone.                                                           *)
(***************************************************************************)
CacheOK(gs, out, gone) ==
    /\ DOMAIN gs = Cache
    /\ \A c \in Cache : \A g \in gs[c] : g.key \in Keys[c] /\ g.fresh
    /\ \A c \in {"batch", "spec"} : IsFiniteSet(gs[c]) /\ Cardinality(gs[c]) <= CacheMax
    /\ \A g, h \in gs["kstep"] : g.key[1] = h.key[1] => g = h
    /\ \A g \in gs["single"] : out.mem = "live" /\ g.key[2] <= out.len
    /\ out.mem = "freed" => "single" \in gone /\ gs["single"] = {}

(***************************************************************************)
(* The call in progress: the buffers it has ensured are large enough, and  *)
(* where it captures it may: there is room, the slot has no other k-step   *)
(* graph, the pinned output is there, and its cache was not given up.      *)
(***************************************************************************)
AnyKey == (UNION {Keys[c] : c \in Cache}) \cup {<<>>}

GraphCall ==
    [cache : Cache \cup {"none"}, key : AnyKey,
     at : {"idle", "warm", "run", "capture"}, rows : 0 .. Wide,
     todo : SUBSET Buffer, captures : BOOLEAN]

CallOK(p, room, gs, out, gone) ==
    /\ p \in GraphCall
    /\ p.cache = "none" => p.at \in {"idle", "run"}
    /\ p.cache # "none" => p.key \in Keys[p.cache]
    /\ p.at = "warm" => p.rows = Wide /\ p.cache \in {"single", "kstep"}
    /\ p.at # "idle" => \A b \in Body \ p.todo : p.rows <= room[b]
    /\ p.at = "capture" => \A b \in Body : p.rows <= room[b]
    /\ p.at \in {"warm", "capture"} /\ p.cache = "single" => "single" \notin gone
    /\ p.at = "capture" /\ p.cache = "single" => out.mem = "live" /\ p.key[2] <= out.len
    /\ p.at = "capture" /\ p.cache \in {"batch", "spec"} => Cardinality(gs[p.cache]) < CacheMax
    /\ p.at \in {"warm", "capture"} /\ p.cache = "kstep" =>
          \A g \in gs["kstep"] : g.key[1] # p.key[1]

GraphsInv ==
    /\ cap \in [Buffer -> 0 .. Wide]
    /\ pinned \subseteq {"embed", "pos", "batch"}
    /\ pinOut \in [mem : {"none", "live", "freed"}, len : 0 .. 2]
    /\ failed \subseteq Cache
    /\ CacheOK(cached, pinOut, failed)
    /\ CallOK(doing, cap, cached, pinOut, failed)

LEMMA KeysAre ==
  /\ DOMAIN Keys = Cache
  /\ Keys["single"] = GraphSlot \X {1, 2} /\ Keys["spec"] = GraphSlot \X (2 .. Wide)
  /\ Keys["kstep"] = GraphSlot \X EndToken
  BY DEF Keys, Cache

\* Nothing is cached after graph_invalidate.
LEMMA NoGraphsOK ==
  ASSUME NEW out, NEW gone, out.mem = "freed" => "single" \in gone
  PROVE  CacheOK(NoGraphs, out, gone) /\ \A c \in Cache : NoGraphs[c] = {} /\ Cardinality(NoGraphs[c]) = 0
  <1>1. \A c \in Cache : NoGraphs[c] = {}
    BY DEF NoGraphs
  <1>2. IsFiniteSet({}) /\ Cardinality({}) = 0
    BY FS_EmptySet
  <1>3. DOMAIN NoGraphs = Cache /\ 0 <= CacheMax
    BY GraphsAssumption DEF NoGraphs
  <1> QED
    BY <1>1, <1>2, <1>3 DEF CacheOK, Cache

\* A call that ended, and one that ensures its buffers anew for a run.
LEMMA NoKey ==
  ASSUME NEW rows \in 0 .. Wide, NEW todo \in SUBSET Buffer, NEW place \in {"idle", "run"}
  PROVE  [cache |-> "none", key |-> <<>>, at |-> place, rows |-> rows, todo |-> todo,
          captures |-> FALSE] \in GraphCall
  <1> DEFINE key == <<>>
  <1>1. key \in AnyKey
    BY DEF AnyKey
  <1> HIDE DEF key
  <1>2. [cache |-> "none", key |-> key, at |-> place, rows |-> rows, todo |-> todo, captures |-> FALSE]
          \in GraphCall
    BY <1>1 DEF GraphCall
  <1> QED
    BY <1>2 DEF key

LEMMA RestOK ==
  ASSUME NEW room, NEW gs, NEW out, NEW gone
  PROVE  CallOK(NoPass, room, gs, out, gone)
  <1>1. NoPass \in GraphCall
    <2>1. 0 \in 0 .. Wide /\ {} \in SUBSET Buffer
      BY GraphsAssumption
    <2> QED  BY <2>1, NoKey DEF NoPass
  <1> QED
    BY <1>1 DEF NoPass, CallOK

LEMMA EnterIs ==
  ASSUME doing \in GraphCall, NEW place \in {"idle", "warm", "run", "capture"},
         NEW rows \in 0 .. Wide, NEW todo \in SUBSET Buffer, Enter(place, rows, todo)
  PROVE  /\ doing' \in GraphCall /\ doing'.at = place /\ doing'.rows = rows /\ doing'.todo = todo
         /\ doing'.cache = doing.cache /\ doing'.key = doing.key /\ doing'.captures = doing.captures
  BY DEF Enter, GraphCall

LEMMA WideIs == Wide \in Nat /\ Wide >= 2 /\ 1 \in 0 .. Wide /\ Wide \in 0 .. Wide /\ CacheMax \in Nat \ {0}
  BY GraphsAssumption

\* The memory of the output is gone for a call that may capture single steps.
LEMMA CallErrKeeps ==
  ASSUME GraphsInv, CallErr, doing.at \in {"warm", "run", "capture"}, NEW room, NEW gs, NEW out
  PROVE  /\ failed' \subseteq Cache /\ failed \subseteq failed'
         /\ doing.at = "warm" /\ doing.cache = "single" => "single" \in failed'
         /\ CallOK(doing', room, gs, out, failed')
  <1>0. doing \in GraphCall /\ failed \subseteq Cache /\ (doing.cache = "none" => doing.at = "run")
    BY DEF GraphsInv, CallOK
  <1>1. CASE doing.cache = "single" /\ "single" \notin failed
    <2>1. failed' = failed \cup {"single"} /\ Enter("run", 1, Body)
      BY <1>1 DEF CallErr
    <2>2. Body \in SUBSET Buffer
      BY DEF Body
    <2>3. /\ doing' \in GraphCall /\ doing'.at = "run" /\ doing'.rows = 1 /\ doing'.todo = Body
          /\ doing'.cache = "single" /\ doing'.key = doing.key
      BY <1>0, <1>1, <2>1, <2>2, WideIs, EnterIs
    <2>4. doing.key \in Keys["single"]
      BY <1>1 DEF GraphsInv, CallOK
    <2>5. CallOK(doing', room, gs, out, failed')
      BY <2>3, <2>4 DEF CallOK
    <2> QED  BY <1>0, <1>1, <2>1, <2>5 DEF Cache
  <1>2. CASE ~(doing.cache = "single" /\ "single" \notin failed)
    <2>1. doing' = NoPass /\ failed' = IF doing.at = "capture" THEN failed \cup {doing.cache} ELSE failed
      BY <1>2 DEF CallErr
    <2>2. doing.at = "capture" => doing.cache \in Cache
      BY <1>0 DEF GraphCall
    <2>3. CallOK(doing', room, gs, out, failed')
      BY <2>1, RestOK
    <2>4. failed' \subseteq Cache /\ failed \subseteq failed'
      BY <1>0, <2>1, <2>2
    <2> QED  BY <1>2, <2>3, <2>4
  <1> QED
    BY <1>1, <1>2

\* Fewer graphs in the caches, more caches given up.
LEMMA CacheLess ==
  ASSUME NEW gs, NEW out, NEW gone, CacheOK(gs, out, gone),
         NEW less, DOMAIN less = Cache, \A c \in Cache : less[c] \subseteq gs[c],
         NEW more, gone \subseteq more
  PROVE  /\ CacheOK(less, out, more)
         /\ \A c \in {"batch", "spec"} : Cardinality(less[c]) <= Cardinality(gs[c])
  <1>1. ASSUME NEW c \in {"batch", "spec"}
        PROVE  /\ IsFiniteSet(less[c]) /\ Cardinality(less[c]) <= Cardinality(gs[c])
               /\ Cardinality(less[c]) <= CacheMax
    <2>1. IsFiniteSet(gs[c]) /\ Cardinality(gs[c]) <= CacheMax /\ less[c] \subseteq gs[c]
      BY DEF CacheOK, Cache
    <2>2. IsFiniteSet(less[c]) /\ Cardinality(less[c]) <= Cardinality(gs[c])
      BY <2>1, FS_Subset
    <2>3. Cardinality(less[c]) \in Nat /\ Cardinality(gs[c]) \in Nat
      BY <2>1, <2>2, FS_CardinalityType
    <2> QED  BY <2>1, <2>2, <2>3, WideIs
  <1>2. less["kstep"] \subseteq gs["kstep"] /\ less["single"] \subseteq gs["single"]
    BY DEF Cache
  <1> QED
    BY <1>1, <1>2 DEF CacheOK

LEMMA BeginKeeps ==
  ASSUME GraphsInv, NEW c \in Cache, NEW key \in Keys[c], Begin(c, key)
  PROVE  GraphsInv'
  <1> DEFINE warms == c \in {"single", "kstep"} /\ GraphsUsed(c)
             p == [cache |-> c, key |-> key, at |-> IF warms THEN "warm" ELSE "run",
                   rows |-> IF warms THEN Wide ELSE Rows(c, key),
                   todo |-> Body, captures |-> GraphsUsed(c) /\ c \notin failed]
  <1>1. doing' = p /\ UNCHANGED <<cap, pinned, pinOut, failed>>
    BY DEF Begin
  <1>2. cached' = IF c # "kstep" THEN cached
                  ELSE [cached EXCEPT ![c] = {g \in @ : g.key[1] # key[1]}]
    BY DEF Begin
  <1>3. CacheOK(cached', pinOut', failed')
    <2>1. DOMAIN cached' = Cache /\ \A d \in Cache : cached'[d] \subseteq cached[d]
      BY <1>2 DEF GraphsInv, CacheOK
    <2> QED  BY <1>1, <2>1, CacheLess DEF GraphsInv
  <1>4. Rows(c, key) \in 0 .. Wide
    <2>1. c = "spec" => key[2] \in 2 .. Wide
      BY KeysAre
    <2>2. CASE c = "batch"
      BY <2>2, WideIs DEF Rows
    <2>3. CASE c = "spec"
      BY <2>1, <2>3, WideIs DEF Rows
    <2>4. CASE c \notin {"batch", "spec"}
      BY <2>4, WideIs DEF Rows
    <2> QED  BY <2>2, <2>3, <2>4
  <1>5. p \in GraphCall
    <2>1. Body \in SUBSET Buffer /\ key \in AnyKey
      BY DEF Body, AnyKey
    <2>2. p.rows \in 0 .. Wide /\ p.captures \in BOOLEAN /\ p.at \in {"idle", "warm", "run", "capture"}
      BY <1>4, WideIs
    <2> QED  BY <2>1, <2>2 DEF GraphCall
  <1>6. /\ p.cache = c /\ p.key = key /\ p.todo = Body /\ p.at \in {"warm", "run"}
        /\ p.at = "warm" => p.rows = Wide /\ GraphsUsed(c) /\ c \in {"single", "kstep"}
    OBVIOUS
  <1>7. c = "kstep" => \A g \in cached'["kstep"] : g.key[1] # key[1]
    BY <1>2 DEF GraphsInv, CacheOK
  <1>8. c = "single" /\ GraphsUsed(c) => "single" \notin failed
    BY DEF GraphsUsed
  <1> HIDE DEF p
  <1>9. CallOK(p, cap', cached', pinOut', failed')
    BY <1>1, <1>5, <1>6, <1>7, <1>8 DEF CallOK, Cache
  <1> QED
    BY <1>1, <1>3, <1>9 DEF GraphsInv

LEMMA PrefillKeeps ==
  ASSUME GraphsInv, NEW t \in 1 .. Wide, Prefill(t)
  PROVE  GraphsInv'
  <1>1. /\ UNCHANGED <<cap, pinned, pinOut, cached, failed>>
        /\ doing' = [cache |-> "none", key |-> <<>>, at |-> "run", rows |-> t,
                    todo |-> IF t = Wide THEN Buffer ELSE Body, captures |-> FALSE]
    BY DEF Prefill
  <1>2. doing'.todo \in SUBSET Buffer /\ Body \ doing'.todo = {}
    BY <1>1 DEF Body
  <1>3. doing' \in GraphCall
    <2>1. t \in 0 .. Wide /\ (IF t = Wide THEN Buffer ELSE Body) \in SUBSET Buffer
      BY WideIs DEF Body
    <2> QED  BY <1>1, <2>1, NoKey
  <1>4. CallOK(doing', cap', cached', pinOut', failed')
    BY <1>1, <1>2, <1>3 DEF CallOK
  <1> QED
    BY <1>1, <1>4 DEF GraphsInv

LEMMA EnsureKeeps ==
  ASSUME GraphsInv, NEW b \in Buffer, EnsureBuf(b)
  PROVE  GraphsInv'
  <1> DEFINE p == [doing EXCEPT !.todo = @ \ {b}]
  <1>1. doing' = p /\ UNCHANGED <<pinned, pinOut, failed>> /\ b \in doing.todo /\ doing.at # "idle"
    BY DEF EnsureBuf
  <1>2. doing \in GraphCall /\ doing.rows \in 0 .. Wide /\ cap \in [Buffer -> 0 .. Wide]
        /\ CallOK(doing, cap, cached, pinOut, failed)
    BY DEF GraphsInv, CallOK, GraphCall
  <1>3. /\ p \in GraphCall /\ p.cache = doing.cache /\ p.key = doing.key /\ p.at = doing.at
        /\ p.rows = doing.rows /\ p.todo = doing.todo \ {b} /\ p.captures = doing.captures
    BY <1>2 DEF GraphCall
  <1> HIDE DEF p
  <1>4. CASE doing.rows <= cap[b]
    <2>1. cap' = cap /\ cached' = cached
      BY <1>4 DEF EnsureBuf
    <2>2. CallOK(p, cap, cached, pinOut, failed)
      BY <1>2, <1>3, <1>4 DEF CallOK
    <2> QED  BY <1>1, <2>1, <2>2 DEF GraphsInv
  <1>5. CASE ~(doing.rows <= cap[b])
    <2>1. cap' = [cap EXCEPT ![b] = doing.rows] /\ cached' = NoGraphs
      BY <1>5 DEF EnsureBuf
    <2>2. /\ cap' \in [Buffer -> 0 .. Wide]
          /\ \A d \in Buffer : cap'[d] = IF d = b THEN doing.rows ELSE cap[d]
      BY <1>2, <2>1
    <2>3. CacheOK(cached', pinOut', failed') /\ \A c \in Cache : cached'[c] = {} /\ Cardinality(cached'[c]) = 0
      BY <1>1, <2>1, NoGraphsOK DEF GraphsInv, CacheOK
    <2>4. doing.at = "capture" => \A d \in Body : d # b
      BY <1>2, <1>5 DEF CallOK
    <2>5. \A d \in Body : doing.rows <= cap[d] => doing.rows <= cap'[d]
      BY <1>2, <2>2 DEF Body
    <2>6. \A d \in Body \ p.todo : doing.rows <= cap'[d]
      <3>1. \A d \in Body \ p.todo : d = b \/ d \in Body \ doing.todo
        BY <1>3
      <3>2. \A d \in Body \ doing.todo : doing.rows <= cap[d]
        BY <1>1, <1>2 DEF CallOK
      <3>3. doing.rows <= doing.rows
        BY <1>2
      <3> QED  BY <1>2, <2>2, <2>5, <3>1, <3>2, <3>3
    <2>7. CallOK(p, cap', cached', pinOut', failed')
      BY <1>1, <1>2, <1>3, <2>3, <2>5, <2>6, WideIs DEF CallOK, Cache
    <2> QED  BY <1>1, <2>2, <2>3, <2>7 DEF GraphsInv
  <1> QED
    BY <1>4, <1>5

LEMMA EnsureErrKeeps ==
  ASSUME GraphsInv, NEW b \in Buffer, EnsureErr(b)
  PROVE  GraphsInv'
  <1>1. /\ doing.at \in {"warm", "run", "capture"} /\ CallErr /\ cached' = NoGraphs
        /\ UNCHANGED <<pinned, pinOut>>
        /\ cap' = IF b \in Grouped THEN [cap EXCEPT ![b] = 0] ELSE cap
    BY DEF EnsureErr
  <1>2. cap' \in [Buffer -> 0 .. Wide]
    BY <1>1, WideIs DEF GraphsInv
  <1>3. failed' \subseteq Cache /\ failed \subseteq failed' /\ CallOK(doing', cap', cached', pinOut', failed')
    BY <1>1, CallErrKeeps
  <1>4. CacheOK(cached', pinOut', failed')
    <2>1. pinOut'.mem = "freed" => "single" \in failed'
      BY <1>1, <1>3 DEF GraphsInv, CacheOK
    <2> QED  BY <1>1, <2>1, NoGraphsOK
  <1> QED
    BY <1>1, <1>2, <1>3, <1>4 DEF GraphsInv

LEMMA LaunchErrKeeps ==
  ASSUME GraphsInv, LaunchErr
  PROVE  GraphsInv'
  <1>1. doing.at \in {"warm", "run", "capture"} /\ CallErr /\ UNCHANGED <<cap, pinned, pinOut, cached>>
    BY DEF LaunchErr
  <1>2. failed' \subseteq Cache /\ failed \subseteq failed' /\ CallOK(doing', cap', cached', pinOut', failed')
    BY <1>1, CallErrKeeps
  <1>3. CacheOK(cached', pinOut', failed')
    BY <1>1, <1>2, CacheLess DEF GraphsInv, CacheOK
  <1> QED
    BY <1>1, <1>2, <1>3 DEF GraphsInv

\* The steps of warming that do not end the call leave it as it was.
LEMMA PinKeeps ==
  ASSUME GraphsInv, Pin
  PROVE  GraphsInv'
  <1>1. doing.at = "warm" /\ UNCHANGED <<cap, pinOut, cached>>
    BY DEF Pin, Warmed
  <1>2. pinned' \subseteq {"embed", "pos", "batch"}
    BY DEF Pin, GraphsInv
  <1>3. CASE UNCHANGED <<failed, doing>>
    BY <1>1, <1>2, <1>3 DEF GraphsInv
  <1>4. CASE CallErr
    <2>1. failed' \subseteq Cache /\ failed \subseteq failed' /\ CallOK(doing', cap', cached', pinOut', failed')
      BY <1>1, <1>4, CallErrKeeps
    <2>2. CacheOK(cached', pinOut', failed')
      BY <1>1, <2>1, CacheLess DEF GraphsInv, CacheOK
    <2> QED  BY <1>1, <1>2, <2>1, <2>2 DEF GraphsInv
  <1> QED
    BY <1>3, <1>4 DEF Pin

LEMMA PinOutKeeps ==
  ASSUME GraphsInv, PinOut
  PROVE  GraphsInv'
  <1>1. /\ doing.at = "warm" /\ doing.cache = "single" /\ cached' = NoGraphs /\ UNCHANGED <<cap, pinned>>
        /\ CallOK(doing, cap, cached, pinOut, failed) /\ doing.key[2] \in {1, 2}
    BY KeysAre DEF PinOut, Warmed, GraphsInv, CallOK
  <1>2. CASE pinOut' = [mem |-> "live", len |-> doing.key[2]] /\ UNCHANGED <<failed, doing>>
    <2>1. pinOut' \in [mem : {"none", "live", "freed"}, len : 0 .. 2] /\ pinOut'.mem = "live"
      BY <1>1, <1>2
    <2>2. CacheOK(cached', pinOut', failed')
      BY <1>1, <2>1, NoGraphsOK
    <2>3. CallOK(doing', cap', cached', pinOut', failed')
      BY <1>1, <1>2 DEF CallOK
    <2> QED  BY <1>1, <1>2, <2>1, <2>2, <2>3 DEF GraphsInv
  <1>3. CASE pinOut' = [pinOut EXCEPT !.mem = IF @ = "live" THEN "freed" ELSE @] /\ CallErr
    <2>1. pinOut' \in [mem : {"none", "live", "freed"}, len : 0 .. 2]
      BY <1>3 DEF GraphsInv
    <2>2. /\ failed' \subseteq Cache /\ failed \subseteq failed' /\ "single" \in failed'
          /\ CallOK(doing', cap', cached', pinOut', failed')
      BY <1>1, <1>3, CallErrKeeps
    <2>3. CacheOK(cached', pinOut', failed')
      BY <1>1, <2>2, NoGraphsOK
    <2> QED  BY <1>1, <2>1, <2>2, <2>3 DEF GraphsInv
  <1> QED
    BY <1>2, <1>3 DEF PinOut

LEMMA RanKeeps ==
  ASSUME GraphsInv, Ran
  PROVE  GraphsInv'
  <1>1. /\ doing.at = "run" /\ doing.todo = {} /\ UNCHANGED <<cap, pinOut, failed>> /\ doing \in GraphCall
        /\ CallOK(doing, cap, cached, pinOut, failed)
    BY DEF Ran, GraphsInv, CallOK
  <1>2. pinned' \subseteq {"embed", "pos", "batch"}
    BY DEF Ran, GraphsInv
  <1>3. CASE doing' = NoPass /\ UNCHANGED cached
    <2>1. CallOK(doing', cap', cached', pinOut', failed')
      BY <1>3, RestOK
    <2> QED  BY <1>1, <1>2, <1>3, <2>1 DEF GraphsInv
  <1>4. ASSUME doing.cache \in {"batch", "spec"}, NEW room \in Rooms(doing.cache),
               cached' = [cached EXCEPT ![doing.cache] = room], Enter("capture", doing.rows, Body)
        PROVE  GraphsInv'
    <2> DEFINE c == doing.cache
    <2>1. DOMAIN cached = Cache /\ c \in Cache /\ IsFiniteSet(cached[c]) /\ Cardinality(cached[c]) <= CacheMax
      BY <1>4 DEF GraphsInv, CacheOK, Cache
    <2>2. room \subseteq cached[c] /\ Cardinality(room) < CacheMax
      <3>1. Cardinality(cached[c]) \in Nat
        BY <2>1, FS_CardinalityType
      <3>2. CASE Cardinality(cached[c]) < CacheMax
        BY <1>4, <3>2 DEF Rooms
      <3>3. CASE ~(Cardinality(cached[c]) < CacheMax)
        <4>1. PICK g \in cached[c] : room = cached[c] \ {g}
          BY <1>4, <3>3 DEF Rooms
        <4>2. Cardinality(room) = Cardinality(cached[c]) - 1
          BY <2>1, <4>1, FS_RemoveElement
        <4> QED  BY <2>1, <3>1, <4>1, <4>2, WideIs
      <3> QED  BY <3>2, <3>3
    <2>3. DOMAIN cached' = Cache /\ \A d \in Cache : cached'[d] \subseteq cached[d]
      BY <1>4, <2>1, <2>2
    <2>4. cached'[c] = room
      BY <1>4, <2>1
    <2>5. CacheOK(cached', pinOut', failed')
      BY <1>1, <2>3, CacheLess DEF GraphsInv
    <2>6. /\ doing' \in GraphCall /\ doing'.at = "capture" /\ doing'.rows = doing.rows /\ doing'.todo = Body
          /\ doing'.cache = doing.cache /\ doing'.key = doing.key
      <3>1. doing.rows \in 0 .. Wide /\ Body \in SUBSET Buffer
        BY <1>1 DEF GraphCall, Body
      <3> QED  BY <1>1, <1>4, <3>1, EnterIs
    <2>7. \A b \in Body : doing.rows <= cap[b]
      BY <1>1 DEF CallOK
    <2>8. CallOK(doing', cap', cached', pinOut', failed')
      BY <1>1, <1>4, <2>2, <2>4, <2>6, <2>7 DEF CallOK
    <2> QED  BY <1>1, <1>2, <2>5, <2>8 DEF GraphsInv
  <1> QED
    BY <1>3, <1>4 DEF Ran

LEMMA CaptureKeeps ==
  ASSUME GraphsInv, Capture
  PROVE  GraphsInv'
  <1>1. /\ doing.at = "warm" /\ doing.todo = {} /\ Enter("capture", 1, Body)
        /\ UNCHANGED <<cap, pinned, pinOut, cached, failed>>
        /\ doing \in GraphCall /\ CallOK(doing, cap, cached, pinOut, failed)
    BY DEF Capture, Warmed, GraphsInv, CallOK
  <1>2. /\ doing' \in GraphCall /\ doing'.at = "capture" /\ doing'.rows = 1 /\ doing'.todo = Body
        /\ doing'.cache = doing.cache /\ doing'.key = doing.key
    <2>1. Body \in SUBSET Buffer
      BY DEF Body
    <2> QED  BY <1>1, <2>1, WideIs, EnterIs
  <1>3. \A b \in Body : 1 <= cap[b]
    <2>1. \A b \in Body : Wide <= cap[b]
      BY <1>1 DEF CallOK
    <2>2. \A b \in Body : cap[b] \in 0 .. Wide
      BY DEF GraphsInv, Body
    <2> QED  BY <2>1, <2>2, WideIs
  <1>4. doing.cache \notin {"batch", "spec"}
    BY <1>1 DEF CallOK, GraphsInv
  <1>5. doing.cache = "single" => pinOut.mem = "live" /\ doing.key[2] <= pinOut.len
    <2> SUFFICES ASSUME doing.cache = "single"
                 PROVE  pinOut.mem = "live" /\ doing.key[2] <= pinOut.len
      OBVIOUS
    <2>1. "single" \notin failed /\ doing.key[2] \in {1, 2}
      BY <1>1, KeysAre DEF CallOK
    <2>2. pinOut.mem # "none" /\ pinOut.len >= doing.key[2]
      BY DEF Capture
    <2>3. pinOut.mem # "freed" /\ pinOut.mem \in {"none", "live", "freed"} /\ pinOut.len \in 0 .. 2
      BY <2>1 DEF GraphsInv, CacheOK
    <2> QED  BY <2>1, <2>2, <2>3
  <1>6. CallOK(doing', cap', cached', pinOut', failed')
    BY <1>1, <1>2, <1>3, <1>4, <1>5 DEF CallOK
  <1> QED
    BY <1>1, <1>6 DEF GraphsInv

LEMMA CapturedKeeps ==
  ASSUME GraphsInv, Captured
  PROVE  GraphsInv'
  <1>1. /\ doing.at = "capture" /\ UNCHANGED <<cap, pinned, pinOut>>
        /\ doing \in GraphCall /\ CallOK(doing, cap, cached, pinOut, failed)
        /\ CacheOK(cached, pinOut, failed)
    BY DEF Captured, GraphsInv, CallOK
  <1>2. CASE doing' = NoPass /\ UNCHANGED <<failed, cached>>
    <2>1. CallOK(doing', cap', cached', pinOut', failed')
      BY <1>2, RestOK
    <2> QED  BY <1>1, <1>2, <2>1 DEF GraphsInv
  <1>3. CASE CallErr /\ UNCHANGED cached
    <2>1. failed' \subseteq Cache /\ failed \subseteq failed' /\ CallOK(doing', cap', cached', pinOut', failed')
      BY <1>1, <1>3, CallErrKeeps
    <2>2. CacheOK(cached', pinOut', failed')
      BY <1>1, <1>3, <2>1, CacheLess DEF CacheOK
    <2> QED  BY <1>1, <1>3, <2>1, <2>2 DEF GraphsInv
  <1> DEFINE c == doing.cache
             new == [key |-> doing.key, fresh |-> TRUE]
  <1>4. CASE /\ cached' = [cached EXCEPT ![c] = @ \union {new}]
             /\ doing' = NoPass /\ UNCHANGED failed
    <2>1. c \in Cache /\ doing.key \in Keys[c] /\ DOMAIN cached = Cache /\ new.key = doing.key /\ new.fresh
      BY <1>1 DEF CallOK, CacheOK, GraphCall
    <2> HIDE DEF new
    <2>2. /\ DOMAIN cached' = Cache
          /\ \A d \in Cache : cached'[d] = IF d = c THEN cached[d] \cup {new} ELSE cached[d]
      BY <1>4, <2>1
    <2>3. \A d \in Cache : \A g \in cached'[d] : g.key \in Keys[d] /\ g.fresh
      BY <1>1, <2>1, <2>2 DEF CacheOK
    <2>4. ASSUME NEW d \in {"batch", "spec"}
          PROVE  IsFiniteSet(cached'[d]) /\ Cardinality(cached'[d]) <= CacheMax
      <3>1. IsFiniteSet(cached[d]) /\ Cardinality(cached[d]) <= CacheMax /\ d \in Cache
        BY <1>1 DEF CacheOK, Cache
      <3>2. CASE d # c
        BY <2>2, <3>1, <3>2
      <3>3. CASE d = c
        <4>1. Cardinality(cached[d]) < CacheMax /\ Cardinality(cached[d]) \in Nat
          BY <1>1, <3>1, <3>3, FS_CardinalityType DEF CallOK
        <4>2. /\ IsFiniteSet(cached[d] \cup {new})
              /\ Cardinality(cached[d] \cup {new}) = Cardinality(cached[d])
                   \/ Cardinality(cached[d] \cup {new}) = Cardinality(cached[d]) + 1
          BY <3>1, FS_AddElement
        <4>3. Cardinality(cached[d] \cup {new}) <= CacheMax
          BY <4>1, <4>2, WideIs
        <4> QED  BY <2>2, <3>1, <3>3, <4>2, <4>3
      <3> QED  BY <3>2, <3>3
    <2>5. ASSUME NEW g \in cached'["kstep"], NEW h \in cached'["kstep"], g.key[1] = h.key[1]
          PROVE  g = h
      <3>1. CASE c # "kstep"
        BY <1>1, <2>2, <2>5, <3>1 DEF CacheOK, Cache
      <3>2. CASE c = "kstep"
        <4>1. \A f \in cached["kstep"] : f.key[1] # new.key[1]
          BY <1>1, <2>1, <3>2 DEF CallOK
        <4>2. cached'["kstep"] = cached["kstep"] \cup {new}
          BY <2>1, <2>2, <3>2
        <4> QED  BY <1>1, <2>5, <4>1, <4>2 DEF CacheOK
      <3> QED  BY <3>1, <3>2
    <2>6. ASSUME NEW g \in cached'["single"]
          PROVE  pinOut.mem = "live" /\ g.key[2] <= pinOut.len
      <3>1. CASE g \in cached["single"]
        BY <1>1, <3>1 DEF CacheOK
      <3>2. CASE g \notin cached["single"]
        <4>1. c = "single" /\ g = new
          BY <2>1, <2>2, <3>2 DEF Cache
        <4> QED  BY <1>1, <2>1, <4>1 DEF CallOK
      <3> QED  BY <3>1, <3>2
    <2>7. pinOut.mem = "freed" => "single" \in failed /\ cached'["single"] = {}
      <3> SUFFICES ASSUME pinOut.mem = "freed"
                   PROVE  "single" \in failed /\ cached'["single"] = {}
        OBVIOUS
      <3>1. "single" \in failed /\ cached["single"] = {}
        BY <1>1 DEF CacheOK
      <3>2. c # "single"
        BY <1>1, <3>1 DEF CallOK
      <3> QED  BY <2>2, <3>1, <3>2 DEF Cache
    <2>8. CacheOK(cached', pinOut', failed')
      BY <1>1, <1>4, <2>2, <2>3, <2>4, <2>5, <2>6, <2>7 DEF CacheOK
    <2>9. CallOK(doing', cap', cached', pinOut', failed')
      BY <1>4, RestOK
    <2> QED  BY <1>1, <1>4, <2>8, <2>9 DEF GraphsInv
  <1> QED
    BY <1>2, <1>3, <1>4 DEF Captured

LEMMA GraphsInvInit ==
  ASSUME GraphsInit
  PROVE  GraphsInv
  <1>1. CacheOK(cached, pinOut, failed)
    <2>1. pinOut.mem # "freed" /\ cached = NoGraphs
      BY DEF GraphsInit
    <2> QED  BY <2>1, NoGraphsOK
  <1>2. CallOK(doing, cap, cached, pinOut, failed)
    BY RestOK DEF GraphsInit
  <1> QED
    BY <1>1, <1>2, WideIs DEF GraphsInit, GraphsInv

LEMMA GraphsInvStep ==
  ASSUME GraphsInv, [GraphsNext]_graphVars
  PROVE  GraphsInv'
  <1>1. CASE UNCHANGED graphVars
    BY <1>1 DEF graphVars, GraphsInv
  <1> QED
    BY <1>1, BeginKeeps, PrefillKeeps, EnsureKeeps, EnsureErrKeeps, PinKeeps, PinOutKeeps,
       RanKeeps, CaptureKeeps, CapturedKeeps, LaunchErrKeeps DEF GraphsNext

LEMMA GraphsInvariant == GraphsSpec => []GraphsInv
  BY GraphsInvInit, GraphsInvStep, PTL DEF GraphsSpec

(***************************************************************************)
(* A graph that can be replayed has the addresses the buffers have now and *)
(* an output that is there and long enough, and no captured body grows a   *)
(* buffer: with any buffers, slots, widths and cache bounds, whichever     *)
(* step of whichever call fails (graph_invalidate, ensure_*, warm_for_     *)
(* capture of w4a16_dec).                                                  *)
(***************************************************************************)
THEOREM GraphsStayFresh == GraphsSpec => []GraphsFresh
  <1>1. GraphsInv => GraphsFresh
    BY DEF GraphsInv, CacheOK, CallOK, GraphsFresh
  <1> QED
    BY <1>1, GraphsInvariant, PTL

(***************************************************************************)
(* The variables keep their types; the caches of batches and verifications *)
(* never exceed their bound, and a slot has the k-step graph of one end    *)
(* token at most.                                                          *)
(***************************************************************************)
THEOREM GraphsTyped == GraphsSpec => []GraphsTypeOK
  <1>1. GraphsInv => GraphsTypeOK
    BY DEF GraphsInv, CacheOK, CallOK, GraphCall, GraphsTypeOK
  <1> QED
    BY <1>1, GraphsInvariant, PTL

-----------------------------------------------------------------------------
(***************************************************************************)
(* GdnCheckpoint.  A checkpoint is found by its position alone, a verify   *)
(* pass that runs before its graph is captured checkpoints drafts, and a   *)
(* k-step takes what follows the end of the sequence: what makes the reuse *)
(* lossless is that the prompts of a slot continue one another and that    *)
(* the two others do not happen.                                           *)
(***************************************************************************)
Straight ==
    /\ \A p, q \in Prompts : IsPrefix(p, q) \/ IsPrefix(q, p)
    /\ ~Eager
    /\ KMax < 2 \/ Eos \notin Token

GdnType ==
    /\ state \in Seq(Token) /\ pos \in Nat
    /\ prompt \in Prompts \union {<<>>} /\ conv \in Seq(Token)
    /\ ckpt \in [RingEntry -> [pos : Nat, state : Seq(Token), saved : Int]]

\* What position n of every prompt leads to.
LeadsTo(s, n) == n > 0 => \A q \in Prompts : n <= Len(q) => s = SubSeq(q, 1, n)

CkptOK == \A e \in RingEntry : LeadsTo(ckpt[e].state, ckpt[e].pos)

Resting == Idle /\ pos > 0 /\ Len(conv) = pos => state = conv

Reading == pos < Len(prompt) /\ conv = prompt
Behind == pos >= Len(prompt) /\ Len(conv) = pos + 1
Serving == ~Idle => state = SubSeq(conv, 1, pos) /\ (Reading \/ Behind)

GdnInv == GdnType /\ CkptOK /\ Resting /\ Serving

LEMMA PromptsAre ==
    ASSUME NEW p \in Prompts
    PROVE  p \in Seq(Token) /\ p # <<>> /\ Len(p) \in Nat \ {0}
<1>1. p \in Seq(Token) /\ p # <<>>
    BY GdnAssumption DEF GdnAssumption
<1>2. QED BY <1>1

(***************************************************************************)
(* Prompts that continue one another agree as far as both go.              *)
(***************************************************************************)
LEMMA PromptsAgree ==
    ASSUME Straight, NEW p \in Prompts, NEW q \in Prompts,
           NEW n \in Nat, n <= Len(p), n <= Len(q)
    PROVE  SubSeq(p, 1, n) = SubSeq(q, 1, n)
<1>1. /\ p \in Seq(Token) /\ Len(p) \in Nat
      /\ q \in Seq(Token) /\ Len(q) \in Nat
    BY PromptsAre
<1>2. ASSUME NEW a \in Seq(Token), NEW b \in Seq(Token), Len(a) \in Nat, Len(b) \in Nat,
             n <= Len(a), IsPrefix(a, b)
      PROVE  SubSeq(a, 1, n) = SubSeq(b, 1, n)
  <2>1. Len(a) <= Len(b) /\ SubSeq(a, 1, Len(a)) = SubSeq(b, 1, Len(a))
      BY <1>2 DEF IsPrefix
  <2>2. Len(a) \in 0 .. Len(a) /\ Len(a) \in 0 .. Len(b) /\ n \in 0 .. Len(a)
      BY <1>2, <2>1
  <2>3. SubSeq(SubSeq(a, 1, Len(a)), 1, n) = SubSeq(a, 1, n)
      BY <2>2, FirstOfFirst
  <2>4. SubSeq(SubSeq(b, 1, Len(a)), 1, n) = SubSeq(b, 1, n)
      BY <2>2, FirstOfFirst
  <2>5. QED BY <2>1, <2>3, <2>4
<1>3. IsPrefix(p, q) \/ IsPrefix(q, p)
    BY DEF Straight
<1>4. QED BY <1>1, <1>2, <1>3

(***************************************************************************)
(* Ends of passes: what is checkpointed there is what its position leads   *)
(* to.                                                                     *)
(***************************************************************************)
LEMMA ChainEndKeeps ==
    ASSUME GdnType, CkptOK, NEW t, NEW p \in Nat, NEW s \in Seq(Token),
           LeadsTo(s, p), ChainEnd(t, p, s)
    PROVE  /\ ckpt' \in [RingEntry -> [pos : Nat, state : Seq(Token), saved : Int]]
           /\ CkptOK'
<1>1. CASE UNCHANGED ring
    BY <1>1 DEF ring, GdnType, CkptOK, LeadsTo
<1>2. CASE Checkpoint(p, s)
  <2> DEFINE new == [pos |-> p, state |-> s, saved |-> 0]
             v == Victim
  <2>1. new \in [pos : Nat, state : Seq(Token), saved : Int] /\ new.pos = p /\ new.state = s
      OBVIOUS
  <2>2. ckpt' = [ckpt EXCEPT ![v] = new]
      BY <1>2 DEF Checkpoint
  <2> HIDE DEF new, v
  <2>3. ckpt' \in [RingEntry -> [pos : Nat, state : Seq(Token), saved : Int]]
      BY <2>1, <2>2 DEF GdnType
  <2>4. \A e \in RingEntry : ckpt'[e] = ckpt[e] \/ ckpt'[e] = new
      BY <2>2 DEF GdnType
  <2>5. ASSUME NEW e \in RingEntry
        PROVE  LeadsTo(ckpt'[e].state, ckpt'[e].pos)
    <3>1. CASE ckpt'[e] = ckpt[e]
        BY <3>1 DEF CkptOK
    <3>2. CASE ckpt'[e] = new
        BY <3>2, <2>1
    <3>3. QED BY <2>4, <3>1, <3>2
  <2>6. QED BY <2>3, <2>5 DEF CkptOK, LeadsTo
<1>3. QED BY <1>1, <1>2 DEF ChainEnd

(***************************************************************************)
(* A conversation one token ahead of the state: the state, fed its last    *)
(* token, has consumed all of it.                                          *)
(***************************************************************************)
LEMMA Consumed ==
    ASSUME GdnType, Serving, Decoding
    PROVE  /\ Len(conv) = pos + 1 /\ Last(conv) \in Token /\ Next1 \in Seq(Token)
           /\ state \o Next1 = conv /\ SubSeq(conv, 1, pos + 1) = conv
<1>1. Len(conv) = pos + 1 /\ state = SubSeq(conv, 1, pos)
  <2>1. prompt \in Seq(Token)
      BY PromptsAre DEF GdnType, Decoding, Idle
  <2>2. Len(prompt) \in Nat /\ pos \in Nat
      BY <2>1 DEF GdnType
  <2>3. QED BY <2>2 DEF Serving, Decoding, Reading, Behind
<1>2. conv \in Seq(Token) /\ conv # <<>> /\ pos \in Nat
    BY <1>1 DEF GdnType
<1>3. Front(conv) \in Seq(Token) /\ Last(conv) \in Token
    BY <1>2, FrontIs
<1>4. Front(conv) \o <<Last(conv)>> = conv
    BY <1>2, EmitsRows
<1>5. Front(conv) = SubSeq(conv, 1, pos)
    BY <1>1, <1>2 DEF Front
<1>6. SubSeq(conv, 1, pos + 1) = conv
    BY <1>1, <1>2, SubSeqFull
<1>7. Next1 \in Seq(Token)
    BY <1>3 DEF Next1
<1>8. state \o Next1 = conv
    BY <1>1, <1>4, <1>5 DEF Next1
<1>9. QED BY <1>1, <1>3, <1>6, <1>7, <1>8

(***************************************************************************)
(* The invariant at first and under each action.                           *)
(***************************************************************************)
LEMMA GdnInvInit == GdnInit => GdnInv
<1> SUFFICES ASSUME GdnInit PROVE GdnInv
    OBVIOUS
<1>1. <<>> \in Seq(Token) /\ NoCkpt \in [pos : Nat, state : Seq(Token), saved : Int] /\ NoCkpt.pos = 0
    BY DEF NoCkpt
<1>2. GdnType
    BY <1>1 DEF GdnInit, GdnType
<1>3. CkptOK
    BY <1>1 DEF GdnInit, CkptOK, LeadsTo
<1>4. QED BY <1>2, <1>3 DEF GdnInit, GdnInv, Resting, Serving, Idle

LEMMA ResetKeeps ==
    ASSUME Reset, NEW p \in Prompts
    PROVE  state' \in Seq(Token) /\ pos' = 0 /\ state' = SubSeq(p, 1, pos')
<1>1. SubSeq(p, 1, 0) = <<>>
    BY SubSeqEmpty
<1>2. QED BY <1>1 DEF Reset

(***************************************************************************)
(* restore_gdn: the state restored is what its position leads to.          *)
(***************************************************************************)
LEMMA RestoreKeeps ==
    ASSUME GdnType, CkptOK, NEW l \in Nat, Usable(l) # {}, Restore(l),
           NEW q \in Prompts, l <= Len(q)
    PROVE  /\ state' \in Seq(Token) /\ pos' \in 1 .. l /\ state' = SubSeq(q, 1, pos')
           /\ ckpt' \in [RingEntry -> [pos : Nat, state : Seq(Token), saved : Int]]
           /\ CkptOK'
<1> DEFINE P == {ckpt[e].pos : e \in Usable(l)}
           p == Max(P)
           E == {e \in RingEntry : ckpt[e].pos = p}
           k == Min(E)
           s == Min({ckpt[k].saved + l - p, SavedMax})
<1>1. P \in SUBSET (0 .. l) /\ P # {}
  <2>1. \A e \in Usable(l) : ckpt[e].pos \in 0 .. l
      BY DEF Usable
  <2>2. QED BY <2>1
<1>2. p \in P
  <2> HIDE DEF P
  <2> QED BY <1>1, MaxUpTo
<1>3. PICK e \in RingEntry : ckpt[e].pos = p /\ p \in 1 .. l
    BY <1>2 DEF Usable
<1> HIDE DEF P, p
<1>4. E \in SUBSET Nat /\ E # {}
    BY <1>3, GdnAssumption DEF RingEntry, GdnAssumption
<1>5. k \in E
  <2> HIDE DEF E
  <2> QED BY <1>4, MinOfNats
<1>6. k \in RingEntry /\ ckpt[k].pos = p
    BY <1>5
<1> HIDE DEF E, k
<1>7. ckpt[k].state \in Seq(Token) /\ ckpt[k].saved \in Int /\ ckpt[k].pos \in Nat
    BY <1>6 DEF GdnType
<1>8. s \in Int
  <2>1. ckpt[k].saved + l - p \in Int /\ SavedMax \in Int
      BY <1>3, <1>7, GdnAssumption DEF GdnAssumption
  <2>2. QED BY <2>1, MinOfTwo
<1>9. state' = ckpt[k].state /\ pos' = p /\ ckpt' = [ckpt EXCEPT ![k].saved = s]
    BY DEF Restore, P, E, p, k
<1> HIDE DEF s
<1>10. ckpt' \in [RingEntry -> [pos : Nat, state : Seq(Token), saved : Int]]
    BY <1>6, <1>8, <1>9 DEF GdnType
<1>11. \A d \in RingEntry : ckpt'[d].pos = ckpt[d].pos /\ ckpt'[d].state = ckpt[d].state
    BY <1>6, <1>9 DEF GdnType
<1>12. CkptOK'
    BY <1>11 DEF CkptOK, LeadsTo
<1>13. state' = SubSeq(q, 1, pos')
  <2>1. p > 0 /\ p <= Len(q)
      BY <1>3, PromptsAre
  <2>2. LeadsTo(ckpt[k].state, p)
      BY <1>6 DEF CkptOK
  <2>3. QED BY <1>9, <2>1, <2>2 DEF LeadsTo
<1>14. QED BY <1>3, <1>7, <1>9, <1>10, <1>12, <1>13

LEMMA AssignKeeps ==
    ASSUME GdnInv, NEW p \in Prompts, Assign(p)
    PROVE  GdnInv'
<1> DEFINE l == Shared(p)
           m == Len(LongestCommonPrefix({conv, p}))
<1> USE DEF GdnInv
<1>1. p \in Seq(Token) /\ p # <<>> /\ Len(p) \in Nat \ {0}
    BY PromptsAre
<1>2. m \in Nat /\ m <= Len(conv) /\ \A n \in 0 .. m : SubSeq(conv, 1, n) = SubSeq(p, 1, n)
  <2>1. conv \in Seq(Token)
      BY DEF GdnType
  <2>2. QED BY <1>1, <2>1, CommonPrefix
<1> HIDE DEF m
<1>3. l \in Nat /\ l <= m /\ l <= pos /\ l <= Len(p) - 1
  <2> DEFINE B == {m, pos, Len(p) - 1}
  <2>1. B \in SUBSET Nat /\ B # {} /\ m \in B /\ pos \in B /\ Len(p) - 1 \in B /\ l = Min(B)
      BY <1>1, <1>2 DEF GdnType, Shared, m
  <2> HIDE DEF B, l
  <2>2. l \in B /\ \A y \in B : l <= y
      BY <2>1, MinOfNats
  <2>3. QED BY <2>1, <2>2
<1> HIDE DEF l
<1>4. prompt' = p /\ conv' = p
    BY DEF Assign
<1>5. /\ state' \in Seq(Token) /\ pos' \in 0 .. Len(p) - 1 /\ state' = SubSeq(p, 1, pos')
      /\ ckpt' \in [RingEntry -> [pos : Nat, state : Seq(Token), saved : Int]] /\ CkptOK'
  <2>1. CASE /\ l > 0 /\ l = Len(conv) /\ l = pos
             /\ UNCHANGED <<state, pos, ring>>
    <3>1. state = conv
        BY <2>1 DEF Resting, Assign
    <3>2. SubSeq(conv, 1, l) = conv
        BY <2>1, SubSeqFull DEF GdnType
    <3>3. SubSeq(conv, 1, l) = SubSeq(p, 1, l)
        BY <1>2, <1>3
    <3>4. ckpt' = ckpt /\ CkptOK'
        BY <2>1 DEF ring, CkptOK, LeadsTo
    <3>5. QED BY <1>1, <1>3, <2>1, <3>1, <3>2, <3>3, <3>4 DEF GdnType
  <2>2. CASE Usable(l) # {} /\ Restore(l)
    <3>1. l <= Len(p)
        BY <1>1, <1>3
    <3>2. /\ state' \in Seq(Token) /\ pos' \in 1 .. l /\ state' = SubSeq(p, 1, pos')
          /\ ckpt' \in [RingEntry -> [pos : Nat, state : Seq(Token), saved : Int]] /\ CkptOK'
        BY <1>3, <2>2, <3>1, RestoreKeeps
    <3>3. QED BY <1>1, <1>3, <3>2
  <2>3. CASE Reset /\ UNCHANGED ring
    <3>1. ckpt' = ckpt /\ CkptOK'
        BY <2>3 DEF ring, CkptOK, LeadsTo
    <3>2. QED BY <1>1, <2>3, <3>1, ResetKeeps DEF GdnType
  <2>4. QED BY <2>1, <2>2, <2>3 DEF Assign, l
<1>6. GdnType'
    BY <1>1, <1>4, <1>5 DEF GdnType
<1>7. ~Idle' /\ Serving'
    BY <1>1, <1>4, <1>5 DEF Idle, Serving, Reading
<1>8. QED BY <1>5, <1>6, <1>7 DEF Resting

LEMMA ReadKeeps ==
    ASSUME Straight, GdnInv, NEW c \in 1 .. Len(prompt) - pos, Read(c)
    PROVE  GdnInv'
<1> USE DEF GdnInv
<1>1. prompt \in Prompts /\ prompt \in Seq(Token) /\ prompt # <<>> /\ Len(prompt) \in Nat \ {0}
    BY PromptsAre DEF GdnType, Read, Idle
<1>2. pos \in Nat /\ c \in Nat \ {0} /\ pos + c \in 0 .. Len(prompt)
    BY <1>1 DEF GdnType
<1>3. conv = prompt /\ state = SubSeq(prompt, 1, pos)
    BY <1>1, <1>2 DEF Read, Serving, Reading, Behind
<1>4. pos' = pos + c /\ prompt' = prompt /\ state' = state \o SubSeq(prompt, pos + 1, pos + c)
    BY DEF Read
<1>5. state' = SubSeq(prompt, 1, pos')
    BY <1>1, <1>2, <1>3, <1>4, FirstAndNext
<1>6. state' \in Seq(Token) /\ pos' \in Nat /\ pos' \in 0 .. Len(prompt) /\ pos' <= Len(prompt)
  <2>1. pos' \in 0 .. Len(prompt)
      BY <1>2, <1>4
  <2>2. SubSeq(prompt, 1, pos') \in Seq(Token)
      BY <1>1, <2>1, FirstOnes
  <2>3. QED BY <1>1, <1>5, <2>1, <2>2
<1>7. LeadsTo(state', pos')
  <2>1. ASSUME NEW q \in Prompts, pos' <= Len(q)
        PROVE  state' = SubSeq(q, 1, pos')
    <3>1. SubSeq(prompt, 1, pos') = SubSeq(q, 1, pos')
        BY <1>1, <1>6, <2>1, PromptsAgree
    <3>2. QED BY <1>5, <3>1
  <2>2. QED BY <2>1 DEF LeadsTo
<1>8. /\ ckpt' \in [RingEntry -> [pos : Nat, state : Seq(Token), saved : Int]]
      /\ CkptOK'
  <2>1. ChainEnd(c, pos', state')
      BY DEF Read
  <2>2. QED BY <1>6, <1>7, <2>1, ChainEndKeeps
<1>9. conv' \in Seq(Token) /\ SubSeq(conv', 1, pos') = SubSeq(prompt, 1, pos') /\ (Reading' \/ Behind')
  <2>1. CASE pos' < Len(prompt) /\ UNCHANGED conv
      BY <1>1, <1>3, <1>4, <2>1 DEF Reading
  <2>2. CASE pos' = Len(prompt) /\ \E x \in Token : conv' = Append(conv, x)
    <3>1. PICK x \in Token : conv' = Append(conv, x)
        BY <2>2
    <3>2. /\ conv' \in Seq(Token) /\ Len(conv') = Len(prompt) + 1
          /\ \A n \in 0 .. Len(prompt) : SubSeq(conv', 1, n) = SubSeq(prompt, 1, n)
        BY <1>1, <1>3, <3>1, FrontOfAppend
    <3>3. QED BY <1>1, <1>4, <1>6, <2>2, <3>2 DEF Behind
  <2>3. QED BY <2>1, <2>2 DEF Read
<1>10. GdnType'
    BY <1>1, <1>4, <1>6, <1>8, <1>9 DEF GdnType
<1>11. ~Idle' /\ Serving'
    BY <1>1, <1>4, <1>5, <1>9 DEF Idle, Serving
<1>12. QED BY <1>8, <1>10, <1>11 DEF Resting

LEMMA DecodeKeeps == GdnInv /\ Decode => GdnInv'
<1> SUFFICES ASSUME GdnInv, Decode PROVE GdnInv'
    OBVIOUS
<1> USE DEF GdnInv
<1>1. /\ Len(conv) = pos + 1 /\ Next1 \in Seq(Token)
      /\ state \o Next1 = conv /\ SubSeq(conv, 1, pos + 1) = conv
    BY Consumed DEF Decode, Going
<1>2. conv \in Seq(Token) /\ pos \in Nat
    BY DEF GdnType
<1>3. pos' = pos + 1 /\ state' = conv /\ prompt' = prompt /\ ckpt' = ckpt
    BY <1>1 DEF Decode, ring
<1>4. PICK x \in Token : conv' = Append(conv, x)
    BY DEF Decode
<1>5. /\ conv' \in Seq(Token) /\ Len(conv') = Len(conv) + 1
      /\ \A n \in 0 .. Len(conv) : SubSeq(conv', 1, n) = SubSeq(conv, 1, n)
    BY <1>2, <1>4, FrontOfAppend
<1>6. SubSeq(conv', 1, pos + 1) = conv
  <2>1. pos + 1 \in 0 .. Len(conv)
      BY <1>1, <1>2
  <2>2. SubSeq(conv', 1, pos + 1) = SubSeq(conv, 1, pos + 1)
      BY <1>5, <2>1
  <2>3. QED BY <1>1, <2>2
<1>7. GdnType' /\ CkptOK'
    BY <1>2, <1>3, <1>5 DEF GdnType, CkptOK, LeadsTo
<1>8. Behind'
  <2>1. prompt \in Seq(Token)
      BY PromptsAre DEF GdnType, Decode, Going, Decoding, Idle
  <2>2. pos >= Len(prompt) /\ Len(prompt) \in Nat
      BY <2>1 DEF Decode, Going, Decoding
  <2>3. QED BY <1>1, <1>2, <1>3, <1>5, <2>2 DEF Behind
<1>9. ~Idle' /\ Serving'
    BY <1>3, <1>6, <1>8 DEF Idle, Serving, Decode, Going, Decoding
<1>10. QED BY <1>7, <1>9 DEF Resting

LEMMA DraftsAre ==
    ASSUME NEW n \in Nat, NEW xs \in BoundedSeq(Token, n)
    PROVE  xs \in Seq(Token) /\ Len(xs) \in 0 .. n
<1>1. PICK m \in 0 .. n : xs \in [1 .. m -> Token]
    BY DEF BoundedSeq, SeqOf
<1>2. QED BY <1>1

(***************************************************************************)
(* decode_k_greedy where no step emits the end of the sequence.            *)
(***************************************************************************)
LEMMA KStepKeeps ==
    ASSUME Straight, GdnInv, NEW xs \in BoundedSeq(Token, KMax), KStep(xs)
    PROVE  GdnInv'
<1> USE DEF GdnInv
<1>1. xs \in Seq(Token) /\ Len(xs) \in 2 .. KMax
    BY DraftsAre, GdnAssumption DEF GdnAssumption, KStep
<1>2. xs # <<>> /\ Len(xs) \in Nat /\ Len(xs) >= 2 /\ KMax >= 2
    BY <1>1, GdnAssumption DEF GdnAssumption
<1>3. Eos \notin Token
    BY <1>2, GdnAssumption DEF GdnAssumption, Straight
<1>4. Upto(xs) = Len(xs) /\ xs[Len(xs)] # Eos
  <2>1. \A i \in 1 .. Len(xs) : xs[i] \in Token
      BY <1>1, ElementOfSeq
  <2>2. Eos \notin ToSet(xs)
      BY <1>1, <1>3, <2>1 DEF ToSet
  <2>3. Len(xs) \in 1 .. Len(xs)
      BY <1>2
  <2>4. QED BY <1>3, <2>1, <2>2, <2>3 DEF Upto
<1>5. /\ Len(conv) = pos + 1 /\ Next1 \in Seq(Token) /\ state \o Next1 = conv
    BY Consumed DEF KStep, Going
<1>6. conv \in Seq(Token) /\ pos \in Nat
    BY DEF GdnType
<1>7. /\ pos' = pos + Len(xs) /\ state' = conv \o Front(xs)
      /\ conv' = conv \o xs /\ prompt' = prompt /\ ckpt' = ckpt
    BY <1>4, <1>5 DEF KStep, ring
<1>8. conv' \in Seq(Token) /\ Len(conv') = pos' + 1 /\ pos' \in Nat
  <2>1. conv \o xs \in Seq(Token) /\ Len(conv \o xs) = Len(conv) + Len(xs)
      BY <1>1, <1>6, ConcatProperties
  <2>2. QED BY <1>2, <1>5, <1>6, <1>7, <2>1
<1>9. state' = SubSeq(conv', 1, pos') /\ state' \in Seq(Token)
  <2>1. conv # <<>> /\ conv' # <<>>
      BY <1>5, <1>6, <1>8
  <2>2. state' = Front(conv')
      BY <1>1, <1>2, <1>6, <1>7, <2>1, EmitsRows
  <2>3. Front(conv') = SubSeq(conv', 1, pos')
    <3>1. Len(conv') - 1 = pos'
      <4> DEFINE n == Len(conv')
                 m == pos'
      <4>1. n = m + 1 /\ m \in Nat
          BY <1>8
      <4> HIDE DEF n, m
      <4>2. n - 1 = m
          BY <4>1
      <4>3. QED BY <4>2 DEF n, m
    <3>2. Front(conv') = SubSeq(conv', 1, Len(conv') - 1)
        BY DEF Front
    <3>3. QED BY <3>1, <3>2
  <2>4. Front(conv') \in Seq(Token)
      BY <1>8, <2>1, FrontIs
  <2>5. QED BY <2>2, <2>3, <2>4
<1>10. GdnType' /\ CkptOK'
    BY <1>7, <1>8, <1>9 DEF GdnType, CkptOK, LeadsTo
<1>11. Behind'
  <2>1. prompt \in Seq(Token)
      BY PromptsAre DEF GdnType, KStep, Going, Decoding, Idle
  <2>2. pos >= Len(prompt) /\ Len(prompt) \in Nat
      BY <2>1 DEF KStep, Going, Decoding
  <2>3. QED BY <1>2, <1>6, <1>7, <1>8, <2>2 DEF Behind
<1>12. ~Idle' /\ Serving'
    BY <1>7, <1>9, <1>11 DEF Idle, Serving, KStep, Going, Decoding
<1>13. QED BY <1>10, <1>12 DEF Resting

(***************************************************************************)
(* spec_round: state and conversation are rolled back to the same drafts.  *)
(***************************************************************************)
LEMMA VerifyKeeps ==
    ASSUME GdnInv, NEW draft \in BoundedSeq(Token, DraftMax), NEW acc \in 0 .. Len(draft),
           Verify(draft, acc, TRUE)
    PROVE  GdnInv'
<1> DEFINE a == SubSeq(draft, 1, acc)
           c == conv \o a
<1> USE DEF GdnInv
<1>1. draft \in Seq(Token)
    BY DraftsAre, GdnAssumption DEF GdnAssumption
<1>2. a \in Seq(Token) /\ Len(a) = acc
    BY <1>1, FirstOnes
<1>3. acc \in Nat
    BY <1>1
<1>4. /\ Len(conv) = pos + 1 /\ Next1 \in Seq(Token) /\ state \o Next1 = conv
    BY Consumed DEF Verify, Going
<1>5. conv \in Seq(Token) /\ pos \in Nat /\ state \in Seq(Token)
    BY DEF GdnType
<1>6. PICK x \in Token : conv' = c \o <<x>>
    BY DEF Verify
<1>7. state' = state \o (Next1 \o a) /\ pos' = pos + 1 + acc /\ prompt' = prompt /\ ckpt' = ckpt
    BY DEF Verify, Kept, ring
<1>8. state' = c
  <2> HIDE DEF a
  <2>1. \A u, v, w \in Seq(Token) : (u \o v) \o w = u \o (v \o w)
      BY ConcatAssociative
  <2>2. (state \o Next1) \o a = state \o (Next1 \o a)
      BY <1>2, <1>4, <1>5, <2>1, Zenon
  <2>3. QED BY <1>4, <1>7, <2>2
<1>9. c \in Seq(Token) /\ Len(c) = pos' /\ pos' \in Nat
  <2> HIDE DEF a
  <2>1. c \in Seq(Token) /\ Len(c) = Len(conv) + Len(a)
      BY <1>2, <1>5, ConcatProperties
  <2>2. QED BY <1>2, <1>3, <1>4, <1>5, <1>7, <2>1
<1> HIDE DEF c
<1>10. conv' \in Seq(Token) /\ Len(conv') = pos' + 1 /\ SubSeq(conv', 1, pos') = c
  <2>1. <<x>> \in Seq(Token) /\ Len(<<x>>) = 1
      OBVIOUS
  <2>2. c \o <<x>> \in Seq(Token) /\ Len(c \o <<x>>) = Len(c) + Len(<<x>>)
      BY <1>9, <2>1, ConcatProperties
  <2>3. SubSeq(c \o <<x>>, 1, Len(c)) = c
      BY <1>9, <2>1, FirstOfConcat
  <2>4. QED BY <1>6, <1>9, <2>1, <2>2, <2>3
<1>11. GdnType' /\ CkptOK'
    BY <1>7, <1>8, <1>9, <1>10 DEF GdnType, CkptOK, LeadsTo
<1>12. Behind'
  <2>1. prompt \in Seq(Token)
      BY PromptsAre DEF GdnType, Verify, Going, Decoding, Idle
  <2>2. pos >= Len(prompt) /\ Len(prompt) \in Nat
      BY <2>1 DEF Verify, Going, Decoding
  <2>3. QED BY <1>3, <1>5, <1>7, <1>10, <2>2 DEF Behind
<1>13. ~Idle' /\ Serving'
    BY <1>7, <1>8, <1>10, <1>12 DEF Idle, Serving, Verify, Going, Decoding
<1>14. QED BY <1>11, <1>13 DEF Resting

(***************************************************************************)
(* finish_slot: a conversation as long as the state is what it consumed.   *)
(***************************************************************************)
LEMMA FinishKeeps == GdnInv /\ Finish => GdnInv'
<1> SUFFICES ASSUME GdnInv, Finish PROVE GdnInv'
    OBVIOUS
<1> USE DEF GdnInv
<1>1. Len(conv) = pos + 1
    BY Consumed DEF Finish
<1>2. conv \in Seq(Token) /\ pos \in Nat /\ state = SubSeq(conv, 1, pos) /\ Len(prompt) \in Nat
  <2>1. prompt \in Seq(Token)
      BY PromptsAre DEF GdnType, Finish, Decoding, Idle
  <2>2. QED BY <2>1 DEF GdnType, Serving, Finish, Decoding
<1>3. PICK n \in 0 .. Len(conv) : conv' = SubSeq(conv, 1, n)
  <2>1. Len(prompt) .. Len(conv) \subseteq 0 .. Len(conv) /\ {Len(conv) - 1, Len(conv)} \subseteq 0 .. Len(conv)
      BY <1>1, <1>2
  <2>2. QED BY <2>1 DEF Finish
<1>4. conv' \in Seq(Token) /\ Len(conv') = n
    BY <1>2, <1>3, FirstOnes
<1>5. state' = state /\ pos' = pos /\ prompt' = <<>> /\ ckpt' = ckpt
    BY DEF Finish, ring
<1>6. GdnType' /\ CkptOK'
    BY <1>4, <1>5 DEF GdnType, CkptOK, LeadsTo
<1>7. Resting' /\ Idle'
    BY <1>2, <1>3, <1>4, <1>5 DEF Resting, Idle
<1>8. QED BY <1>6, <1>7 DEF Serving

LEMMA FailKeeps == GdnInv /\ Fail => GdnInv'
<1> SUFFICES ASSUME GdnInv, Fail PROVE GdnInv'
    OBVIOUS
<1>1. state' = <<>> /\ pos' = 0 /\ prompt' = <<>> /\ conv' = <<>> /\ ckpt' = ckpt
    BY DEF Fail, Reset, ring
<1>2. QED BY <1>1 DEF GdnInv, GdnType, CkptOK, LeadsTo, Resting, Serving, Idle

LEMMA ReclaimKeeps == GdnInv /\ Reclaim => GdnInv'
<1> SUFFICES ASSUME GdnInv, Reclaim PROVE GdnInv'
    OBVIOUS
<1>1. state' = state /\ pos' = pos /\ prompt' = prompt /\ conv' = <<>> /\ ckpt' = ckpt /\ Idle'
    BY DEF Reclaim, ring, Idle
<1>2. Len(<<>>) = 0 /\ <<>> \in Seq(Token)
    OBVIOUS
<1>3. QED BY <1>1, <1>2 DEF GdnInv, GdnType, CkptOK, LeadsTo, Resting, Serving

LEMMA GdnInvStep ==
    ASSUME Straight, GdnInv, [GdnNext]_gdnVars
    PROVE  GdnInv'
<1>1. CASE UNCHANGED gdnVars
    BY <1>1 DEF gdnVars, GdnInv, GdnType, CkptOK, LeadsTo, Resting, Serving, Reading, Behind, Idle
<1>2. ASSUME NEW draft \in BoundedSeq(Token, DraftMax), NEW acc \in 0 .. Len(draft),
             NEW graph \in {TRUE, ~Eager}, Verify(draft, acc, graph)
      PROVE  GdnInv'
  <2>1. graph = TRUE
      BY DEF Straight
  <2>2. QED BY <1>2, <2>1, VerifyKeeps
<1>3. QED BY <1>1, <1>2, AssignKeeps, ReadKeeps, DecodeKeeps, KStepKeeps, FinishKeeps,
             FailKeeps, ReclaimKeeps DEF GdnNext

(***************************************************************************)
(* The recurrent state is the one the request's own tokens lead to,        *)
(* whatever the checkpoints, the failures and the reuse of the slot before *)
(* it (assign_slot, restore_gdn, checkpoint_gdn, spec_round): with any     *)
(* number of checkpoints, any distance between them and drafts of any      *)
(* length, as long as the prompts of the slot continue one another, verify *)
(* passes run captured and no k-step passes the end of the sequence.       *)
(***************************************************************************)
THEOREM ReuseIsLossless == ASSUME Straight PROVE GdnSpec => []LosslessReuse
<1>1. GdnInv => LosslessReuse
  <2> SUFFICES ASSUME GdnInv, ~Idle PROVE pos <= Len(conv) /\ state = SubSeq(conv, 1, pos)
      BY DEF LosslessReuse
  <2>1. prompt \in Seq(Token) /\ pos \in Nat /\ conv \in Seq(Token)
      BY PromptsAre DEF GdnInv, GdnType, Idle
  <2>2. Len(prompt) \in Nat /\ Len(conv) \in Nat
      BY <2>1
  <2>3. QED BY <2>1, <2>2 DEF GdnInv, Serving, Reading, Behind
<1>2. GdnInv /\ [GdnNext]_gdnVars => GdnInv'
    BY GdnInvStep
<1>3. QED BY <1>1, <1>2, GdnInvInit, PTL DEF GdnSpec

-----------------------------------------------------------------------------
(***************************************************************************)
(* ExpertCache.  A slot that an expert is registered for holds it, unless  *)
(* its copy failed, and the device's table names the slot; no expert has   *)
(* two.  The slots a call has found so far are the last used: in the order *)
(* of age every slot behind one of them is one of them.  So if the oldest  *)
(* of all were among them they would be all slots, each registered for an  *)
(* expert of the call other than the one that has none yet, and the call   *)
(* would need more experts than there are slots.                           *)
(***************************************************************************)
ExpertOrNone == Expert \union {None}
Taken == {pass.found[i] : i \in DOMAIN pass.found}

CacheType ==
    /\ K \in Ks
    /\ ids \in [Staged -> ExpertOrNone] /\ weights \in [Staged -> ExpertOrNone]
    /\ recent \in [Staged -> Staged]
    /\ devTab \in [Expert -> Nat]
PassType ==
    /\ pass.mode \in {"idle", "token", "chunk"}
    /\ pass.sel \in Seq(Expert) /\ pass.found \in Seq(Nat) /\ pass.wrapped \in BOOLEAN
    /\ pass = [mode |-> pass.mode, sel |-> pass.sel, found |-> pass.found, wrapped |-> pass.wrapped]
    /\ Len(pass.found) <= Len(pass.sel)
    /\ pass.mode = "idle" => pass = NoStage

EveryAge == \A s \in Staged : \E i \in Staged : recent[i] = s
OneAge == \A i, j \in Staged : recent[i] = recent[j] => i = j
OneSlot == \A s, t \in Staged : ids[s] = ids[t] /\ ids[s] # None => s = t
Loaded == \A s \in Staged : ids[s] \notin torn \union {None} => weights[s] = ids[s] /\ devTab[ids[s]] = s

Fits == pass.mode # "idle" /\ K > 0 => Cardinality(ToSet(pass.sel)) <= K
NoCache == K = 0 => pass.mode # "chunk" /\ \A i \in DOMAIN pass.found : pass.found[i] = 0
Placed == K > 0 => \A i \in DOMAIN pass.found :
    pass.found[i] \in Staged /\ (~pass.wrapped => ids[pass.found[i]] = pass.sel[i])
Youngest == K > 0 /\ ~pass.wrapped => \A i, j \in Staged : i < j /\ recent[i] \in Taken => recent[j] \in Taken

ExpertInv ==
    /\ CacheType /\ PassType
    /\ EveryAge /\ OneAge /\ OneSlot /\ Loaded
    /\ Fits /\ NoCache /\ Placed /\ Youngest

(***************************************************************************)
(* A slot used last goes to the end of the order of age.  The order stays  *)
(* one of all slots, and slots that were the youngest are with it still.   *)
(***************************************************************************)
IsOrder(n, order) ==
    /\ order \in [1 .. n -> 1 .. n]
    /\ \A s \in 1 .. n : \E i \in 1 .. n : order[i] = s
    /\ \A i, j \in 1 .. n : order[i] = order[j] => i = j
AreYoungest(n, order, T) == \A i, j \in 1 .. n : i < j /\ order[i] \in T => order[j] \in T

\* The order with the slot at place p moved to its end.
ToTheEnd(n, order, p) == [i \in 1 .. n |-> IF i < p THEN order[i] ELSE IF i < n THEN order[i + 1] ELSE order[p]]

LEMMA LastIs ==
    ASSUME NEW n \in Nat, NEW order, IsOrder(n, order), NEW s \in 1 .. n
    PROVE  \E p \in 1 .. n : order[p] = s /\ MadeLast(order, s) = ToTheEnd(n, order, p)
<1> DEFINE p == CHOOSE i \in DOMAIN order : order[i] = s
<1>1. order \in Seq(1 .. n) /\ Len(order) = n /\ DOMAIN order = 1 .. n
    BY DEF IsOrder
<1>2. p \in 1 .. n /\ order[p] = s
    BY <1>1 DEF IsOrder
<1>3. MadeLast(order, s) = Append(RemoveAt(order, p), s)
    BY DEF MadeLast
<1> HIDE DEF p
<1> DEFINE short == RemoveAt(order, p)
           new == ToTheEnd(n, order, p)
<1>4. /\ short \in Seq(1 .. n) /\ Len(short) = n - 1
      /\ \A i \in 1 .. n - 1 : short[i] = IF i < p THEN order[i] ELSE order[i + 1]
    BY <1>1, <1>2 DEF RemoveAt
<1>5. n - 1 \in Nat
    BY <1>2
<1> HIDE DEF short
<1>6. /\ Append(short, s) \in Seq(1 .. n) /\ Len(Append(short, s)) = n
      /\ \A i \in 1 .. n : Append(short, s)[i] = IF i < n THEN short[i] ELSE s
    BY <1>4, <1>5
<1>7. new \in Seq(1 .. n) /\ Len(new) = n /\ \A i \in 1 .. n : Append(short, s)[i] = new[i]
    <2>1. \A i \in 1 .. n : new[i] \in 1 .. n
        <3> SUFFICES ASSUME NEW i \in 1 .. n PROVE new[i] \in 1 .. n
            OBVIOUS
        <3>1. order[i] \in 1 .. n /\ order[p] \in 1 .. n /\ (i < n => i + 1 \in 1 .. n /\ order[i + 1] \in 1 .. n)
            <4>1. order \in [1 .. n -> 1 .. n]
                BY DEF IsOrder
            <4>2. QED BY <1>2, <4>1
        <3>2. QED BY <3>1 DEF ToTheEnd
    <2>2. new \in [1 .. n -> 1 .. n]
        BY <2>1 DEF ToTheEnd
    <2>3. \A i \in 1 .. n : Append(short, s)[i] = new[i]
        BY <1>2, <1>4, <1>6 DEF ToTheEnd
    <2>4. DOMAIN new = 1 .. n
        BY DEF ToTheEnd
    <2> HIDE DEF new
    <2>5. new \in Seq(1 .. n) /\ Len(new) = n
        BY <2>2, <2>4
    <2>6. QED BY <2>3, <2>5
<1> HIDE DEF new
<1>8. Append(short, s) = new
    <2> DEFINE long == Append(short, s)
    <2>1. long \in Seq(1 .. n) /\ Len(long) = Len(new) /\ \A i \in 1 .. Len(long) : long[i] = new[i]
        BY <1>6, <1>7
    <2> HIDE DEF long
    <2>2. long = new
        BY <1>7, <2>1, SeqEqual
    <2>3. QED BY <2>2 DEF long
<1>9. QED BY <1>2, <1>3, <1>8 DEF new, short

LEMMA LastKeeps ==
    ASSUME NEW n \in Nat, NEW order, IsOrder(n, order), NEW s \in 1 .. n
    PROVE  /\ IsOrder(n, MadeLast(order, s))
           /\ \A T : AreYoungest(n, order, T) => AreYoungest(n, MadeLast(order, s), T \union {s})
<1>1. PICK p \in 1 .. n : order[p] = s /\ MadeLast(order, s) = ToTheEnd(n, order, p)
    BY LastIs
<1> DEFINE new == MadeLast(order, s)
<1>2. \A i \in 1 .. n : new[i] = IF i < p THEN order[i] ELSE IF i < n THEN order[i + 1] ELSE s
    BY <1>1 DEF ToTheEnd
<1>3. new \in [1 .. n -> 1 .. n]
    <2>1. \A i \in 1 .. n : (IF i < p THEN order[i] ELSE IF i < n THEN order[i + 1] ELSE order[p]) \in 1 .. n
        <3> SUFFICES ASSUME NEW i \in 1 .. n
                     PROVE  (IF i < p THEN order[i] ELSE IF i < n THEN order[i + 1] ELSE order[p]) \in 1 .. n
            OBVIOUS
        <3>1. order[i] \in 1 .. n /\ order[p] \in 1 .. n /\ (i < n => i + 1 \in 1 .. n /\ order[i + 1] \in 1 .. n)
            <4>1. order \in [1 .. n -> 1 .. n]
                BY DEF IsOrder
            <4>2. QED BY <4>1
        <3>2. QED BY <3>1 DEF ToTheEnd
    <2>2. QED BY <1>1, <2>1 DEF ToTheEnd
<1> HIDE DEF new
<1>4. ASSUME NEW r \in 1 .. n PROVE \E i \in 1 .. n : new[i] = r
    <2>1. PICK i \in 1 .. n : order[i] = r
        BY DEF IsOrder
    <2>2. CASE i < p
        BY <1>2, <2>1, <2>2
    <2>3. CASE i = p
        BY <1>1, <1>2, <2>1, <2>3
    <2>4. CASE i > p
        <3>1. i - 1 \in 1 .. n /\ ~ (i - 1 < p) /\ i - 1 < n /\ i - 1 + 1 = i
            BY <2>4
        <3>2. QED BY <1>2, <2>1, <3>1
    <2>5. QED BY <2>2, <2>3, <2>4
<1>5. ASSUME NEW i \in 1 .. n, NEW j \in 1 .. n, new[i] = new[j] PROVE i = j
    <2>1. \A a, b \in 1 .. n : order[a] = order[b] => a = b
        BY DEF IsOrder
    <2>2. \A a \in 1 .. n - 1 : a + 1 \in 1 .. n
        OBVIOUS
    <2>3. new[i] = (IF i < p THEN order[i] ELSE IF i < n THEN order[i + 1] ELSE order[p])
        BY <1>1, <1>2
    <2>4. new[j] = (IF j < p THEN order[j] ELSE IF j < n THEN order[j + 1] ELSE order[p])
        BY <1>1, <1>2
    <2>6. PICK a \in 1 .. n : new[i] = order[a] /\ (IF i < p THEN a = i ELSE IF i < n THEN a = i + 1 ELSE a = p)
        BY <2>2, <2>3
    <2>7. PICK b \in 1 .. n : new[j] = order[b] /\ (IF j < p THEN b = j ELSE IF j < n THEN b = j + 1 ELSE b = p)
        BY <2>2, <2>4
    <2>8. a = b
        BY <1>5, <2>1, <2>6, <2>7
    <2>5. QED BY <2>6, <2>7, <2>8
<1>6. ASSUME NEW T, AreYoungest(n, order, T) PROVE AreYoungest(n, new, T \union {s})
    <2> SUFFICES ASSUME NEW i \in 1 .. n, NEW j \in 1 .. n, i < j, new[i] \in T \union {s}
                 PROVE  new[j] \in T \union {s}
        BY DEF AreYoungest
    <2>1. CASE j = n
        BY <1>1, <1>2, <2>1
    <2>2. CASE j < n
        <3>1. \A a, b \in 1 .. n : order[a] = order[b] => a = b
            BY DEF IsOrder
        <3>3. PICK a \in 1 .. n : new[i] = order[a] /\ (IF i < p THEN a = i ELSE a = i + 1)
            BY <1>2, <2>2
        <3>4. PICK b \in 1 .. n : new[j] = order[b] /\ (IF j < p THEN b = j ELSE b = j + 1)
            BY <1>2, <2>2
        <3>5. a < b /\ a # p
            BY <3>3, <3>4
        <3>2. new[i] \in T
            BY <1>1, <3>1, <3>3, <3>5
        <3>6. QED BY <1>6, <3>2, <3>3, <3>4, <3>5 DEF AreYoungest
    <2>3. QED BY <2>1, <2>2
<1>7. QED BY <1>3, <1>4, <1>5, <1>6 DEF IsOrder, new

(***************************************************************************)
(* After each use of a slot, whether the ages wrapped or not, the order is *)
(* one of all slots; unless they did, the slots of the call are with the   *)
(* new one its youngest.                                                   *)
(***************************************************************************)
LEMMA BumpKeeps ==
    ASSUME ExpertInv, NEW w \in BOOLEAN, NEW wraps \in BOOLEAN, NEW s \in Staged
    PROVE  LET order == Bump(After(w, FALSE), s, wraps)
           IN  /\ IsOrder(K, order)
               /\ ~w /\ ~wraps /\ ~pass.wrapped => AreYoungest(K, order, Taken \union {s})
<1> DEFINE before == After(w, FALSE)
<1>1. K \in Nat
    BY ExpertAssumption DEF ExpertInv, CacheType, ExpertAssumption
<1>2. IsOrder(K, InOrder)
    BY <1>1 DEF IsOrder, InOrder, Staged
<1>3. IsOrder(K, recent)
    BY DEF IsOrder, Staged, ExpertInv, CacheType, EveryAge, OneAge
<1>4. IsOrder(K, before) /\ (~w => before = recent)
    BY <1>2, <1>3 DEF After
<1>5. ~pass.wrapped => AreYoungest(K, recent, Taken)
    BY <1>1 DEF ExpertInv, Youngest, AreYoungest, Staged
<1>6. s \in 1 .. K
    BY DEF Staged
<1> HIDE DEF before
<1>7. /\ IsOrder(K, MadeLast(before, s))
      /\ \A T : AreYoungest(K, before, T) => AreYoungest(K, MadeLast(before, s), T \union {s})
    BY <1>1, <1>4, <1>6, LastKeeps
<1>8. IsOrder(K, Bump(before, s, wraps))
    BY <1>2, <1>7 DEF Bump
<1>9. ~w /\ ~wraps /\ ~pass.wrapped => AreYoungest(K, Bump(before, s, wraps), Taken \union {s})
    BY <1>4, <1>5, <1>7 DEF Bump
<1>10. QED BY <1>8, <1>9 DEF before

(***************************************************************************)
(* The slot that is given to an expert is one of the cache, and none that  *)
(* the call has found before, unless the ages wrapped in it.               *)
(***************************************************************************)
LEMMA OldestIsFree ==
    ASSUME ExpertInv, Selecting, Hit = {}, K > 0, NEW w1 \in BOOLEAN, NEW w2 \in BOOLEAN
    PROVE  /\ Oldest(After(w1, w2)) \in Staged
           /\ ~w1 /\ ~w2 /\ ~pass.wrapped => Oldest(After(w1, w2)) \notin Taken
<1> DEFINE empty == {s \in Staged : ids[s] = None}
           order == After(w1, w2)
           n == Len(pass.found)
<1>1. K \in Nat /\ 1 \in Staged
    BY ExpertAssumption DEF ExpertInv, CacheType, ExpertAssumption, Staged
<1>2. order \in [Staged -> Staged]
    BY DEF After, InOrder, ExpertInv, CacheType
<1>3. Head(order) = order[1]
    <2>1. order \in Seq(Staged) /\ Len(order) = K
        BY <1>1, <1>2 DEF Staged
    <2>2. QED BY <1>1, <2>1
<1>4. empty # {} => Min(empty) \in empty
    <2>1. empty \subseteq Nat
        BY <1>1 DEF Staged
    <2> HIDE DEF empty
    <2>2. QED BY <2>1, MinOfNats
<1>5. Oldest(order) = IF empty # {} THEN Min(empty) ELSE order[1]
    BY <1>3 DEF Oldest
<1>6. Oldest(order) \in Staged
    BY <1>1, <1>2, <1>4, <1>5
<1>7. ASSUME ~w1, ~w2, ~pass.wrapped PROVE Oldest(order) \notin Taken
    <2>1. \A s \in Taken : ids[s] \in Expert
        BY <1>7, K > 0 DEF Taken, ExpertInv, Placed, PassType, Selecting
    <2>2. CASE empty # {}
        BY <1>4, <1>5, <2>1, <2>2, ExpertAssumption DEF ExpertAssumption
    <2>3. CASE empty = {} /\ order[1] \notin Taken
        BY <1>5, <2>3
    <2>4. CASE empty = {} /\ order[1] \in Taken
        <3>1. order = recent
            BY <1>7 DEF After
        <3>2. \A s \in Staged : s \in Taken
            <4> SUFFICES ASSUME NEW s \in Staged PROVE s \in Taken
                OBVIOUS
            <4>1. PICK i \in Staged : recent[i] = s
                BY DEF ExpertInv, EveryAge
            <4>2. i = 1 \/ 1 < i
                BY <1>1 DEF Staged
            <4>3. QED BY <1>1, <1>7, <2>4, <3>1, <4>1, <4>2 DEF ExpertInv, Youngest
        <3>3. \A s \in Staged : ids[s] \in ToSet(pass.sel) \ {This}
            <4> SUFFICES ASSUME NEW s \in Staged PROVE ids[s] \in ToSet(pass.sel) \ {This}
                OBVIOUS
            <4>1. PICK i \in DOMAIN pass.found : pass.found[i] = s
                BY <3>2 DEF Taken
            <4>2. i \in DOMAIN pass.sel
                BY <4>1 DEF ExpertInv, PassType
            <4>3. ids[s] = pass.sel[i]
                BY <1>7, <4>1 DEF ExpertInv, Placed
            <4>4. ids[s] # This
                BY DEF Hit
            <4>5. QED BY <4>2, <4>3, <4>4 DEF ToSet
        <3>4. This \in ToSet(pass.sel)
            BY DEF This, ToSet, Selecting, ExpertInv, PassType
        <3>5. IsFiniteSet(ToSet(pass.sel)) /\ Cardinality(ToSet(pass.sel)) <= K
            <4>1. ToSet(pass.sel) \subseteq Expert
                BY DEF ToSet, ExpertInv, PassType
            <4>2. IsFiniteSet(ToSet(pass.sel))
                BY <4>1, ExpertAssumption, FS_Subset DEF ExpertAssumption
            <4>3. QED BY <4>2 DEF Fits, Selecting, ExpertInv
        <3> DEFINE Others == ToSet(pass.sel) \ {This}
        <3>6. IsFiniteSet(Others) /\ Cardinality(Others) = Cardinality(ToSet(pass.sel)) - 1
            BY <3>4, <3>5, FS_RemoveElement
        <3>7. ids \in Injection(Staged, Others)
            BY <3>3, ExpertAssumption DEF Injection, IsInjective, ExpertInv, CacheType, OneSlot, PassType, ToSet
        <3>8. Cardinality(Staged) = K
            BY <1>1, FS_Interval DEF Staged
        <3> HIDE DEF Others
        <3>9. Cardinality(Staged) <= Cardinality(Others)
            BY <3>6, <3>7, FS_Injection
        <3>10. Cardinality(ToSet(pass.sel)) \in Nat
            BY <3>5, FS_CardinalityType
        <3>11. QED BY <1>1, <3>5, <3>6, <3>8, <3>9, <3>10
    <2>5. QED BY <2>2, <2>3, <2>4
<1>8. QED BY <1>6, <1>7

(***************************************************************************)
(* A cache that was made anew, and a call that is over, satisfy the        *)
(* invariant.                                                              *)
(***************************************************************************)
CacheInv == CacheType /\ EveryAge /\ OneAge /\ OneSlot /\ Loaded
CallInv == PassType /\ Fits /\ NoCache /\ Placed /\ Youngest

LEMMA ExpertInvIs == ExpertInv <=> CacheInv /\ CallInv
BY DEF ExpertInv, CacheInv, CallInv

LEMMA NewCache ==
    ASSUME NEW k \in Ks, EmptyCache(k), devTab' \in [Expert -> Nat]
    PROVE  CacheInv' /\ K' = k
<1>1. k \in Nat
    BY ExpertAssumption DEF ExpertAssumption
<1>2. ids' = [s \in 1 .. k |-> None] /\ recent' = [s \in 1 .. k |-> s] /\ weights' = [s \in 1 .. k |-> None]
    BY DEF EmptyCache
<1>3. K' = k /\ Staged' = 1 .. k
    <2>1. ids' \in [1 .. k -> {None}]
        BY <1>2
    <2>2. ids' \in Seq({None}) /\ Len(ids') = k
        BY <1>1, <2>1
    <2>3. QED BY <2>2 DEF K, Staged
<1>4. CacheType'
    BY <1>1, <1>2, <1>3 DEF CacheType, ExpertOrNone
<1>5. EveryAge' /\ OneAge' /\ OneSlot'
    BY <1>1, <1>2, <1>3 DEF EveryAge, OneAge, OneSlot
<1>6. Loaded'
    BY <1>2, <1>3 DEF Loaded
<1>7. QED BY <1>3, <1>4, <1>5, <1>6 DEF CacheInv

LEMMA NoStageCall ==
    ASSUME pass' = NoStage
    PROVE  CallInv'
<1>1. /\ pass'.mode = "idle" /\ pass'.sel = <<>> /\ pass'.found = <<>> /\ pass'.wrapped = FALSE
      /\ pass' = [mode |-> pass'.mode, sel |-> pass'.sel, found |-> pass'.found, wrapped |-> pass'.wrapped]
    BY DEF NoStage
<1>2. <<>> \in Seq(Expert) /\ <<>> \in Seq(Nat) /\ Len(<<>>) = 0 /\ DOMAIN <<>> = {}
    OBVIOUS
<1>3. PassType'
    <2>1. pass'.mode \in {"idle", "token", "chunk"} /\ (pass'.mode = "idle" => pass' = NoStage)
        BY <1>1
    <2>2. pass'.sel \in Seq(Expert) /\ pass'.found \in Seq(Nat) /\ pass'.wrapped \in BOOLEAN
        BY <1>1, <1>2
    <2>3. Len(pass'.found) <= Len(pass'.sel)
        BY <1>1, <1>2
    <2>4. QED BY <1>1, <2>1, <2>2, <2>3 DEF PassType
<1>4. Taken' = {}
    BY <1>1, <1>2 DEF Taken
<1>5. Fits' /\ NoCache' /\ Placed' /\ Youngest'
    BY <1>1, <1>2, <1>4 DEF Fits, NoCache, Placed, Youngest
<1>6. QED BY <1>3, <1>5 DEF CallInv

(***************************************************************************)
(* A call that begins has found nothing yet and needs no more experts than *)
(* there are slots: of a token, because the cache has room for one; of a   *)
(* chunk, because they were counted.                                       *)
(***************************************************************************)
LEMMA CallBegins ==
    ASSUME ExpertInv, NEW mode \in {"token", "chunk"}, NEW sel \in Seq(Expert),
           pass' = [NoStage EXCEPT !.mode = mode, !.sel = sel], ids' = ids, recent' = recent,
           K > 0 => Cardinality(ToSet(sel)) <= K, mode = "chunk" => K > 0
    PROVE  CallInv'
<1>1. /\ pass'.mode = mode /\ pass'.sel = sel /\ pass'.found = <<>> /\ pass'.wrapped = FALSE
      /\ pass' = [mode |-> pass'.mode, sel |-> pass'.sel, found |-> pass'.found, wrapped |-> pass'.wrapped]
    BY DEF NoStage
<1>2. <<>> \in Seq(Nat) /\ Len(<<>>) = 0 /\ DOMAIN <<>> = {}
    OBVIOUS
<1>3. PassType'
    <2>1. pass'.mode \in {"idle", "token", "chunk"} /\ (pass'.mode = "idle" => pass' = NoStage)
        BY <1>1
    <2>2. pass'.sel \in Seq(Expert) /\ pass'.found \in Seq(Nat) /\ pass'.wrapped \in BOOLEAN
        BY <1>1, <1>2
    <2>3. Len(pass'.found) <= Len(pass'.sel)
        BY <1>1, <1>2
    <2>4. QED BY <1>1, <2>1, <2>2, <2>3 DEF PassType
<1>4. K' = K /\ Taken' = {}
    BY <1>1, <1>2 DEF Taken, K
<1>5. Fits' /\ NoCache' /\ Placed' /\ Youngest'
    <2>1. K \in Nat
        BY ExpertAssumption DEF ExpertAssumption, ExpertInv, CacheType
    <2>2. QED BY <1>1, <1>2, <1>4, <2>1 DEF Fits, NoCache, Placed, Youngest
<1>6. QED BY <1>3, <1>5 DEF CallInv

(***************************************************************************)
(* A slot that is found is one of the call from now on.                    *)
(***************************************************************************)
LEMMA CallGoesOn ==
    ASSUME ExpertInv, Selecting, NEW s \in Nat, NEW wraps \in BOOLEAN, Found(s, wraps), K' = K,
           K = 0 => s = 0,
           K > 0 => s \in Staged,
           K > 0 /\ ~pass.wrapped /\ ~wraps =>
               /\ ids'[s] = This
               /\ \A t \in Taken : ids'[t] = ids[t]
               /\ AreYoungest(K, recent', Taken \union {s})
    PROVE  CallInv'
<1> DEFINE n == Len(pass.found)
<1>1. /\ pass'.mode = pass.mode /\ pass'.sel = pass.sel
      /\ pass'.found = Append(pass.found, s) /\ pass'.wrapped = (pass.wrapped \/ wraps)
      /\ pass' = [mode |-> pass'.mode, sel |-> pass'.sel, found |-> pass'.found, wrapped |-> pass'.wrapped]
    BY DEF Found, ExpertInv, PassType
<1>2. /\ n \in Nat /\ n < Len(pass.sel) /\ pass.mode # "idle" /\ pass.found \in Seq(Nat)
      /\ DOMAIN pass.found = 1 .. n
    BY DEF Selecting, ExpertInv, PassType
<1>3. /\ Append(pass.found, s) \in Seq(Nat) /\ Len(Append(pass.found, s)) = n + 1
      /\ DOMAIN Append(pass.found, s) = 1 .. n + 1
      /\ \A i \in 1 .. n + 1 : Append(pass.found, s)[i] = IF i = n + 1 THEN s ELSE pass.found[i]
    BY <1>2
<1>4. PassType'
    <2>1. Len(pass.sel) \in Nat /\ pass.sel \in Seq(Expert) /\ pass.wrapped \in BOOLEAN
          /\ pass.mode \in {"idle", "token", "chunk"}
        BY DEF ExpertInv, PassType
    <2>2. (pass.wrapped \/ wraps) \in BOOLEAN
        OBVIOUS
    <2>3. QED BY <1>1, <1>2, <1>3, <2>1, <2>2 DEF PassType
<1> HIDE DEF n
<1>5. Taken' = Taken \union {s}
    <2> DEFINE longer == Append(pass.found, s)
    <2>1. Taken' = {longer[i] : i \in DOMAIN longer}
        BY <1>1 DEF Taken
    <2>2. /\ DOMAIN longer = 1 .. n + 1
          /\ \A i \in 1 .. n : longer[i] = pass.found[i] /\ longer[n + 1] = s
        BY <1>2, <1>3
    <2>3. longer[n + 1] = s
        BY <1>2, <1>3
    <2>4. 1 .. n + 1 = (1 .. n) \union {n + 1}
        BY <1>2
    <2> HIDE DEF longer
    <2>5. ASSUME NEW r \in Taken' PROVE r \in Taken \union {s}
        BY <1>2, <2>1, <2>2, <2>3, <2>4 DEF Taken
    <2>6. ASSUME NEW r \in Taken PROVE r \in Taken'
        <3>1. PICK i \in 1 .. n : pass.found[i] = r
            BY <1>2 DEF Taken
        <3>2. QED BY <1>2, <2>1, <2>2, <3>1
    <2>7. s \in Taken'
        BY <1>2, <2>1, <2>2, <2>3
    <2>8. QED BY <2>5, <2>6, <2>7
<1>6. Fits'
    BY <1>1, <1>2 DEF Fits, ExpertInv
<1>7. NoCache'
    BY <1>1, <1>2, <1>3 DEF NoCache, ExpertInv
<1>8. Placed'
    <2> SUFFICES ASSUME K > 0, NEW i \in 1 .. n + 1
                 PROVE  /\ pass'.found[i] \in Staged
                        /\ ~pass'.wrapped => ids'[pass'.found[i]] = pass'.sel[i]
        BY <1>1, <1>3 DEF Placed, Staged
    <2>1. CASE i = n + 1
        BY <1>1, <1>3, <2>1 DEF This, n
    <2>2. CASE i # n + 1
        <3>1. i \in DOMAIN pass.found /\ pass'.found[i] = pass.found[i]
            BY <1>1, <1>2, <1>3, <2>2
        <3>2. pass.found[i] \in Taken
            BY <3>1 DEF Taken
        <3>3. QED BY <1>1, <3>1, <3>2 DEF ExpertInv, Placed
    <2>3. QED BY <2>1, <2>2
<1>9. Youngest'
    BY <1>1, <1>5 DEF Youngest, AreYoungest, Staged
<1>10. QED BY <1>4, <1>6, <1>7, <1>8, <1>9 DEF CallInv

(***************************************************************************)
(* An expert that has no slot is registered for one: it is still the only  *)
(* one of that slot, and the slot its only one.                            *)
(***************************************************************************)
LEMMA Registering ==
    ASSUME ExpertInv, Selecting, Hit = {}, K > 0, NEW w1 \in BOOLEAN, NEW w2 \in BOOLEAN,
           NEW s \in Staged, Register(s, After(w1, FALSE), w2),
           devTab' \in [Expert -> Nat], weights' \in [Staged -> ExpertOrNone], Loaded'
    PROVE  K' = K /\ CacheInv'
<1>1. K \in Nat /\ This \in Expert /\ This # None
    BY ExpertAssumption DEF ExpertAssumption, ExpertInv, CacheType, This, Selecting, PassType
<1>2. ids' = [ids EXCEPT ![s] = This]
    BY DEF Register
<1>3. ids' \in [Staged -> ExpertOrNone]
    BY <1>1, <1>2 DEF ExpertInv, CacheType, ExpertOrNone
<1>4. K' = K
    <2>1. ids' \in Seq(ExpertOrNone) /\ Len(ids') = K
        BY <1>1, <1>3 DEF Staged
    <2>2. QED BY <2>1 DEF K
<1>5. Staged' = Staged
    BY <1>4 DEF Staged
<1>6. IsOrder(K, recent')
    BY BumpKeeps DEF Register
<1>7. CacheType'
    BY <1>3, <1>4, <1>5, <1>6 DEF CacheType, IsOrder, Staged, ExpertInv
<1>8. EveryAge' /\ OneAge'
    BY <1>4, <1>5, <1>6 DEF EveryAge, OneAge, IsOrder, Staged
<1>9. OneSlot'
    <2>1. \A t \in Staged : ids[t] # This
        BY DEF Hit
    <2>2. QED BY <1>2, <1>5, <2>1 DEF OneSlot, ExpertInv, CacheType
<1>10. QED BY <1>4, <1>7, <1>8, <1>9 DEF CacheInv

(***************************************************************************)
(* Each cache has room for the experts of a token, or there is none.  It   *)
(* is not so by itself: ensure_moe_bufs takes as many slots as there is    *)
(* memory for (run expert_small).                                          *)
(***************************************************************************)
Roomy == \A k \in Ks : k = 0 \/ k >= TopK

LEMMA ExpertStarts == Roomy /\ ExpertInit => ExpertInv
<1> SUFFICES ASSUME Roomy, ExpertInit PROVE ExpertInv
    OBVIOUS
<1>1. PICK k \in Ks : /\ ids = [s \in 1 .. k |-> None] /\ recent = [s \in 1 .. k |-> s]
                      /\ weights = [s \in 1 .. k |-> None]
    BY DEF ExpertInit
<1>2. k \in Nat
    BY ExpertAssumption DEF ExpertAssumption
<1>3. K = k /\ Staged = 1 .. k
    <2>1. ids \in [1 .. k -> {None}]
        BY <1>1
    <2>2. ids \in Seq({None}) /\ Len(ids) = k
        BY <1>2, <2>1
    <2>3. QED BY <2>2 DEF K, Staged
<1>4. CacheType
    BY <1>1, <1>2, <1>3 DEF CacheType, ExpertOrNone, ExpertInit
<1>5. EveryAge /\ OneAge /\ OneSlot /\ Loaded
    BY <1>1, <1>2, <1>3 DEF EveryAge, OneAge, OneSlot, Loaded
<1>6. /\ pass.mode = "idle" /\ pass.sel = <<>> /\ pass.found = <<>> /\ pass.wrapped = FALSE
      /\ pass = [mode |-> pass.mode, sel |-> pass.sel, found |-> pass.found, wrapped |-> pass.wrapped]
      /\ pass = NoStage
    BY DEF NoStage, ExpertInit
<1>7. <<>> \in Seq(Expert) /\ <<>> \in Seq(Nat) /\ Len(<<>>) = 0 /\ DOMAIN <<>> = {}
    OBVIOUS
<1>8. PassType
    <2>1. pass.sel \in Seq(Expert) /\ pass.found \in Seq(Nat) /\ pass.wrapped \in BOOLEAN
        BY <1>6, <1>7
    <2>2. Len(pass.found) <= Len(pass.sel)
        BY <1>6, <1>7
    <2>3. QED BY <1>6, <2>1, <2>2 DEF PassType
<1>9. Taken = {}
    BY <1>6, <1>7 DEF Taken
<1>10. Fits /\ NoCache /\ Placed /\ Youngest
    BY <1>6, <1>7, <1>9 DEF Fits, NoCache, Placed, Youngest
<1>11. QED BY <1>4, <1>5, <1>8, <1>10 DEF ExpertInv

LEMMA ExpertSteps == Roomy /\ ExpertInv /\ [ExpertNext]_expertVars => ExpertInv'
<1> SUFFICES ASSUME Roomy, ExpertInv, [ExpertNext]_expertVars PROVE ExpertInv'
    OBVIOUS
<1>0. /\ K \in Nat /\ K \in Ks /\ devTab \in [Expert -> Nat] /\ CacheInv
      /\ weights \in [Staged -> ExpertOrNone] /\ ids \in [Staged -> ExpertOrNone]
    BY ExpertInvIs, ExpertAssumption DEF ExpertAssumption, CacheInv, CacheType
<1>a. ASSUME ids' = ids, recent' = recent, weights' = weights, devTab' = devTab, torn' = torn
      PROVE  CacheInv' /\ K' = K /\ Staged' = Staged
    BY <1>0, <1>a DEF CacheInv, CacheType, EveryAge, OneAge, OneSlot, Loaded, K, Staged
<1>1. ASSUME NEW k \in Ks, Retune(k) PROVE ExpertInv'
    <2>1. CacheInv'
        BY <1>0, <1>1, NewCache DEF Retune
    <2>2. pass' = NoStage
        BY <1>1 DEF Retune, ExpertInv, PassType
    <2>3. QED BY <2>1, <2>2, NoStageCall DEF ExpertInv, CacheInv, CallInv
<1>2. ASSUME NEW sel \in Distinct, TokenStep(sel) PROVE ExpertInv'
    <2>1. PICK m \in 0 .. TopK : sel \in [1 .. m -> Expert]
        BY ExpertAssumption DEF ExpertAssumption, Distinct, BoundedSeq, SeqOf
    <2>2. m \in Nat /\ m <= TopK /\ sel \in Seq(Expert) /\ DOMAIN sel = 1 .. m
        BY <2>1, ExpertAssumption DEF ExpertAssumption
    <2>3. sel \in Surjection(1 .. m, ToSet(sel))
        BY <2>1, <2>2 DEF Surjection, ToSet
    <2>4. Cardinality(ToSet(sel)) <= m
        BY <2>2, <2>3, FS_SurjCardinalityBound DEF ExistsSurjection
    <2>5. ToSet(sel) \subseteq Expert
        BY <2>1, <2>2 DEF ToSet
    <2>6. Cardinality(ToSet(sel)) \in Nat
        BY <2>5, ExpertAssumption, FS_Subset, FS_CardinalityType DEF ExpertAssumption
    <2>7. K > 0 => Cardinality(ToSet(sel)) <= K
        BY <1>0, <2>2, <2>4, <2>6, ExpertAssumption DEF ExpertAssumption, Roomy
    <2>8. CallInv'
        BY <1>2, <2>2, <2>7, CallBegins DEF TokenStep
    <2>9. QED BY <1>2, <1>a, <2>8 DEF TokenStep, ExpertInv, CacheInv, CallInv
<1>3. ASSUME NEW sel \in ChunkSelections, Chunk(sel) PROVE ExpertInv'
    <2>1. sel \in Seq(Expert)
        BY ExpertAssumption DEF ExpertAssumption, ChunkSelections, BoundedSeq, SeqOf
    <2>2. CallInv'
        BY <1>3, <2>1, CallBegins DEF Chunk
    <2>3. QED BY <1>3, <1>a, <2>2 DEF Chunk, ExpertInv, CacheInv, CallInv
<1>4. ASSUME NEW w1 \in BOOLEAN, Lookup(w1) PROVE ExpertInv'
    <2>1. PICK s \in Hit : recent' = Bump(recent, s, w1) /\ Found(s, w1)
        BY <1>4 DEF Lookup
    <2>2. Selecting /\ s \in Staged /\ s \in Nat /\ K > 0 /\ ids[s] = This
        BY <1>0, <1>4, <2>1 DEF Lookup, Hit, Staged
    <2>3. After(FALSE, FALSE) = recent
        BY DEF After
    <2>4. /\ IsOrder(K, recent')
          /\ ~w1 /\ ~pass.wrapped => AreYoungest(K, recent', Taken \union {s})
        BY <2>1, <2>2, <2>3, BumpKeeps
    <2>5. K' = K /\ Staged' = Staged /\ ids' = ids /\ weights' = weights /\ devTab' = devTab /\ torn' = torn
        BY <1>4 DEF Lookup, K, Staged
    <2>6. CacheInv'
        <3>1. EveryAge' /\ OneAge' /\ recent' \in [Staged -> Staged]
            BY <2>4, <2>5 DEF IsOrder, EveryAge, OneAge, Staged
        <3>2. QED BY <1>0, <2>5, <3>1 DEF CacheInv, CacheType, OneSlot, Loaded
    <2>7. CallInv'
        BY <1>0, <2>1, <2>2, <2>4, <2>5, CallGoesOn
    <2>8. QED BY <2>6, <2>7 DEF ExpertInv, CacheInv, CallInv
<1>5. ASSUME NEW w1 \in BOOLEAN, NEW w2 \in BOOLEAN, Insert(w1, w2) PROVE ExpertInv'
    <2> DEFINE s == Oldest(After(w1, w2))
    <2>1. Selecting /\ Hit = {} /\ K > 0
        BY <1>5 DEF Insert
    <2>2. s \in Staged /\ (~w1 /\ ~w2 /\ ~pass.wrapped => s \notin Taken)
        BY <2>1, OldestIsFree
    <2>3. This \in Expert /\ s \in Nat
        BY <1>0, <2>1, <2>2 DEF This, Selecting, ExpertInv, PassType, Staged
    <2>4. /\ Register(s, After(w1, FALSE), w2) /\ Found(s, w1 \/ w2)
          /\ devTab' = [devTab EXCEPT ![This] = s] /\ weights' = [weights EXCEPT ![s] = This]
          /\ torn' = torn \ {This} /\ ids' = [ids EXCEPT ![s] = This]
        BY <1>5 DEF Insert, Register
    <2> HIDE DEF s
    <2>5. \A t \in Staged : ids[t] # This
        BY <2>1 DEF Hit
    <2>6. Staged' = Staged
        <3>1. ids' \in [Staged -> Expert \union {None}]
            BY <1>0, <2>3, <2>4 DEF ExpertOrNone
        <3>2. ids' \in Seq(Expert \union {None}) /\ Len(ids') = K
            BY <1>0, <3>1 DEF Staged
        <3>3. QED BY <3>2 DEF Staged, K
    <2>7. Loaded'
        <3> SUFFICES ASSUME NEW t \in Staged, ids'[t] \notin torn' \union {None}
                     PROVE  weights'[t] = ids'[t] /\ devTab'[ids'[t]] = t
            BY <2>6 DEF Loaded
        <3>1. CASE t = s
            BY <1>0, <2>2, <2>3, <2>4, <3>1
        <3>2. CASE t # s
            <4>1. ids'[t] = ids[t] /\ weights'[t] = weights[t] /\ ids[t] # This
                BY <1>0, <2>4, <2>5, <3>2
            <4>2. ids[t] \notin torn \union {None} /\ ids[t] \in Expert
                BY <1>0, <2>4, <4>1 DEF ExpertOrNone
            <4>3. weights[t] = ids[t] /\ devTab[ids[t]] = t
                BY <1>0, <4>2 DEF CacheInv, Loaded
            <4>4. QED BY <1>0, <2>3, <2>4, <4>1, <4>2, <4>3
        <3>3. QED BY <3>1, <3>2
    <2>8. devTab' \in [Expert -> Nat] /\ weights' \in [Staged -> ExpertOrNone]
        BY <1>0, <2>3, <2>4 DEF ExpertOrNone
    <2>9. K' = K /\ CacheInv'
        BY <2>1, <2>2, <2>4, <2>7, <2>8, Registering
    <2>10. CallInv'
        <3>1. ~w1 /\ ~w2 /\ ~pass.wrapped => AreYoungest(K, recent', Taken \union {s})
            BY <2>2, <2>4, BumpKeeps DEF Register
        <3>2. ids'[s] = This
            BY <1>0, <2>2, <2>4
        <3>3. ~w1 /\ ~w2 /\ ~pass.wrapped => \A t \in Taken : ids'[t] = ids[t]
            BY <1>0, <2>2, <2>4
        <3>4. (w1 \/ w2) \in BOOLEAN /\ (~(w1 \/ w2) => ~w1 /\ ~w2)
            OBVIOUS
        <3>5. QED BY <2>1, <2>2, <2>3, <2>4, <2>9, <3>1, <3>2, <3>3, <3>4, CallGoesOn
    <2>11. QED BY <2>9, <2>10 DEF ExpertInv, CacheInv, CallInv
<1>6. ASSUME NEW w1 \in BOOLEAN, NEW w2 \in BOOLEAN, InsertErr(w1, w2) PROVE ExpertInv'
    <2> DEFINE s == Oldest(After(w1, w2))
    <2>1. Selecting /\ Hit = {} /\ K > 0
        BY <1>6 DEF InsertErr
    <2>2. s \in Staged
        BY <2>1, OldestIsFree
    <2>3. This \in Expert /\ s \in Nat
        BY <1>0, <2>1, <2>2 DEF This, Selecting, ExpertInv, PassType, Staged
    <2>4. /\ Register(s, After(w1, FALSE), w2) /\ pass' = NoStage
          /\ torn' = torn \union {This} /\ ids' = [ids EXCEPT ![s] = This]
          /\ \/ devTab' = devTab /\ weights' = weights
             \/ devTab' = [devTab EXCEPT ![This] = s] /\ weights' = [weights EXCEPT ![s] = None]
        BY <1>6 DEF InsertErr, Register
    <2> HIDE DEF s
    <2>5. \A t \in Staged : ids[t] # This
        BY <2>1 DEF Hit
    <2>6. Staged' = Staged
        <3>1. ids' \in [Staged -> Expert \union {None}]
            BY <1>0, <2>3, <2>4 DEF ExpertOrNone
        <3>2. ids' \in Seq(Expert \union {None}) /\ Len(ids') = K
            BY <1>0, <3>1 DEF Staged
        <3>3. QED BY <3>2 DEF Staged, K
    <2>7. Loaded'
        <3> SUFFICES ASSUME NEW t \in Staged, ids'[t] \notin torn' \union {None}
                     PROVE  weights'[t] = ids'[t] /\ devTab'[ids'[t]] = t
            BY <2>6 DEF Loaded
        <3>1. t # s
            BY <1>0, <2>2, <2>4
        <3>2. ids'[t] = ids[t] /\ weights'[t] = weights[t] /\ ids[t] # This
            BY <1>0, <2>4, <2>5, <3>1
        <3>3. ids[t] \notin torn \union {None} /\ ids[t] \in Expert
            BY <1>0, <2>4, <3>2 DEF ExpertOrNone
        <3>4. weights[t] = ids[t] /\ devTab[ids[t]] = t
            BY <1>0, <3>3 DEF CacheInv, Loaded
        <3>5. QED BY <1>0, <2>3, <2>4, <3>2, <3>3, <3>4
    <2>8. devTab' \in [Expert -> Nat] /\ weights' \in [Staged -> ExpertOrNone]
        BY <1>0, <2>3, <2>4 DEF ExpertOrNone
    <2>9. K' = K /\ CacheInv'
        BY <2>1, <2>2, <2>4, <2>7, <2>8, Registering
    <2>10. QED BY <2>4, <2>9, NoStageCall DEF ExpertInv, CacheInv, CallInv
<1>7. CASE Stage
    <2>3. Selecting /\ Found(0, FALSE) /\ K' = K /\ K = 0 /\ 0 \in Nat /\ FALSE \in BOOLEAN
        BY <1>7 DEF Stage, K
    <2>4. ~(K > 0)
        BY <2>3
    <2>1. CallInv'
        BY <2>3, <2>4, CallGoesOn, Zenon
    <2>2. QED BY <1>7, <1>a, <2>1 DEF Stage, ExpertInv, CacheInv, CallInv
<1>8. CASE StageErr
    BY <1>8, <1>a, NoStageCall DEF StageErr, ExpertInv, CacheInv, CallInv
<1>9. CASE Launch
    BY <1>9, <1>a, NoStageCall DEF Launch, ExpertInv, CacheInv, CallInv
<1>10. CASE UNCHANGED expertVars
    <2>1. pass' = pass /\ ids' = ids /\ recent' = recent /\ CacheInv' /\ K' = K /\ Staged' = Staged
        BY <1>10, <1>a DEF expertVars
    <2>2. CallInv
        BY ExpertInvIs
    <2>3. CallInv'
        BY <2>1, <2>2 DEF CallInv, PassType, Fits, NoCache, Placed, Youngest, Taken
    <2>4. QED BY <2>1, <2>3 DEF ExpertInv, CacheInv, CallInv
<1>11. QED BY <1>1, <1>2, <1>3, <1>4, <1>5, <1>6, <1>7, <1>8, <1>9, <1>10 DEF ExpertNext, Staging

(***************************************************************************)
(* With room for the experts of a token, each expert a pass computes is    *)
(* computed with its own weights, whatever was evicted before and in       *)
(* whatever order the experts come: for any number of experts, slots and   *)
(* tokens of a chunk, and any copies that fail.                            *)
(***************************************************************************)
THEOREM ExpertsHaveTheirOwn ==
    ASSUME Roomy
    PROVE  ExpertSpec => []ExpertsOwn
<1>1. ExpertInit => ExpertInv
    BY ExpertStarts
<1>2. ExpertInv /\ [ExpertNext]_expertVars => ExpertInv'
    BY ExpertSteps
<1>3. ExpertInv => ExpertsOwn
    <2> SUFFICES ASSUME ExpertInv, Launching, ~pass.wrapped, NEW i \in DOMAIN pass.sel,
                        pass.sel[i] \notin torn
                 PROVE  ReadsOwn(i)
        BY DEF ExpertsOwn
    <2>1. pass.mode \in {"token", "chunk"} /\ i \in DOMAIN pass.found /\ pass.sel[i] \in Expert
        BY DEF Launching, Selecting, ExpertInv, PassType
    <2>2. K \in Nat /\ (K = 0 \/ K > 0)
        BY ExpertAssumption DEF ExpertAssumption, ExpertInv, CacheType
    <2>3. CASE K = 0
        BY <2>1, <2>3 DEF ReadsOwn, ExpertInv, NoCache
    <2>4. CASE K > 0
        <3>1. pass.found[i] \in Staged /\ ids[pass.found[i]] = pass.sel[i]
            BY <2>1, <2>4 DEF ExpertInv, Placed
        <3>2. pass.sel[i] # None
            BY <2>1, ExpertAssumption DEF ExpertAssumption
        <3>3. weights[pass.found[i]] = pass.sel[i] /\ devTab[pass.sel[i]] = pass.found[i]
            BY <3>1, <3>2 DEF ExpertInv, Loaded
        <3>4. QED BY <3>1, <3>3 DEF ReadsOwn
    <2>5. QED BY <2>2, <2>3, <2>4
<1>4. QED BY <1>1, <1>2, <1>3, PTL DEF ExpertSpec

-----------------------------------------------------------------------------
(***************************************************************************)
(* KvTable.  For every number of slots, layers and blocks: the pool keeps  *)
(* its types, conserves its blocks, counts what each slot holds, and       *)
(* implements the block ledger.  And whichever copies to the device fail:  *)
(* the calls of the decoder use the pool as KvPool says, so that all of    *)
(* this holds of them, and the table of the device agrees with the pool    *)
(* wherever a pass goes through it.                                        *)
(***************************************************************************)
LEMMA EntryFinite == IsFiniteSet(Entry)
<1>1. 0 \in Int /\ MbMax - 1 \in Int
    BY PoolAssumption
<1>2. IsFiniteSet(0 .. MbMax - 1)
    BY <1>1, FS_Interval
<1> QED
    BY <1>2, PoolAssumption, FS_Product DEF Entry

LEMMA NoBlockNotBlock == NoBlock \notin Block
BY PoolAssumption DEF NoBlock, Block

\* What a release returns of one block, when entries do not share blocks:
\* one copy if the block is mapped in E, none otherwise.
LEMMA ReturnsOnce ==
    ASSUME PoolTypeOK, OnePlace, NEW s \in Slot, NEW E \in SUBSET Entry, NEW b \in Block
    PROVE  Returns(s, E, b) = IF \E e \in E : slotMap[s][e] = b THEN 1 ELSE 0
<1> DEFINE R == {e \in E : slotMap[s][e] = b}
<1>1. CASE \E e \in E : slotMap[s][e] = b
    <2>1. PICK e \in E : slotMap[s][e] = b
        BY <1>1
    <2>2. R = {e}
        BY <2>1, NoBlockNotBlock DEF OnePlace
    <2>3. Cardinality(R) = 1
        BY <2>2, FS_Singleton
    <2> QED
        BY <1>1, <2>3 DEF Returns
<1>2. CASE ~ \E e \in E : slotMap[s][e] = b
    <2>1. R = {}
        BY <1>2
    <2>2. Cardinality(R) = 0
        BY <2>1, FS_EmptySet
    <2> QED
        BY <1>2, <2>2 DEF Returns
<1> QED
    BY <1>1, <1>2

-----------------------------------------------------------------------------
(***************************************************************************)
(* Type correctness.                                                       *)
(***************************************************************************)
\* The number of entries a release returns is a natural number.
LEMMA ReturnsType ==
    ASSUME NEW s \in Slot, NEW E \in SUBSET Entry, NEW b \in Block
    PROVE  Returns(s, E, b) \in Nat
<1>1. IsFiniteSet({e \in E : slotMap[s][e] = b})
    BY EntryFinite, FS_Subset
<1> QED
    BY <1>1, FS_CardinalityType DEF Returns

LEMMA PushFreeType ==
    ASSUME PoolTypeOK, NEW s \in Slot, NEW E \in SUBSET Entry, PushFree(s, E)
    PROVE  freeVram' \in [Block -> Nat] /\ freeHost' \in [Block -> Nat]
BY ReturnsType DEF PushFree, PoolTypeOK

LEMMA TypeStep == PoolTypeOK /\ [PoolNext]_poolVars => PoolTypeOK'
<1> SUFFICES ASSUME PoolTypeOK, [PoolNext]_poolVars
             PROVE  PoolTypeOK'
    OBVIOUS
<1>1. ASSUME NEW s \in Slot, NEW e \in Entry, Ensure(s, e)
      PROVE  PoolTypeOK'
    <2>1. PICK b \in Block : Pop(b) /\ slotMap' = [slotMap EXCEPT ![s][e] = b]
        BY <1>1 DEF Ensure
    <2>2. freeVram' \in [Block -> Nat] /\ freeHost' \in [Block -> Nat]
        BY <2>1 DEF Pop, PoolTypeOK
    <2>3. slotMap' \in [Slot -> [Entry -> Block \union {NoBlock}]]
        BY <2>1 DEF PoolTypeOK
    <2>4. used' \in [Slot -> Nat]
        BY <1>1 DEF Ensure, PoolTypeOK
    <2> QED
        BY <2>2, <2>3, <2>4 DEF PoolTypeOK
<1>2. ASSUME NEW s \in Slot, Release(s)
      PROVE  PoolTypeOK'
    <2>1. freeVram' \in [Block -> Nat] /\ freeHost' \in [Block -> Nat]
        BY <1>2, PushFreeType DEF Release, Mapped
    <2> QED
        BY <1>2, <2>1 DEF Release, PoolTypeOK
<1>3. ASSUME NEW s \in Slot, NEW floorBi \in 1 .. MbMax, ReleaseBelow(s, floorBi)
      PROVE  PoolTypeOK'
    <2> DEFINE E == Below(s, floorBi)
    <2>1. E \in SUBSET Entry
        BY DEF Below, Mapped
    <2>2. freeVram' \in [Block -> Nat] /\ freeHost' \in [Block -> Nat]
        BY <1>3, <2>1, PushFreeType DEF ReleaseBelow
    <2>3. Cardinality(E) \in Nat
        BY <2>1, EntryFinite, FS_Subset, FS_CardinalityType
    <2>4. used' \in [Slot -> Nat]
        BY <1>3, <2>3 DEF ReleaseBelow, PoolTypeOK
    <2>5. slotMap' \in [Slot -> [Entry -> Block \union {NoBlock}]]
        BY <1>3 DEF ReleaseBelow, PoolTypeOK
    <2> QED
        BY <2>2, <2>4, <2>5 DEF PoolTypeOK
<1>4. CASE UNCHANGED poolVars
    BY <1>4 DEF poolVars, PoolTypeOK
<1> QED
    BY <1>1, <1>2, <1>3, <1>4 DEF PoolNext

\* The pool's variables keep their types under ensure, release and
\* release_below, for every pool size: no stack count goes below zero.
THEOREM PoolTypeCorrect == PoolSpec => []PoolTypeOK
<1>1. PoolInit => PoolTypeOK
    BY DEF PoolInit, PoolTypeOK
<1> QED
    BY <1>1, TypeStep, PTL DEF PoolSpec

-----------------------------------------------------------------------------
(***************************************************************************)
(* Conservation. EachOnce is inductive given the types: a popped    *)
(* block was in a stack, so nothing maps it; what a release pushes was     *)
(* mapped once, so it was in no stack.                                     *)
(***************************************************************************)
\* Releasing the entries E of s pushes a block exactly when E maps it.
LEMMA ReleaseConserves ==
    ASSUME PoolTypeOK, EachOnce, NEW s \in Slot, NEW E \in SUBSET Mapped(s),
           PushFree(s, E),
           slotMap' = [slotMap EXCEPT ![s] =
                          [e \in Entry |-> IF e \in E THEN NoBlock ELSE slotMap[s][e]]]
    PROVE  EachOnce'
<1> E \in SUBSET Entry
    BY DEF Mapped
<1>1. HomeTier'
    BY ReturnsType DEF EachOnce, HomeTier, PushFree, PoolTypeOK
<1>2. OnePlace'
    BY DEF EachOnce, OnePlace, PoolTypeOK
<1>3. ASSUME NEW b \in Block
      PROVE  freeVram'[b] + freeHost'[b] = IF Places(b)' = {} THEN 1 ELSE 0
    <2>1. freeVram'[b] + freeHost'[b] = freeVram[b] + freeHost[b] + Returns(s, E, b)
        BY ReturnsType DEF PushFree, PoolTypeOK
    <2>2. CASE \E e \in E : slotMap[s][e] = b
        <3>1. PICK e \in E : slotMap[s][e] = b
            BY <2>2
        <3>2. <<s, e>> \in Places(b)
            BY <3>1 DEF Places
        <3>3. freeVram[b] + freeHost[b] = 0
            BY <3>2 DEF EachOnce, FreeOrMapped
        <3>4. Returns(s, E, b) = 1
            BY <2>2, ReturnsOnce DEF EachOnce
        <3>5. \A t \in Slot, f \in Entry : slotMap'[t][f] # b
            BY <3>1, NoBlockNotBlock DEF EachOnce, OnePlace, PoolTypeOK
        <3>6. Places(b)' = {}
            BY <3>5 DEF Places
        <3> QED
            BY <2>1, <3>3, <3>4, <3>6
    <2>3. CASE ~ \E e \in E : slotMap[s][e] = b
        <3>1. Returns(s, E, b) = 0
            BY <2>3, ReturnsOnce DEF EachOnce
        <3>2. \A t \in Slot, f \in Entry : slotMap'[t][f] = b <=> slotMap[t][f] = b
            BY <2>3, NoBlockNotBlock DEF PoolTypeOK
        <3>3. Places(b)' = Places(b)
            BY <3>2 DEF Places
        <3>4. freeVram[b] + freeHost[b] = IF Places(b) = {} THEN 1 ELSE 0
            BY DEF EachOnce, FreeOrMapped
        <3>5. freeVram[b] \in Nat /\ freeHost[b] \in Nat
            BY DEF PoolTypeOK
        <3> QED
            BY <2>1, <3>1, <3>3, <3>4, <3>5
    <2> QED
        BY <2>2, <2>3
<1>4. FreeOrMapped'
    BY <1>3 DEF FreeOrMapped
<1> QED
    BY <1>1, <1>2, <1>4 DEF EachOnce

\* An ensure takes a block nothing maps out of its stack.
LEMMA EnsureConserves ==
    ASSUME PoolTypeOK, EachOnce, NEW s \in Slot, NEW e \in Entry, NEW b \in Block,
           slotMap[s][e] = NoBlock, Pop(b), slotMap' = [slotMap EXCEPT ![s][e] = b]
    PROVE  EachOnce' /\ (\A t \in Slot, f \in Entry : slotMap[t][f] # b)
<1>1. freeVram[b] + freeHost[b] # 0
    BY DEF Pop, PoolTypeOK
<1>2. Places(b) = {}
    BY <1>1 DEF EachOnce, FreeOrMapped
<1>3. ASSUME NEW t \in Slot, NEW f \in Entry
      PROVE  slotMap[t][f] # b
    <2>1. <<t, f>> \notin Places(b)
        BY <1>2
    <2> QED
        BY <2>1 DEF Places
<1>4. freeVram[b] + freeHost[b] = 1
    BY <1>2 DEF EachOnce, FreeOrMapped
<1>5. HomeTier'
    BY DEF EachOnce, HomeTier, Pop, PoolTypeOK
<1>6. OnePlace'
    BY <1>3 DEF EachOnce, OnePlace, PoolTypeOK
<1>7. ASSUME NEW c \in Block
      PROVE  freeVram'[c] + freeHost'[c] = IF Places(c)' = {} THEN 1 ELSE 0
    <2>1. CASE c = b
        <3>1. freeVram'[c] + freeHost'[c] = 0
            BY <1>4, <2>1 DEF Pop, PoolTypeOK
        <3>2. <<s, e>> \in Places(c)'
            BY <2>1 DEF Places, PoolTypeOK
        <3> QED
            BY <3>1, <3>2
    <2>2. CASE c # b
        <3>1. freeVram'[c] = freeVram[c] /\ freeHost'[c] = freeHost[c]
            BY <2>2 DEF Pop, PoolTypeOK
        <3>2. \A t \in Slot, f \in Entry : slotMap'[t][f] = c <=> slotMap[t][f] = c
            BY <2>2, NoBlockNotBlock DEF PoolTypeOK
        <3>3. Places(c)' = Places(c)
            BY <3>2 DEF Places
        <3> QED
            BY <3>1, <3>3 DEF EachOnce, FreeOrMapped
    <2> QED
        BY <2>1, <2>2
<1>8. FreeOrMapped'
    BY <1>7 DEF FreeOrMapped
<1> QED
    BY <1>3, <1>5, <1>6, <1>8 DEF EachOnce

LEMMA ConservedStep ==
    PoolTypeOK /\ EachOnce /\ [PoolNext]_poolVars => EachOnce'
<1> SUFFICES ASSUME PoolTypeOK, EachOnce, [PoolNext]_poolVars
             PROVE  EachOnce'
    OBVIOUS
<1>1. ASSUME NEW s \in Slot, NEW e \in Entry, Ensure(s, e)
      PROVE  EachOnce'
    BY <1>1, EnsureConserves DEF Ensure
<1>2. ASSUME NEW s \in Slot, Release(s)
      PROVE  EachOnce'
    <2>1. slotMap' = [slotMap EXCEPT ![s] =
                [e \in Entry |-> IF e \in Mapped(s) THEN NoBlock ELSE slotMap[s][e]]]
        BY <1>2 DEF Release, Mapped, PoolTypeOK
    <2> QED
        BY <1>2, <2>1, ReleaseConserves DEF Release
<1>3. ASSUME NEW s \in Slot, NEW floorBi \in 1 .. MbMax, ReleaseBelow(s, floorBi)
      PROVE  EachOnce'
    <2> DEFINE E == Below(s, floorBi)
    <2>1. E \in SUBSET Mapped(s)
        BY DEF Below
    <2>2. PushFree(s, E)
        BY <1>3 DEF ReleaseBelow
    <2>3. slotMap' = [slotMap EXCEPT ![s] =
                [e \in Entry |-> IF e \in E THEN NoBlock ELSE slotMap[s][e]]]
        BY <1>3 DEF ReleaseBelow, PoolTypeOK
    <2> HIDE DEF E
    <2> QED
        BY <2>1, <2>2, <2>3, ReleaseConserves
<1>4. CASE UNCHANGED poolVars
    BY <1>4 DEF poolVars, EachOnce, HomeTier, FreeOrMapped, OnePlace, Places
<1> QED
    BY <1>1, <1>2, <1>3, <1>4 DEF PoolNext

LEMMA ConservedInit == PoolInit => EachOnce
<1> SUFFICES ASSUME PoolInit PROVE EachOnce
    OBVIOUS
<1>1. HomeTier
    BY DEF PoolInit, HomeTier
<1>2. \A b \in Block : Places(b) = {}
    BY NoBlockNotBlock DEF PoolInit, Places
<1>3. FreeOrMapped
    BY <1>2 DEF PoolInit, FreeOrMapped
<1>4. OnePlace
    BY DEF PoolInit, OnePlace
<1> QED
    BY <1>1, <1>3, <1>4 DEF EachOnce

LEMMA PoolEachOnce == PoolSpec => []EachOnce
<1>1. PoolSpec => []PoolTypeOK
    BY PoolTypeCorrect
<1> QED
    BY <1>1, ConservedInit, ConservedStep, PTL DEF PoolSpec

-----------------------------------------------------------------------------
(***************************************************************************)
(* The count used[s].                                                      *)
(***************************************************************************)
LEMMA UsedStep == PoolTypeOK /\ UsedIsMapped /\ [PoolNext]_poolVars => UsedIsMapped'
<1> SUFFICES ASSUME PoolTypeOK, UsedIsMapped, [PoolNext]_poolVars, NEW t \in Slot
             PROVE  used'[t] = Cardinality(Mapped(t)')
    BY DEF UsedIsMapped
<1>0. IsFiniteSet(Mapped(t)) /\ used[t] = Cardinality(Mapped(t))
    BY EntryFinite, FS_Subset DEF Mapped, UsedIsMapped
<1>1. ASSUME NEW s \in Slot, NEW e \in Entry, Ensure(s, e)
      PROVE  used'[t] = Cardinality(Mapped(t)')
    <2>1. PICK b \in Block : slotMap' = [slotMap EXCEPT ![s][e] = b]
        BY <1>1 DEF Ensure
    <2>2. CASE t = s
        <3>1. Mapped(t)' = Mapped(t) \union {e} /\ e \notin Mapped(t)
            BY <1>1, <2>1, <2>2, NoBlockNotBlock DEF Mapped, Ensure, PoolTypeOK
        <3>2. Cardinality(Mapped(t)') = Cardinality(Mapped(t)) + 1
            BY <1>0, <3>1, FS_AddElement
        <3> QED
            BY <1>0, <1>1, <2>2, <3>2 DEF Ensure, PoolTypeOK
    <2>3. CASE t # s
        <3>1. Mapped(t)' = Mapped(t)
            BY <2>1, <2>3 DEF Mapped, PoolTypeOK
        <3> QED
            BY <1>0, <1>1, <2>3, <3>1 DEF Ensure, PoolTypeOK
    <2> QED
        BY <2>2, <2>3
<1>2. ASSUME NEW s \in Slot, Release(s)
      PROVE  used'[t] = Cardinality(Mapped(t)')
    <2>1. CASE t = s
        <3>1. Mapped(t)' = {}
            BY <1>2, <2>1 DEF Release, Mapped, PoolTypeOK
        <3> QED
            BY <1>2, <2>1, <3>1, FS_EmptySet DEF Release, PoolTypeOK
    <2>2. CASE t # s
        <3>1. Mapped(t)' = Mapped(t)
            BY <1>2, <2>2 DEF Release, Mapped, PoolTypeOK
        <3> QED
            BY <1>0, <1>2, <2>2, <3>1 DEF Release, PoolTypeOK
    <2> QED
        BY <2>1, <2>2
<1>3. ASSUME NEW s \in Slot, NEW floorBi \in 1 .. MbMax, ReleaseBelow(s, floorBi)
      PROVE  used'[t] = Cardinality(Mapped(t)')
    <2> DEFINE E == Below(s, floorBi)
    <2>1. E \subseteq Mapped(s) /\ Mapped(s) \subseteq Entry
        BY DEF Below, Mapped
    <2>2. slotMap' = [slotMap EXCEPT ![s] =
                [e \in Entry |-> IF e \in E THEN NoBlock ELSE slotMap[s][e]]]
        BY <1>3 DEF ReleaseBelow, PoolTypeOK
    <2>3. used' = [used EXCEPT ![s] =
                IF used[s] < Cardinality(E) THEN 0 ELSE used[s] - Cardinality(E)]
        BY <1>3 DEF ReleaseBelow, PoolTypeOK
    <2> HIDE DEF E
    <2>4. CASE t = s
        <3>1. Mapped(t)' = Mapped(t) \ E
            BY <2>1, <2>2, <2>4 DEF Mapped, PoolTypeOK
        <3>2. IsFiniteSet(E) /\ Mapped(t) \intersect E = E
            BY <1>0, <2>1, <2>4, FS_Subset
        <3>3. Cardinality(Mapped(t) \ E) = Cardinality(Mapped(t)) - Cardinality(E)
            <4>1. Cardinality(Mapped(t) \ E) =
                      Cardinality(Mapped(t)) - Cardinality(Mapped(t) \intersect E)
                BY <1>0, FS_Difference
            <4> QED
                BY <3>2, <4>1
        <3>4. Cardinality(E) <= Cardinality(Mapped(t))
            BY <1>0, <2>1, <2>4, FS_Subset
        <3>5. Cardinality(E) \in Nat /\ Cardinality(Mapped(t)) \in Nat
            BY <1>0, <3>2, FS_CardinalityType
        <3>6. used'[t] = used[t] - Cardinality(E)
            BY <1>0, <2>3, <2>4, <3>4, <3>5 DEF PoolTypeOK
        <3> QED
            BY <1>0, <3>1, <3>3, <3>6
    <2>5. CASE t # s
        <3>1. Mapped(t)' = Mapped(t)
            BY <2>2, <2>5 DEF Mapped, PoolTypeOK
        <3> QED
            BY <1>0, <2>3, <2>5, <3>1 DEF PoolTypeOK
    <2> QED
        BY <2>4, <2>5
<1>4. CASE UNCHANGED poolVars
    BY <1>0, <1>4 DEF poolVars, Mapped
<1> QED
    BY <1>1, <1>2, <1>3, <1>4 DEF PoolNext

LEMMA PoolCounts == PoolSpec => []UsedIsMapped
<1>1. ASSUME PoolInit PROVE UsedIsMapped
    <2>1. \A s \in Slot : Mapped(s) = {}
        BY <1>1 DEF PoolInit, Mapped
    <2> QED
        BY <1>1, <2>1, FS_EmptySet DEF PoolInit, UsedIsMapped
<1>2. PoolSpec => []PoolTypeOK
    BY PoolTypeCorrect
<1> QED
    BY <1>1, <1>2, UsedStep, PTL DEF PoolSpec

\* No block of the pool is ever lost, shared by two entries or freed twice,
\* every free block is in the stack of its own arena, and the per-slot count
\* never drifts from the map (saturating_sub never saturates), whatever the
\* numbers of slots, layers and blocks.
THEOREM PoolConserves == PoolSpec => []BlocksConserved
BY PoolEachOnce, PoolCounts, PTL DEF BlocksConserved

-----------------------------------------------------------------------------
(***************************************************************************)
(* The refinement: a pool step is a ledger step, or changes nothing held.  *)
(***************************************************************************)
\* A block no stack holds is mapped somewhere.
LEMMA NotFreeIsHeld ==
    ASSUME PoolTypeOK, EachOnce, NEW b \in Block, freeVram[b] + freeHost[b] = 0
    PROVE  \E s \in Slot : b \in Held[s]
<1>1. Places(b) # {}
    BY DEF EachOnce, FreeOrMapped
<1>2. PICK s \in Slot, e \in Entry : slotMap[s][e] = b
    BY <1>1 DEF Places
<1>3. e \in Mapped(s)
    BY <1>2, NoBlockNotBlock DEF Mapped
<1> QED
    BY <1>2, <1>3 DEF Held

LEMMA LedgerStep ==
    PoolTypeOK /\ EachOnce /\ [PoolNext]_poolVars => [Ledger!Next]_Held
<1> SUFFICES ASSUME PoolTypeOK, EachOnce, [PoolNext]_poolVars
             PROVE  [Ledger!Next]_Held
    OBVIOUS
<1>0. Held \in [Slot -> SUBSET Block]
    BY DEF Held, Mapped, PoolTypeOK
<1>1. ASSUME NEW s \in Slot, NEW e \in Entry, Ensure(s, e)
      PROVE  Ledger!Next
    <2>1. PICK b \in Block : Pop(b) /\ slotMap' = [slotMap EXCEPT ![s][e] = b]
        BY <1>1 DEF Ensure
    <2>2. slotMap[s][e] = NoBlock
        BY <1>1 DEF Ensure
    <2>3. \A t \in Slot, f \in Entry : slotMap[t][f] # b
        BY <2>1, <2>2, EnsureConserves
    <2>4. b \in Ledger!Unheld(Block)
        BY <2>3 DEF Ledger!Unheld, Held, Mapped
    <2>5. b \in Vram \/ Ledger!Unheld(Vram) = {}
        <3>1. CASE freeVram[b] > 0
            BY <3>1 DEF EachOnce, HomeTier, Vram
        <3>2. CASE \A v \in Block : freeVram[v] = 0
            <4>1. ASSUME NEW v \in Vram PROVE \E t \in Slot : v \in Held[t]
                <5>1. v \in Block /\ freeVram[v] = 0 /\ freeHost[v] = 0
                    BY <3>2 DEF Vram, EachOnce, HomeTier
                <5> QED
                    BY <5>1, NotFreeIsHeld
            <4> QED
                BY <4>1 DEF Ledger!Unheld
        <3> QED
            BY <2>1, <3>1, <3>2 DEF Pop
    <2>6. ASSUME NEW t \in Slot
          PROVE  Held'[t] = IF t = s THEN Held[s] \union {b} ELSE Held[t]
        <3>1. CASE t = s
            <4>1. \A f \in Entry : slotMap'[t][f] = IF f = e THEN b ELSE slotMap[t][f]
                BY <2>1, <3>1 DEF PoolTypeOK
            <4>2. Mapped(t)' = Mapped(t) \union {e} /\ e \notin Mapped(t)
                BY <2>2, <3>1, <4>1, NoBlockNotBlock DEF Mapped
            <4>3. {slotMap'[t][f] : f \in Mapped(t)'} = {slotMap[t][f] : f \in Mapped(t)} \union {b}
                BY <4>1, <4>2 DEF Mapped
            <4> QED
                BY <3>1, <4>3 DEF Held
        <3>2. CASE t # s
            <4>1. slotMap'[t] = slotMap[t]
                BY <2>1, <3>2 DEF PoolTypeOK
            <4> QED
                BY <3>2, <4>1 DEF Held, Mapped
        <3> QED
            BY <3>1, <3>2
    <2>7. Held' = [Held EXCEPT ![s] = @ \union {b}]
        BY <1>0, <2>6 DEF Held
    <2> QED
        BY <2>4, <2>5, <2>7 DEF Ledger!Next, Ledger!Grant
<1>2. ASSUME NEW s \in Slot, NEW E \in SUBSET Mapped(s),
             slotMap' = [slotMap EXCEPT ![s] =
                [e \in Entry |-> IF e \in E THEN NoBlock ELSE slotMap[s][e]]]
      PROVE  Ledger!Next
    <2> DEFINE B == {slotMap[s][e] : e \in E}
    <2>1. B \in SUBSET Held[s]
        BY DEF Held, Mapped, PoolTypeOK
    <2>2. ASSUME NEW t \in Slot
          PROVE  Held'[t] = IF t = s THEN Held[s] \ B ELSE Held[t]
        <3>1. CASE t = s
            <4>1. \A f \in Entry : slotMap'[t][f] = IF f \in E THEN NoBlock ELSE slotMap[t][f]
                BY <1>2, <3>1 DEF PoolTypeOK
            <4>2. Mapped(t)' = Mapped(t) \ E
                BY <3>1, <4>1 DEF Mapped
            <4>3. \A f \in Mapped(t) \ E : slotMap[t][f] \notin B
                BY <3>1 DEF EachOnce, OnePlace, Mapped
            <4>4. {slotMap'[t][f] : f \in Mapped(t)'} = {slotMap[t][f] : f \in Mapped(t)} \ B
                BY <3>1, <4>1, <4>2, <4>3 DEF Mapped
            <4> QED
                BY <3>1, <4>4 DEF Held
        <3>2. CASE t # s
            <4>1. slotMap'[t] = slotMap[t]
                BY <1>2, <3>2 DEF PoolTypeOK
            <4> QED
                BY <3>2, <4>1 DEF Held, Mapped
        <3> QED
            BY <3>1, <3>2
    <2>3. Held' = [Held EXCEPT ![s] = @ \ B]
        BY <1>0, <2>2 DEF Held
    <2> QED
        BY <2>1, <2>3 DEF Ledger!Next, Ledger!Return
<1>3. ASSUME NEW s \in Slot, Release(s)
      PROVE  Ledger!Next
    <2>1. slotMap' = [slotMap EXCEPT ![s] =
                [e \in Entry |-> IF e \in Mapped(s) THEN NoBlock ELSE slotMap[s][e]]]
        BY <1>3 DEF Release, Mapped, PoolTypeOK
    <2> QED
        BY <1>2, <2>1
<1>4. ASSUME NEW s \in Slot, NEW floorBi \in 1 .. MbMax, ReleaseBelow(s, floorBi)
      PROVE  Ledger!Next
    <2> DEFINE E == Below(s, floorBi)
    <2>1. E \in SUBSET Mapped(s)
        BY DEF Below
    <2>2. slotMap' = [slotMap EXCEPT ![s] =
                [e \in Entry |-> IF e \in E THEN NoBlock ELSE slotMap[s][e]]]
        BY <1>4 DEF ReleaseBelow, PoolTypeOK
    <2> HIDE DEF E
    <2> QED
        BY <1>2, <2>1, <2>2
<1>5. CASE UNCHANGED poolVars
    BY <1>5 DEF poolVars, Held, Mapped
<1> QED
    BY <1>1, <1>3, <1>4, <1>5 DEF PoolNext

\* The pool implements the ledger for every pool size: a block is granted
\* to one slot at a time, the VRAM blocks first.
THEOREM PoolImplementsLedger == PoolSpec => LedgerSpec
<1>1. ASSUME PoolInit PROVE Ledger!Init
    <2>1. \A s \in Slot : Mapped(s) = {}
        BY <1>1 DEF PoolInit, Mapped
    <2> QED
        BY <2>1 DEF Ledger!Init, Held
<1>2. PoolSpec => [](PoolTypeOK /\ EachOnce)
    BY PoolTypeCorrect, PoolEachOnce, PTL
<1> QED
    BY <1>1, <1>2, LedgerStep, PTL DEF PoolSpec, LedgerSpec, Ledger!Spec

-----------------------------------------------------------------------------
(***************************************************************************)
(* KvTable: the calls of the decoder.                                      *)
(***************************************************************************)
LEMMA FirstIsMember == ASSUME NEW E, E # {} PROVE First(E) \in E
BY DEF First

\* What the calls under way carry.
LEMMA CallFields ==
    ASSUME call \in Call
    PROVE  /\ call.op \in {"admit", "pass"} =>
                call.slot \in Slot /\ call.nb \in Extent
           /\ call.op = "trim" =>
                /\ call.slot \in Slot /\ call.floor \in Extent
                /\ call.left \in SUBSET Entry
                /\ call = [op |-> "trim", slot |-> call.slot,
                           floor |-> call.floor, left |-> call.left]
BY DEF Call, NoCall

LEMMA MissingIsEntry ==
    ASSUME NEW s, NEW nb, Missing(s, nb) # {}
    PROVE  /\ First(Missing(s, nb)) \in Entry
           /\ slotMap[s][First(Missing(s, nb))] = NoBlock
           /\ First(Missing(s, nb)) \in Wanted(s, nb)
<1>1. First(Missing(s, nb)) \in Missing(s, nb)
    BY FirstIsMember
<1> QED
    BY <1>1 DEF Missing, Wanted

\* Every step of the decoder's calls is a step of the pool, or leaves it.
LEMMA TablePoolStep == call \in Call /\ [TableNext]_tableVars => [PoolNext]_poolVars
<1> SUFFICES ASSUME call \in Call, [TableNext]_tableVars PROVE [PoolNext]_poolVars
    OBVIOUS
<1>1. ASSUME GrowEntry PROVE PoolNext
    <2>1. call.slot \in Slot /\ First(Missing(call.slot, call.nb)) \in Entry
        BY <1>1, CallFields, MissingIsEntry DEF GrowEntry
    <2> QED
        BY <1>1, <2>1 DEF GrowEntry, PoolNext
<1>2. ASSUME NEW s \in Slot, Trim(s) PROVE PoolNext
    BY <1>2 DEF Trim, PoolNext
<1>3. ASSUME NEW s \in Slot, Free(s) PROVE PoolNext
    BY <1>3 DEF Free, PoolNext
<1>4. ASSUME NEW s \in Slot, Grow(s) PROVE UNCHANGED poolVars
    BY <1>4 DEF Grow
<1>5. CASE GrowDry \/ GrowDone \/ TrimEntry \/ TrimDone
    BY <1>5 DEF GrowDry, GrowDone, TrimEntry, TrimDone
<1>6. CASE UNCHANGED tableVars
    BY <1>6 DEF tableVars, poolVars
<1> QED
    BY <1>1, <1>2, <1>3, <1>4, <1>5, <1>6 DEF TableNext

-----------------------------------------------------------------------------
(***************************************************************************)
(* TableOwned is not inductive: a growth that ends must have found every   *)
(* entry it skipped in order, and a copy that fails leaves one that is     *)
(* not.  Clean says which entries these can be: none at or above the       *)
(* floors asked for, but those of an admission about to be undone.  A pass *)
(* that grows finds only entries below such a floor missing, since all     *)
(* others are Live and mapped.                                             *)
(***************************************************************************)
Floored(s) == {e \in Entry : e[1] \in Sliding => e[2] >= asked[s]}

Clean == \A s \in Slot : call = [op |-> "undo", slot |-> s] \/
    \A e \in Floored(s) : slotMap[s][e] # NoBlock => table[s][e] = slotMap[s][e]

TrimInv == call.op = "trim" =>
    /\ call.floor <= asked[call.slot]
    /\ \A e \in call.left : e \notin Floored(call.slot)

PassInv == call.op = "pass" => call.nb <= kvAssigned[call.slot]

TableInv == TableTypeOK /\ Clean /\ TrimInv /\ PassInv /\ TableOwned

LEMMA TableTypeStep == TableTypeOK /\ TrimInv /\ [TableNext]_tableVars => TableTypeOK'
<1> SUFFICES ASSUME TableTypeOK, TrimInv, [TableNext]_tableVars
             PROVE  TableTypeOK'
    OBVIOUS
<1> USE DEF TableTypeOK
<1>0. PoolTypeOK'
    BY TypeStep, TablePoolStep
<1>e. MbMax \in Nat /\ Extent = 0 .. MbMax
    BY PoolAssumption DEF Extent
<1>1. ASSUME NEW s \in Slot, Grow(s) PROVE TableTypeOK'
    BY <1>0, <1>1, <1>e DEF Grow, Call
<1>2. ASSUME GrowErr, call.op \in {"admit", "pass"} PROVE call' \in Call
    BY <1>2, CallFields DEF GrowErr, Call
<1>3. ASSUME GrowEntry PROVE TableTypeOK'
    <2> DEFINE e == First(Missing(call.slot, call.nb))
    <2>1. call.slot \in Slot /\ e \in Entry
        BY <1>3, CallFields, MissingIsEntry DEF GrowEntry
    <2>2. slotMap'[call.slot][e] \in Block \union {NoBlock}
        BY <1>0, <2>1 DEF PoolTypeOK
    <2>3. call' \in Call
        BY <1>2, <1>3 DEF GrowEntry
    <2>4. table' = table \/ table' = [table EXCEPT ![call.slot][e] = slotMap'[call.slot][e]]
        BY <1>3 DEF GrowEntry
    <2>5. table' \in [Slot -> [Entry -> Block \union {NoBlock}]]
      <3> DEFINE v == slotMap'[call.slot][e]
                 B == Block \union {NoBlock}
      <3>1. table \in [Slot -> [Entry -> B]] /\ call.slot \in Slot /\ e \in Entry /\ v \in B
          BY <2>1, <2>2
      <3>2. table' = table \/ table' = [table EXCEPT ![call.slot][e] = v]
          BY <2>4
      <3> HIDE DEF TableTypeOK, e, v, B
      <3>3. table' \in [Slot -> [Entry -> B]]
          BY ONLY <3>1, <3>2
      <3>4. QED BY <3>3 DEF B
    <2> QED
        BY <1>0, <1>3, <2>3, <2>5 DEF GrowEntry
<1>4. ASSUME GrowDry PROVE TableTypeOK'
    BY <1>0, <1>2, <1>4 DEF GrowDry
<1>5. ASSUME GrowDone PROVE TableTypeOK'
    BY <1>0, <1>5, CallFields DEF GrowDone, Call
<1>6. ASSUME NEW s \in Slot, Free(s) PROVE TableTypeOK'
    <2>1. kvFloor' \in [Slot -> Extent] /\ asked' \in [Slot -> Extent]
          /\ kvAssigned' \in [Slot -> Extent]
        BY <1>6, <1>e DEF Free
    <2>2. \A t \in Slot : kvFloor'[t] <= asked'[t]
        BY <1>6, <1>e DEF Free
    <2>3. call' \in Call /\ table' = table
        BY <1>6 DEF Free, Call
    <2> QED
        BY <1>0, <2>1, <2>2, <2>3
<1>7. ASSUME NEW s \in Slot, Trim(s) PROVE TableTypeOK'
    <2>1. PICK floor \in 1 .. MbMax :
            /\ asked' = [asked EXCEPT ![s] = IF @ < floor THEN floor ELSE @]
            /\ call' = [op |-> "trim", slot |-> s, floor |-> floor, left |-> Below(s, floor)]
        BY <1>7 DEF Trim
    <2>2. call' \in Call
        BY <2>1, <1>e DEF Call, Below, Mapped
    <2>3. asked' \in [Slot -> Extent] /\ \A t \in Slot : asked[t] <= asked'[t]
        BY <2>1, <1>e
    <2> QED
        BY <1>0, <1>7, <1>e, <2>2, <2>3 DEF Trim
<1>8. ASSUME TrimEntry PROVE TableTypeOK'
    <2>1. call.slot \in Slot /\ First(call.left) \in Entry
        BY <1>8, CallFields, FirstIsMember DEF TrimEntry
    <2>2. call' \in Call
        <3>1. CASE call' = NoCall
            BY <3>1 DEF Call
        <3>2. CASE call' = [call EXCEPT !.left = @ \ {First(@)}]
            BY <1>8, <3>2, CallFields DEF TrimEntry, Call
        <3> QED
            BY <1>8, <3>1, <3>2 DEF TrimEntry
    <2> QED
        BY <1>0, <1>8, <2>1, <2>2 DEF TrimEntry
<1>9. ASSUME TrimDone PROVE TableTypeOK'
    BY <1>0, <1>9, CallFields DEF TrimDone, Call, TrimInv
<1>10. CASE UNCHANGED tableVars
    BY <1>0, <1>10 DEF tableVars
<1> QED
    BY <1>1, <1>3, <1>4, <1>5, <1>6, <1>7, <1>8, <1>9, <1>10 DEF TableNext

\* What the pool operations do to slot_map.
LEMMA ReleaseMap ==
    ASSUME PoolTypeOK, NEW s \in Slot, NEW t \in Slot, NEW e \in Entry, Release(s)
    PROVE  slotMap'[t][e] = IF t = s THEN NoBlock ELSE slotMap[t][e]
BY DEF Release, PoolTypeOK

LEMMA ReleaseBelowMap ==
    ASSUME PoolTypeOK, NEW s \in Slot, NEW t \in Slot, NEW e \in Entry,
           NEW floor, ReleaseBelow(s, floor)
    PROVE  slotMap'[t][e] = IF t = s /\ e \in Below(s, floor) THEN NoBlock ELSE slotMap[t][e]
BY DEF ReleaseBelow, PoolTypeOK

LEMMA EnsureMap ==
    ASSUME PoolTypeOK, NEW s \in Slot, NEW d \in Entry, Ensure(s, d)
    PROVE  /\ slotMap'[s][d] # NoBlock
           /\ \A t \in Slot, e \in Entry : t # s \/ e # d => slotMap'[t][e] = slotMap[t][e]
BY NoBlockNotBlock DEF Ensure, PoolTypeOK

LEMMA LiveIsKept == \A s \in Slot : Live(s) = {e \in Floored(s) : e[2] < kvAssigned[s]}
BY DEF Live, Floored

LEMMA TableStep == TableInv /\ [TableNext]_tableVars => TableInv'
<1> SUFFICES ASSUME TableInv, [TableNext]_tableVars
             PROVE  TableInv'
    OBVIOUS
<1>t. TableTypeOK /\ PoolTypeOK /\ call \in Call /\ TableTypeOK'
    BY TableTypeStep DEF TableInv, TableTypeOK
<1>a. asked \in [Slot -> Nat] /\ kvAssigned \in [Slot -> Nat] /\ Extent \subseteq Nat
    BY <1>t, PoolAssumption DEF TableTypeOK, Extent
<1>b. \A e \in Entry : e[2] \in Nat
    BY PoolAssumption DEF Entry
\* A step that leaves map, table, floors and assignments alone.
<1>1. ASSUME UNCHANGED <<slotMap, table, asked, kvAssigned>>,
             \A s \in Slot : call # [op |-> "undo", slot |-> s]
                             \/ call' = [op |-> "undo", slot |-> s]
      PROVE  Clean' /\ TableOwned'
    BY <1>1, <1>t DEF TableInv, Clean, TableOwned, Floored, Live
<1>2. ASSUME NEW s \in Slot, Grow(s) PROVE TableInv'
    <2>1. TrimInv' /\ PassInv'
        BY <1>2 DEF Grow, TrimInv, PassInv
    <2>2. Clean' /\ TableOwned'
        BY <1>1, <1>2 DEF Grow, NoCall, poolVars
    <2> QED
        BY <1>t, <2>1, <2>2 DEF TableInv
<1>3. ASSUME GrowErr, call.op \in {"admit", "pass"}
      PROVE  /\ TrimInv' /\ PassInv'
             /\ \A t \in Slot : call # [op |-> "undo", slot |-> t]
             /\ call.op = "admit" => call' = [op |-> "undo", slot |-> call.slot]
    BY <1>3 DEF GrowErr, NoCall, TrimInv, PassInv
<1>4. ASSUME GrowEntry PROVE TableInv'
    <2> DEFINE d == First(Missing(call.slot, call.nb))
               c == call.slot
    <2>1. c \in Slot /\ d \in Entry /\ d \in Wanted(c, call.nb) /\ slotMap[c][d] = NoBlock
          /\ Ensure(c, d) /\ call.op \in {"admit", "pass"}
        BY <1>4, <1>t, CallFields, MissingIsEntry DEF GrowEntry
    <2>2. \A t \in Slot, e \in Entry : t # c \/ e # d => slotMap'[t][e] = slotMap[t][e]
        BY <2>1, <1>t, EnsureMap
    <2>3. \/ table' = [table EXCEPT ![c][d] = slotMap'[c][d]] /\ call' = call
          \/ table' = table /\ GrowErr
        BY <1>4 DEF GrowEntry
    <2>4. asked' = asked /\ kvAssigned' = kvAssigned
        BY <1>4 DEF GrowEntry
    <2>5. \A t \in Slot, e \in Entry : t # c \/ e # d => table'[t][e] = table[t][e]
        BY <2>1, <2>3, <1>t DEF TableTypeOK
    <2>6. d \notin Live(c)
        BY <2>1 DEF TableInv, TableOwned
    <2>7. TableOwned'
        BY <2>2, <2>4, <2>5, <2>6 DEF TableInv, TableOwned, Live
    <2>8. TrimInv' /\ PassInv'
        BY <1>3, <2>1, <2>3, <2>4 DEF TableInv, TrimInv, PassInv
    <2>9. Clean'
        <3> SUFFICES ASSUME NEW t \in Slot, call' # [op |-> "undo", slot |-> t],
                            NEW e \in Floored(t), slotMap'[t][e] # NoBlock
                     PROVE  table'[t][e] = slotMap'[t][e]
            BY <2>4 DEF Clean, Floored
        <3>1. \A s \in Slot : call # [op |-> "undo", slot |-> s]
            BY <2>1
        <3>2. CASE t # c \/ e # d
            BY <2>2, <2>5, <3>1, <3>2 DEF TableInv, Clean, Floored
        <3>3. CASE t = c /\ e = d
            <4>1. CASE table' = [table EXCEPT ![c][d] = slotMap'[c][d]]
                BY <2>1, <3>3, <4>1, <1>t DEF TableTypeOK
            <4>2. CASE GrowErr
                <5>1. call.op = "pass" /\ call.nb <= kvAssigned[c] /\ call.nb \in Nat
                    BY <1>3, <2>1, <3>3, <4>2, <1>t, <1>a, CallFields DEF TableInv, PassInv
                <5>2. d[2] < kvAssigned[c]
                    BY <2>1, <5>1, <1>a, <1>b DEF Wanted
                <5> QED
                    BY <2>1, <2>6, <3>3, <5>2, LiveIsKept
            <4> QED
                BY <2>3, <4>1, <4>2
        <3> QED
            BY <3>2, <3>3
    <2> QED
        BY <1>t, <2>7, <2>8, <2>9 DEF TableInv
<1>5. ASSUME GrowDry PROVE TableInv'
    <2>1. UNCHANGED <<slotMap, table, asked, kvAssigned>>
          /\ GrowErr /\ call.op \in {"admit", "pass"}
        BY <1>5 DEF GrowDry, poolVars
    <2> QED
        BY <1>1, <1>3, <1>t, <2>1 DEF TableInv
<1>6. ASSUME GrowDone PROVE TableInv'
    <2> DEFINE c == call.slot
    <2>1. c \in Slot /\ call.nb \in Nat /\ Missing(c, call.nb) = {}
          /\ \A s \in Slot : call # [op |-> "undo", slot |-> s]
        BY <1>6, <1>t, <1>a, CallFields DEF GrowDone
    <2>2. UNCHANGED <<slotMap, table, asked>> /\ call' = NoCall
          /\ kvAssigned' = [kvAssigned EXCEPT ![c] = IF @ < call.nb THEN call.nb ELSE @]
        BY <1>6 DEF GrowDone, poolVars
    <2>3. Clean' /\ TrimInv' /\ PassInv'
        BY <2>1, <2>2 DEF TableInv, Clean, Floored, TrimInv, PassInv, NoCall
    <2>4. TableOwned'
        <3> SUFFICES ASSUME NEW t \in Slot, NEW e \in Live(t)'
                     PROVE  slotMap[t][e] # NoBlock /\ table[t][e] = slotMap[t][e]
            BY <2>2 DEF TableOwned
        <3>1. e \in Floored(t) /\ e \in Entry
            BY <2>2 DEF Live, Floored
        <3>2. CASE e \in Live(t)
            BY <3>2 DEF TableInv, TableOwned
        <3>3. CASE e \notin Live(t)
            <4>1. t = c /\ e[2] < call.nb
                BY <2>1, <2>2, <3>1, <3>3, <1>a, <1>b DEF Live, Floored
            <4>2. e \in Wanted(c, call.nb)
                BY <3>1, <4>1, <1>t, <1>a, <1>b DEF Wanted, Floored, TableTypeOK, Extent
            <4>3. slotMap[t][e] # NoBlock
                BY <2>1, <4>1, <4>2 DEF Missing
            <4> QED
                BY <2>1, <3>1, <4>3 DEF TableInv, Clean
        <3> QED
            BY <3>2, <3>3
    <2> QED
        BY <1>t, <2>3, <2>4 DEF TableInv
<1>7. ASSUME NEW s \in Slot, Free(s) PROVE TableInv'
    <2>1. TrimInv' /\ PassInv' /\ table' = table /\ call' = NoCall
        BY <1>7 DEF Free, TrimInv, PassInv, NoCall
    <2>2. \A t \in Slot, e \in Entry :
            slotMap'[t][e] = IF t = s THEN NoBlock ELSE slotMap[t][e]
        BY <1>7, <1>t, ReleaseMap DEF Free
    <2>3. \A t \in Slot : t # s => asked'[t] = asked[t] /\ kvAssigned'[t] = kvAssigned[t]
        BY <1>7, <1>a DEF Free
    <2>4. kvAssigned'[s] = 0
        BY <1>7, <1>a DEF Free
    <2>5. \A t \in Slot : t # s => call # [op |-> "undo", slot |-> t]
        BY <1>7 DEF Free, NoCall
    <2>6. Clean'
        BY <2>1, <2>2, <2>3, <2>5 DEF TableInv, Clean, Floored
    <2>7. Live(s)' = {}
        BY <2>4, <1>b DEF Live
    <2>8. TableOwned'
        BY <2>1, <2>2, <2>3, <2>7 DEF TableInv, TableOwned, Live
    <2> QED
        BY <1>t, <2>1, <2>6, <2>8 DEF TableInv
<1>8. ASSUME NEW s \in Slot, Trim(s) PROVE TableInv'
    <2>1. PICK floor \in 1 .. MbMax :
            /\ ReleaseBelow(s, floor)
            /\ asked' = [asked EXCEPT ![s] = IF @ < floor THEN floor ELSE @]
            /\ call' = [op |-> "trim", slot |-> s, floor |-> floor, left |-> Below(s, floor)]
        BY <1>8 DEF Trim
    <2>2. call = NoCall /\ table' = table /\ kvAssigned' = kvAssigned
        BY <1>8 DEF Trim
    <2>3. floor \in Nat /\ floor <= asked'[s] /\ \A t \in Slot : asked[t] <= asked'[t]
        BY <2>1, <1>a, PoolAssumption
    <2>4. \A t \in Slot, e \in Entry :
            slotMap'[t][e] = IF t = s /\ e \in Below(s, floor) THEN NoBlock ELSE slotMap[t][e]
        BY <2>1, <1>t, ReleaseBelowMap
    <2>5. asked' \in [Slot -> Nat]
        BY <2>1, <2>3, <1>a
    <2>6. \A t \in Slot : \A e \in Floored(t)' : e \in Floored(t) /\ ~ (t = s /\ e \in Below(s, floor))
        BY <2>3, <2>5, <1>a, <1>b DEF Floored, Below
    <2>7. TrimInv' /\ PassInv'
        <3>1. \A e \in Below(s, floor) : e \notin Floored(s)'
            BY <2>6 DEF Below
        <3>2. /\ call'.op = "trim" /\ call'.slot = s
              /\ call'.floor = floor /\ call'.left = Below(s, floor)
            BY <2>1
        <3>3. TrimInv'
            <4>1. Floored(call.slot)' = Floored(s)'
                BY <3>2 DEF Floored
            <4>2. \A e \in call'.left : e \notin Floored(call.slot)'
                BY <3>1, <3>2, <4>1
            <4>3. call'.floor <= asked'[call'.slot]
                BY <2>3, <3>2
            <4> QED
                BY <4>2, <4>3 DEF TrimInv
        <3> QED
            BY <3>2, <3>3 DEF PassInv
    <2>8. Clean'
        <3> SUFFICES ASSUME NEW t \in Slot, NEW e \in Floored(t)', slotMap'[t][e] # NoBlock
                     PROVE  table[t][e] = slotMap'[t][e]
            BY <2>2 DEF Clean
        <3>1. e \in Entry /\ e \in Floored(t) /\ slotMap'[t][e] = slotMap[t][e]
            BY <2>4, <2>6 DEF Floored
        <3>2. call # [op |-> "undo", slot |-> t]
            BY <2>2 DEF NoCall
        <3> QED
            BY <3>1, <3>2 DEF TableInv, Clean
    <2>9. TableOwned'
        <3> SUFFICES ASSUME NEW t \in Slot, NEW e \in Live(t)'
                     PROVE  slotMap'[t][e] # NoBlock /\ table[t][e] = slotMap'[t][e]
            BY <2>2 DEF TableOwned
        <3>1. e \in Floored(t)' /\ e \in Entry /\ e[2] < kvAssigned[t]
            BY <2>2 DEF Live, Floored
        <3>2. e \in Live(t) /\ slotMap'[t][e] = slotMap[t][e]
            BY <2>4, <2>6, <3>1, LiveIsKept
        <3> QED
            BY <3>2 DEF TableInv, TableOwned
    <2> QED
        BY <1>t, <2>7, <2>8, <2>9 DEF TableInv
<1>9. ASSUME TrimEntry PROVE TableInv'
    <2> DEFINE c == call.slot
               d == First(call.left)
    <2>1. c \in Slot /\ d \in call.left /\ d \in Entry /\ call.op = "trim" /\ d \notin Floored(c)
        BY <1>9, <1>t, CallFields, FirstIsMember DEF TrimEntry, TableInv, TrimInv
    <2>2. UNCHANGED <<slotMap, asked, kvAssigned>>
        BY <1>9 DEF TrimEntry, poolVars
    <2>3. \A t \in Slot : \A e \in Floored(t) : table'[t][e] = table[t][e]
        BY <1>9, <2>1, <1>t DEF TrimEntry, TableTypeOK, Floored
    <2>4. call' = NoCall \/ call' = [call EXCEPT !.left = @ \ {d}]
        BY <1>9 DEF TrimEntry
    <2>5. \A t \in Slot : call # [op |-> "undo", slot |-> t]
        BY <2>1
    <2>6. Clean'
        BY <2>2, <2>3, <2>5 DEF TableInv, Clean, Floored
    <2>7. TableOwned'
        <3>1. \A t \in Slot : Live(t)' = Live(t) /\ Live(t) \subseteq Floored(t)
            BY <2>2 DEF Live, Floored
        <3> QED
            BY <2>2, <2>3, <3>1 DEF TableInv, TableOwned
    <2>8. TrimInv' /\ PassInv'
        <3>1. CASE call' = NoCall
            BY <3>1 DEF TrimInv, PassInv, NoCall
        <3>2. CASE call' = [call EXCEPT !.left = @ \ {d}]
            <4>1. call'.op = "trim" /\ call'.slot = c /\ call'.floor = call.floor
                  /\ call'.left \subseteq call.left
                BY <2>1, <3>2, <1>t, CallFields
            <4> QED
                BY <2>1, <2>2, <4>1 DEF TableInv, TrimInv, PassInv, Floored
        <3> QED
            BY <2>4, <3>1, <3>2
    <2> QED
        BY <1>t, <2>6, <2>7, <2>8 DEF TableInv
<1>10. ASSUME TrimDone PROVE TableInv'
    <2>1. Clean' /\ TableOwned'
        BY <1>1, <1>10 DEF TrimDone, poolVars
    <2> QED
        BY <1>t, <1>10, <2>1 DEF TrimDone, TableInv, TrimInv, PassInv, NoCall
<1>11. CASE UNCHANGED tableVars
    <2>1. Clean' /\ TableOwned'
        BY <1>1, <1>11 DEF tableVars
    <2> QED
        BY <1>t, <1>11, <2>1 DEF tableVars, TableInv, TrimInv, PassInv, Floored
<1> QED
    BY <1>2, <1>4, <1>5, <1>6, <1>7, <1>8, <1>9, <1>10, <1>11 DEF TableNext

LEMMA TableInitInv == TableInit => TableInv
<1> SUFFICES ASSUME TableInit PROVE TableInv
    OBVIOUS
<1>1. PoolTypeOK
    BY DEF TableInit, PoolInit, PoolTypeOK
<1>2. TableTypeOK
    BY <1>1, PoolAssumption DEF TableInit, TableTypeOK, Extent, Call
<1>3. \A s \in Slot : Live(s) = {}
    BY PoolAssumption DEF TableInit, Live, Entry
<1> QED
    BY <1>2, <1>3 DEF TableInit, TableInv, Clean, Floored, TrimInv, PassInv, TableOwned, NoCall, PoolInit

\* The decoder's calls keep their variables typed, and a floor is never
\* stored that was not asked for, nor survives the slot's conversation.
THEOREM TableTypeCorrect == TableSpec => []TableTypeOK
<1>1. TableInv => TableTypeOK
    BY DEF TableInv
<1> QED
    BY <1>1, TableInitInv, TableStep, PTL DEF TableSpec

\* For every geometry of slots and layers and whichever copies fail: where
\* a pass goes through the table, it meets the slot's own blocks.
THEOREM TableKeepsOwner == TableSpec => []TableOwned
<1>1. TableInv => TableOwned
    BY DEF TableInv
<1> QED
    BY <1>1, TableInitInv, TableStep, PTL DEF TableSpec

\* The decoder's calls are calls of the pool: what is proved of KvPool, the
\* ledger it implements included, holds of the decoder.
THEOREM TableImplementsPool == TableSpec => PoolSpec /\ LedgerSpec
<1>1. TableInit => PoolInit
    BY DEF TableInit
<1>2. TableInv => call \in Call
    BY DEF TableInv, TableTypeOK
<1>3. TableSpec => PoolSpec
    BY <1>1, <1>2, TableInitInv, TableStep, TablePoolStep, PTL DEF TableSpec, PoolSpec
<1> QED
    BY <1>3, PoolImplementsLedger, PTL
=============================================================================
