------------------------------- MODULE KvPool -------------------------------
(***************************************************************************)
(* The KV block pool of the GPU decoder,                                   *)
(* crates/backend-gpu/src/rawcuda/w4a16_dec/blocktable.rs: two free stacks *)
(* (VRAM and pinned host memory), a block map per slot and a count of the  *)
(* blocks each slot holds.                                                 *)
(*                                                                         *)
(* A free stack is kept as a bag, [Block -> Nat]: which block of a tier is *)
(* on top is not told apart by anything, but how often a block is in a     *)
(* stack is, since a block pushed twice would be handed out twice.         *)
(***************************************************************************)
EXTENDS Integers, FiniteSets

CONSTANTS Slot,         \* 0 .. n_slots - 1
          Layer,        \* 0 .. n_layers - 1
          MbMax,        \* blocks of one layer of one slot at most
          TotalBlocks,  \* blocks of both tiers
          VramBlocks,   \* ids below it are in VRAM, the others in host memory
          Sliding       \* the layers with sliding-window attention

ASSUME PoolAssumption ==
    /\ IsFiniteSet(Slot) /\ Slot # {}
    /\ IsFiniteSet(Layer) /\ Layer # {}
    /\ MbMax \in Nat \ {0}
    /\ TotalBlocks \in Nat
    /\ VramBlocks \in 0 .. TotalBlocks
    /\ Sliding \subseteq Layer

VARIABLES freeVram,     \* free_vram, as a bag
          freeHost,     \* free_host, as a bag
          slotMap,      \* slot_map[s][layer * mb_max + bi]
          used          \* used[s]

poolVars == <<freeVram, freeHost, slotMap, used>>

Block == 0 .. TotalBlocks - 1
Vram  == {b \in Block : b < VramBlocks}
NoBlock == -1           \* u32::MAX in slot_map
Entry == Layer \X (0 .. MbMax - 1)

(***************************************************************************)
(* free_vram holds the ids below vram_blocks, free_host the others.        *)
(***************************************************************************)
PoolInit ==
    /\ freeVram = [b \in Block |-> IF b < VramBlocks THEN 1 ELSE 0]
    /\ freeHost = [b \in Block |-> IF b < VramBlocks THEN 0 ELSE 1]
    /\ slotMap = [s \in Slot |-> [e \in Entry |-> NoBlock]]
    /\ used = [s \in Slot |-> 0]

Mapped(s) == {e \in Entry : slotMap[s][e] # NoBlock}

\* How often the entries E of slot s give block b back.
Returns(s, E, b) == Cardinality({e \in E : slotMap[s][e] = b})

(***************************************************************************)
(* push_free for every mapped entry of E: an id goes back to the stack of  *)
(* the arena it lives in.                                                  *)
(***************************************************************************)
PushFree(s, E) ==
    /\ freeVram' = [b \in Block |->
            freeVram[b] + IF b < VramBlocks THEN Returns(s, E, b) ELSE 0]
    /\ freeHost' = [b \in Block |->
            freeHost[b] + IF b < VramBlocks THEN 0 ELSE Returns(s, E, b)]

(***************************************************************************)
(* ensure: an entry that has its block keeps it; otherwise a block of the  *)
(* VRAM stack is taken, of the host stack when that is empty, and with     *)
(* both empty the call fails and changes nothing.                          *)
(***************************************************************************)
PopHostFirst(b) ==     \* fault: the tiers in the wrong order
    \/ /\ freeHost[b] > 0
       /\ freeHost' = [freeHost EXCEPT ![b] = @ - 1]
       /\ UNCHANGED freeVram
    \/ /\ \A v \in Block : freeHost[v] = 0
       /\ freeVram[b] > 0
       /\ freeVram' = [freeVram EXCEPT ![b] = @ - 1]
       /\ UNCHANGED freeHost

Pop(b) ==
    \/ /\ freeVram[b] > 0
       /\ freeVram' = [freeVram EXCEPT ![b] = @ - 1]
       /\ UNCHANGED freeHost
    \/ /\ \A v \in Block : freeVram[v] = 0
       /\ freeHost[b] > 0
       /\ freeHost' = [freeHost EXCEPT ![b] = @ - 1]
       /\ UNCHANGED freeVram

Ensure(s, e) ==
    /\ slotMap[s][e] = NoBlock
    /\ \E b \in Block :
        /\ Pop(b)
        /\ slotMap' = [slotMap EXCEPT ![s][e] = b]
    /\ used' = [used EXCEPT ![s] = @ + 1]

(***************************************************************************)
(* release: every block of the slot goes back.                             *)
(***************************************************************************)
Release(s) ==
    /\ PushFree(s, Mapped(s))
    /\ slotMap' = [slotMap EXCEPT ![s] = [e \in Entry |-> NoBlock]]
    /\ used' = [used EXCEPT ![s] = 0]

(***************************************************************************)
(* release_below: the blocks under floor_bi of the sliding layers go back. *)
(***************************************************************************)
Below(s, floorBi) == {e \in Mapped(s) : e[1] \in Sliding /\ e[2] < floorBi}

ReleaseBelowKeepsMap(s, floorBi) ==     \* fault: slot_map is not cleared
    /\ floorBi # 0
    /\ PushFree(s, Below(s, floorBi))
    /\ UNCHANGED <<slotMap, used>>

ReleaseBelow(s, floorBi) ==
    LET E == Below(s, floorBi)
        n == Cardinality(E)
    IN  /\ floorBi # 0
        /\ PushFree(s, E)
        /\ slotMap' = [slotMap EXCEPT ![s] =
                [e \in Entry |-> IF e \in E THEN NoBlock ELSE @[e]]]
        /\ used' = [used EXCEPT ![s] = IF @ < n THEN 0 ELSE @ - n]

PoolNext == \E s \in Slot :
                \/ \E e \in Entry : Ensure(s, e)
                \/ Release(s)
                \/ \E floorBi \in 1 .. MbMax : ReleaseBelow(s, floorBi)

PoolSpec == PoolInit /\ [][PoolNext]_poolVars
-----------------------------------------------------------------------------
PoolTypeOK ==
    /\ freeVram \in [Block -> Nat]
    /\ freeHost \in [Block -> Nat]
    /\ slotMap \in [Slot -> [Entry -> Block \union {NoBlock}]]
    /\ used \in [Slot -> Nat]

\* The entries mapped to a block, over all slots.
Places(b) == {p \in Slot \X Entry : slotMap[p[1]][p[2]] = b}

\* A block is in the free stack of the arena its address is computed in.
HomeTier == \A b \in Block :
    IF b < VramBlocks THEN freeHost[b] = 0 ELSE freeVram[b] = 0

\* A block is in a free stack, once, exactly when nothing maps it.
FreeOrMapped == \A b \in Block :
    freeVram[b] + freeHost[b] = IF Places(b) = {} THEN 1 ELSE 0

\* No two entries, of one slot or of two, map the same block.
OnePlace == \A s, t \in Slot, e, f \in Entry :
    slotMap[s][e] = slotMap[t][f] /\ slotMap[s][e] # NoBlock => s = t /\ e = f

EachOnce == HomeTier /\ FreeOrMapped /\ OnePlace

\* used[s] is the number of blocks the slot really holds.
UsedIsMapped == \A s \in Slot : used[s] = Cardinality(Mapped(s))

(***************************************************************************)
(* No block is lost, shared or freed twice: over any sequence of ensure,   *)
(* release and release_below a block is either in the free stack of its    *)
(* own arena, once, or mapped by exactly one entry of one slot; and        *)
(* used[s], which the metrics report and admission reads, counts the       *)
(* blocks mapped: saturating_sub in release_below never hides a count that *)
(* went wrong.                                                             *)
(***************************************************************************)
BlocksConserved == EachOnce /\ UsedIsMapped

(***************************************************************************)
(* The pool keeps the ledger's promise: exclusive blocks, VRAM first.      *)
(***************************************************************************)
Held == [s \in Slot |-> {slotMap[s][e] : e \in Mapped(s)}]

Ledger == INSTANCE BlockLedger WITH held <- Held
LedgerSpec == Ledger!Spec
=============================================================================
