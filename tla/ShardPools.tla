----------------------------- MODULE ShardPools -----------------------------
(***************************************************************************)
(* The KV blocks of an engine that runs on two cards (gpu_engine/pp.rs):   *)
(* each shard has a pool of its own for the attention layers it owns, and  *)
(* the scheduler sees one engine, whose numbers are put together from the  *)
(* two.  The layers of a shard grow together, so what a sequence holds of  *)
(* a shard is a number of columns of 512 tokens, one block in each layer.  *)
(***************************************************************************)
EXTENDS Integers

CONSTANTS SeqId,        \* the sequences (slots)
          LayersA,      \* attention layers of the first shard
          LayersB,      \* of the second, the draft head's among them
          Budget,       \* bytes of KV for both, kv_budget
          BlockBytes,   \* bytes of a block
          Columns,      \* columns of a whole context (mb)
          Slots         \* how many sequences there are

ASSUME ShardPoolsAssumption ==
    /\ LayersA \in Nat \ {0} /\ LayersB \in Nat \ {0}
    /\ Budget \in Nat /\ BlockBytes \in Nat \ {0}
    /\ Columns \in Nat \ {0} /\ Slots \in Nat \ {0}

\* A budget below one column is raised to one block by set_attn: a shard of one
\* layer has a column then, its partner may not.
ASSUME NoLoneLayer ==
    (LayersA > 1 /\ LayersB > 1) \/ Budget >= BlockBytes * (LayersA + LayersB)

VARIABLES colsA, colsB,   \* columns each sequence holds of a shard
          freeA, freeB    \* blocks on the free lists of the pools

poolsVars == <<colsA, colsB, freeA, freeB>>

Least(m, n) == IF m <= n THEN m ELSE n
Most(m, n) == IF m <= n THEN n ELSE m

(***************************************************************************)
(* load splits the budget by layers; set_attn makes blocks of its share,   *)
(* at least one and not more than the slots could fill.                    *)
(***************************************************************************)
SplitEvenly(layers) == Budget \div 2     \* fault: the layers are not looked at

Split(layers) == (Budget * layers) \div (LayersA + LayersB)

PoolBlocks(layers) ==
    Most(1, Least(Split(layers) \div BlockBytes, Slots * layers * Columns))

(***************************************************************************)
(* What the engine tells the scheduler: the smaller of the two needs, of   *)
(* the two free lists and of the two pools.                                *)
(***************************************************************************)
Needed(n) == Least(LayersA * n, LayersB * n)
ReportedFree == Least(freeA, freeB)
ReportedTotal == Least(PoolBlocks(LayersA), PoolBlocks(LayersB))

New(cols, s, n) == Most(n, cols[s]) - cols[s]

(***************************************************************************)
(* Admission: kv_grow to n columns in the first shard, then in the second. *)
(* When either fails, for want of blocks or in a copy to the device, what  *)
(* the sequence holds of both goes back: assign_slot releases the slot.    *)
(***************************************************************************)
Covered(s, n) == freeA >= LayersA * New(colsA, s, n) /\ freeB >= LayersB * New(colsB, s, n)

ShardGrow(s, n) ==
    /\ Needed(n) <= ReportedFree /\ Covered(s, n)
    /\ freeA' = freeA - LayersA * New(colsA, s, n)
    /\ freeB' = freeB - LayersB * New(colsB, s, n)
    /\ colsA' = [colsA EXCEPT ![s] = Most(n, @)]
    /\ colsB' = [colsB EXCEPT ![s] = Most(n, @)]

ShardRelease(s) ==
    /\ freeA' = freeA + LayersA * colsA[s]
    /\ freeB' = freeB + LayersB * colsB[s]
    /\ colsA' = [colsA EXCEPT ![s] = 0]
    /\ colsB' = [colsB EXCEPT ![s] = 0]

ShardGrowErr(s, n) == Needed(n) <= ReportedFree /\ ShardRelease(s)

PoolsInit ==
    /\ colsA = [s \in SeqId |-> 0] /\ freeA = PoolBlocks(LayersA)
    /\ colsB = [s \in SeqId |-> 0] /\ freeB = PoolBlocks(LayersB)

PoolsNext ==
    \E s \in SeqId :
        \/ \E n \in 1 .. Columns : ShardGrow(s, n) \/ ShardGrowErr(s, n)
        \/ ShardRelease(s)

PoolsSpec == PoolsInit /\ [][PoolsNext]_poolsVars
-----------------------------------------------------------------------------
(***************************************************************************)
(* Both shards hold what one number promised: a request whose need is      *)
(* within the free blocks the engine reports finds room in both pools,     *)
(* whichever has the tighter one; and one that is not refused as larger    *)
(* than the pool fits both pools when they are empty.                      *)
(***************************************************************************)
AdmittedFitsBoth ==
    \A n \in 1 .. Columns :
        /\ Needed(n) <= ReportedFree => \A s \in SeqId : Covered(s, n)
        /\ Needed(n) <= ReportedTotal =>
              LayersA * n <= PoolBlocks(LayersA) /\ LayersB * n <= PoolBlocks(LayersB)
=============================================================================
