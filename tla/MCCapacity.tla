----------------------------- MODULE MCCapacity -----------------------------
(***************************************************************************)
(* What a server comes up with and what it then has room for, as TLC       *)
(* checks it, in parts that do not interact: the model's files (Repack),   *)
(* servers that come up on one card (LoadGate), the plan for several cards *)
(* (ShardPlan), the pools of two shards (ShardPools) and the states of a   *)
(* sequence on them (Shards), and the requests admitted to the slots       *)
(* (KvSlots, with the Qwen engine).  A behavior is one of one part, the    *)
(* others stay as they began.                                              *)
(***************************************************************************)
EXTENDS KvSlots, ShardPools, Shards, LoadGate, ShardPlan, Repack

VARIABLE part

capacityVars == <<part, slotVars, poolsVars, shardsVars, gateVars, planVars, repackVars>>

\* Prompts of which one continues the other, so that a checkpoint is within it.
MCTexts == {<<1, 2, 2>>, <<1, 2, 2, 1>>}

\* A dense model; a mixture of experts; one with its embedding and most of its
\* KV in the host's memory; a small one whose manifest cannot be read.
Order(dense, experts, rows, embed, kvMem, maxCtx) ==
    [dense |-> dense, head |-> 1, experts |-> experts, rows |-> rows, embed |-> embed,
     gpuEmbed |-> TRUE, listed |-> TRUE, kvMem |-> kvMem, maxCtx |-> maxCtx]
MCOrders ==
    { Order(5, 0, 0, 1, 4, 7),
      Order(4, 5, 1, 1, 3, 4),
      [Order(3, 0, 4, 2, 12, 4) EXCEPT !.gpuEmbed = FALSE],
      [Order(2, 0, 0, 0, 2, 4) EXCEPT !.listed = FALSE] }

\* Two shards of the model and one of per-layer embeddings.  The tensors of "c"
\* are elsewhere than those of "b", in one shard or in several, or one is not there.
MCNames ==
    <<<<"b", "qweight">>, <<"b", "qzeros">>, <<"b", "scales">>,
      <<"c", "qweight">>, <<"c", "qzeros">>, <<"c", "scales">>,
      <<"g", "plain">>, <<"p", "plain">>>>
Saved(c, scales) ==
    [home |-> [t \in SourceTensor |-> CASE t[1] = "p" -> "ple"
                                  [] t = <<"c", "scales">> -> scales
                                  [] t[1] = "c" -> c
                                  [] OTHER -> "m1"],
     zeros |-> [b \in Proj |-> TRUE], config |-> TRUE]
AsSaved == Saved("m2", "m1")
MCSources ==
    {AsSaved, Saved("m1", "m2"), Saved("m2", "ple"), Saved("m2", Nowhere), Saved("ple", "ple"),
     [Saved("m2", "m2") EXCEPT !.zeros["c"] = FALSE],
     [Saved("m2", "m2") EXCEPT !.config = FALSE]}
MCShape == [b |-> [n |-> 2, kw |-> 8], c |-> [n |-> 3, kw |-> 4]]

CapacityInit ==
    /\ part \in {"slots", "pools", "shards", "gate", "plan", "files"}
    /\ SlotsInit /\ PoolsInit /\ ShardsInit /\ GateInit /\ PlanInit /\ RepackInit
    /\ part # "files" => source = AsSaved

Still(Vars) == UNCHANGED <<part, Vars>>

SlotsStep ==
    part = "slots" /\ SlotsNext /\ Still(<<poolsVars, shardsVars, gateVars, planVars, repackVars>>)
PoolsStep ==
    part = "pools" /\ PoolsNext /\ Still(<<slotVars, shardsVars, gateVars, planVars, repackVars>>)
ShardsStep ==
    part = "shards" /\ ShardsNext /\ Still(<<slotVars, poolsVars, gateVars, planVars, repackVars>>)
GateStep ==
    part = "gate" /\ GateNext /\ Still(<<slotVars, poolsVars, shardsVars, planVars, repackVars>>)
PlanStep ==
    part = "plan" /\ PlanNext /\ Still(<<slotVars, poolsVars, shardsVars, gateVars, repackVars>>)
FilesStep ==
    part = "files" /\ RepackNext /\ Still(<<slotVars, poolsVars, shardsVars, gateVars, planVars>>)

CapacityNext == SlotsStep \/ PoolsStep \/ ShardsStep \/ GateStep \/ PlanStep \/ FilesStep

CapacitySpec == CapacityInit /\ [][CapacityNext]_capacityVars
=============================================================================
