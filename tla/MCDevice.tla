------------------------------ MODULE MCDevice ------------------------------
(***************************************************************************)
(* What the GPU decoder keeps between calls, as TLC checks it: the block   *)
(* table over the pool (KvTable), the recurrent state with its checkpoints *)
(* (GdnCheckpoint), the working buffers with the graphs captured over them *)
(* (DeviceGraphs) and the ring that weights are uploaded through           *)
(* (PinnedRing).  A behavior is one of one part, the others stay as they   *)
(* began.                                                                  *)
(***************************************************************************)
EXTENDS KvTable, GdnCheckpoint, DeviceGraphs, PinnedRing

VARIABLE part

deviceVars == <<part, tableVars, gdnVars, graphVars, ringVars>>

\* Two slots and a sliding layer of three blocks, three blocks in two tiers: a
\* slot can hold all, two slots cannot, and a trim frees one or two for the other.
CONSTANTS s0, s1
MCSlot == {s0, s1}

Chain == {<<1>>, <<1, 2>>, <<1, 2, 2, 1>>, <<1, 2, 2, 1, 1>>, <<1, 2, 2, 1, 1, 2, 1>>}

DeviceInit ==
    /\ part \in {"table", "gdn", "graphs", "ring"}
    /\ TableInit /\ GdnInit /\ GraphsInit /\ RingInit

Still(Vars) == UNCHANGED <<part, Vars>>

TableStep ==
    part = "table" /\ TableNext /\ Still(<<gdnVars, graphVars, ringVars>>)
GdnStep ==
    part = "gdn" /\ GdnNext /\ Still(<<tableVars, graphVars, ringVars>>)
GraphsStep ==
    part = "graphs" /\ GraphsNext /\ Still(<<tableVars, gdnVars, ringVars>>)
RingStep ==
    part = "ring" /\ RingNext /\ Still(<<tableVars, gdnVars, graphVars>>)

DeviceNext == TableStep \/ GdnStep \/ GraphsStep \/ RingStep

DeviceSpec == DeviceInit /\ [][DeviceNext]_deviceVars

Interchangeable == Permutations(MCSlot)
=============================================================================
