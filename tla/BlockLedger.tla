---------------------------- MODULE BlockLedger ----------------------------
(***************************************************************************)
(* What the KV block pool promises, without saying how: every block of the *)
(* device arenas is held by at most one slot, a free block of the VRAM     *)
(* tier is granted before any block of the host tier, and a slot returns   *)
(* only blocks it holds.                                                   *)
(***************************************************************************)
CONSTANTS Slot,    \* the slots of the scheduler
          Block,   \* all block ids of the pool
          Vram     \* the ids backed by the VRAM arena

VARIABLE held      \* held[s] is the set of blocks slot s holds

Unheld(B) == {b \in B : \A s \in Slot : b \notin held[s]}

Init == held = [s \in Slot |-> {}]

Grant(s, b) ==
    /\ b \in Unheld(Block)
    /\ b \in Vram \/ Unheld(Vram) = {}
    /\ held' = [held EXCEPT ![s] = @ \union {b}]

Return(s, B) ==
    held' = [held EXCEPT ![s] = @ \ B]

Next == \E s \in Slot :
            \/ \E b \in Block : Grant(s, b)
            \/ \E B \in SUBSET held[s] : Return(s, B)

Spec == Init /\ [][Next]_held
=============================================================================
