---------------------------- MODULE MCSlotSched ----------------------------
(***************************************************************************)
(* SlotSched as TLC checks it: requests that fit the pool alone, together  *)
(* with another one, with any other, and one that never fits.              *)
(***************************************************************************)
EXTENDS SlotSched

MCNeedOf == [c \in Client |->
    CASE c = "big" -> 4 [] c = "small" -> 2 [] c = "tiny" -> 1 [] c = "huge" -> 9]
MCChunksOf == [c \in Client |-> IF c = "big" THEN 2 ELSE 1]
MCTokensOf == [c \in Client |-> IF c = "tiny" THEN 1 ELSE 2]
=============================================================================
