--------------------------- MODULE MCGdnCheckpoint ---------------------------
(***************************************************************************)
(* GdnCheckpoint as TLC checks it: Chain are prompts of one conversation,  *)
(* each a prefix of the next; Fork are prompts that part.                  *)
(***************************************************************************)
EXTENDS GdnCheckpoint

Chain == {<<1>>, <<1, 2>>, <<1, 2, 2, 1>>, <<1, 2, 2, 1, 1>>, <<1, 2, 2, 1, 1, 2, 1>>}
Fork == {<<1, 1, 1>>, <<1, 2, 2>>}
=============================================================================
