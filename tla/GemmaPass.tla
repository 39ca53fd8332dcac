----------------------------- MODULE GemmaPass -----------------------------
(***************************************************************************)
(* A pass of Gemma 4: rows of one slot, one after the other, or one row of *)
(* several slots, each with its slot and position in three tables on the   *)
(* device.  A graph captured for the same slots replays the same launches, *)
(* so a replayed pass is the same action.                                  *)
(***************************************************************************)
EXTENDS Launches, Streams

CONSTANT
  TRow        \* rows of a small product (G4_TROW_MAX, 16)

ASSUME GemmaAssumption == TRow \in 1..TMax

(***************************************************************************)
(* g4_atab: the slots and positions the tables were last written for.  A   *)
(* net of Gemma adds the layers that make their values of the keys and     *)
(* those that slide, the window these see, and the rows up to which        *)
(* attention is split over the keys (8 in the code).                       *)
(***************************************************************************)
VARIABLE atab

---------------------------------------------------------------------------
(* Products of groups of 32: up to TRow rows in one kernel, more over the  *)
(* packed weights or in whole tiles and the rest.                          *)
GemvG32(w, at, x, y, t) ==
    LET whole == t - (t % TRow) IN
    IF t <= TRow THEN <<Kernel(w, at, <<x>>, {y}, t)>>
    ELSE <<Convert(x, "dxp", t)>>
         \o (IF Packed(w) THEN MarlinGemm(w, at, "dxp", y, t)
             ELSE <<KernelRows(w, at, <<x>>, {y}, 1, whole, 1)>>
                  \o (IF whole < t THEN <<KernelRows(w, at, <<x>>, {y}, whole + 1, t, whole + 1)>>
                      ELSE <<>>))

(* The rows of a product in pieces of TRow. *)
Pieces(w, at, x, y, t) ==
    LET from(i) == (i - 1) * TRow + 1
        to(i) == IF i * TRow < t THEN i * TRow ELSE t
    IN [i \in 1..((t + TRow - 1) \div TRow) |-> KernelRows(w, at, <<x>>, {y}, from(i), to(i), from(i))]

(* The products of several weights with the same rows: one launch when few. *)
Products(segments, at, x, t) ==
    IF t <= TRow
    THEN [i \in DOMAIN segments |-> Kernel(segments[i][1], at, <<x>>, {segments[i][2]}, t)]
    ELSE Concat([i \in DOMAIN segments |-> GemvG32(segments[i][1], at, x, segments[i][2], t)])

AttnSegments(il) ==
    <<<<"attn_q", "b1">>, <<"attn_k", "b2">>>>
    \o (IF il \in net.keqv THEN <<>> ELSE <<<<"attn_v", "b3">>>>)

DenseSegments == <<<<"dense_gate", "b1">>, <<"dense_up", "b2">>>>

---------------------------------------------------------------------------
(* attn_g4_dev: many rows of one slot attend through its own blocks from   *)
(* the first position on, others each through the tables.                  *)
Contiguous(rows) ==
    \A r \in 1..(Len(rows) - 1) : rows[r + 1] = <<rows[r][1], rows[r][2] + 1>>

AttnG4(il, rows) ==
    LET at == 2 * il
        t == Len(rows)
        window == IF il \in net.sliding THEN net.window ELSE 0
        v == IF il \in net.keqv THEN "k" ELSE "v"
        in == <<"b1", "b2", IF il \in net.keqv THEN "b2" ELSE "b3">>
    IN <<[Prep(0, at, Attn(il), in, t) EXCEPT !.v = v]>>
       \o (IF t > net.splits /\ Contiguous(rows)
           THEN <<[Attend(rows[1][1], at, Attn(il), <<"dqh">>, {"outv"}, t)
                     EXCEPT !.rule = "flash", !.base = 1, !.window = window]>>
           ELSE <<[Attend(0, at, Attn(il), <<"dqh">>, {"part"}, t) EXCEPT !.window = window],
                  Kernel("parts", at, <<"part">>, {"outv"}, t)>>)

(* g4_moe_dev_t: the experts, which the router chooses from rows of its own. *)
MoeG4(at, t) ==
    (IF net.plainRouter THEN Pieces("router", at, "hn", "drt", t)
     ELSE GemvG32("router", at, "hn", "drt", t))
    \o <<Kernel("topk", at, <<"drt">>, {"moe_idx"}, t),
         Kernel("raw_weigh", at, <<"drt">>, {"moe_wt"}, t),
         Kernel("pes_scale", at, <<"moe_wt", "moe_idx">>, {"moe_wt"}, t)>>
    \o (IF t > TRow
        THEN <<Kernel("group", at, <<"moe_idx">>, {"moe_gslot"}, t)>>
             \o (IF net.moeMarlin THEN MarlinMoe(at, "nm", "moe", t)
                 ELSE MoeExpertsT(at, "nm", "moe", t, TRUE))
        ELSE <<Kernel("glu", at, <<"nm", "moe_idx">>, {"exp_act"}, t),
               Kernel("down_exps", at, <<"exp_act", "moe_idx">>, {"exp_dn"}, t),
               Kernel("accum", at, <<"moe_wt", "exp_dn">>, {"moe"}, t)>>)

(* g4_chunk_body: x is the residual, s9 the norm of a branch. *)
LayerG4(il, rows) ==
    LET at == 2 * il
        ff == 2 * il + 1
        t == Len(rows)
    IN <<Kernel("attn_norm", at, <<"x">>, {"a"}, t)>> \o Products(AttnSegments(il), at, "a", t)
       \o AttnG4(il, rows) \o GemvG32("attn_output", at, "outv", "s8", t)
       \o <<Kernel("post_attn_norm", at, <<"s8">>, {"s9"}, t),
            Kernel("attn_add", at, <<"x", "s9">>, {"x"}, t),
            Kernel("pre_ff_norm", ff, <<"x">>, {"a"}, t)>>
       \o Products(DenseSegments, ff, "a", t) \o <<Kernel("ew", ff, <<"b1", "b2">>, {"b3"}, t)>>
       \o GemvG32("ffn_down", ff, "b3", "s8", t)
       \o <<Kernel("post_ff_norm1", ff, <<"s8">>, {"s9"}, t),
            Kernel("router_norm", ff, <<"x">>, {"hn"}, t),
            Kernel("pre_ff_norm2", ff, <<"x">>, {"nm"}, t)>>
       \o MoeG4(ff, t)
       \o <<Kernel("post_ff_norm2", ff, <<"moe">>, {"h2"}, t),
            Kernel("ffn_merge", ff, <<"s9", "h2">>, {"s9"}, t),
            Kernel("post_ff_norm", ff, <<"s9">>, {"hf"}, t),
            Kernel("ffn_add", ff, <<"x", "hf">>, {"x"}, t),
            Kernel("layer_scalar", ff, <<"x">>, {"x"}, t)>>

(* The head of all rows, or of the last one alone. *)
HeadG4(t, last) ==
    LET at == 2 * Layers
        n == IF last THEN 1 ELSE t
    IN <<KernelRows("output_norm", at, <<"x">>, {"headx"}, t - n + 1, t, 1)>>
       \o Pieces("output", at, "headx", "headout", n) \o <<ReadBack("headout", n)>>

(* g4_atab_prepare: the tables, unless they are those of the pass before. *)
AtabPrepare(rows) ==
    IF atab = rows THEN <<>>
    ELSE <<SetPos([r \in DOMAIN rows |-> rows[r][2]]),
           SetRows([blk |-> [r \in DOMAIN rows |-> rows[r][1]], pp |-> [r \in DOMAIN rows |-> r]])>>

(* g4_chunk_dev and its callers, which count their slots on. *)
ChunkDev(rows, last) ==
    LET t == Len(rows)
        next(slot) == 1 + CHOOSE p \in Position :
                            \E r \in 1..t : /\ rows[r] = <<slot, p>>
                                            /\ \A q \in r + 1..t : rows[q][1] # slot
    IN /\ OnStreams(AtabPrepare(rows) \o <<FromHost("x", Values("res", 0, rows))>>
                    \o Concat([i \in DOMAIN Window |-> LayerG4(Window[i], rows)]) \o HeadG4(t, last),
                    [slot \in {rows[r][1] : r \in 1..t} |-> next(slot)],
                    Values("logits", 2 * Layers, IF last THEN <<rows[t]>> ELSE rows))
       /\ atab' = rows

---------------------------------------------------------------------------
GemmaInit == StreamsInit /\ atab = <<>>

(* step, prefill_impl (the last row of a piece, or all of them when the    *)
(* caller wants none) and spec_run: rows of one slot.                      *)
GemmaRows(slot, t, last) ==
    /\ hpos[slot] + t <= Ctx /\ (t = 1 => ~last)
    /\ ChunkDev([r \in 1..t |-> <<slot, hpos[slot] + r - 1>>], last)

(* decode_sc: one row of each of several slots. *)
GemmaBatch(slots) ==
    /\ \A i \in DOMAIN slots : hpos[slots[i]] < Ctx
    /\ ChunkDev([i \in DOMAIN slots |-> <<slots[i], hpos[slots[i]]>>], FALSE)

(* reset_seq, spec_rewind_pos and restore_prefix: the slot goes back, what *)
(* its rows held from there on is nothing to what comes next.              *)
GemmaBack(slot, to) ==
    /\ Quiet /\ want = <<>> /\ to < hpos[slot]
    /\ hpos' = [hpos EXCEPT ![slot] = to]
    /\ dev' = [dev EXCEPT !.kv = [x \in DOMAIN @ |->
                 IF x[1] = slot /\ x[3] >= to THEN Junk ELSE @[x]]]
    /\ UNCHANGED <<net, main, aux, want, atab>>

GemmaNext ==
    \/ \E slot \in Lane :
         \/ \E t \in 1..TMax, last \in BOOLEAN : GemmaRows(slot, t, last)
         \/ \E to \in Position : GemmaBack(slot, to)
    \/ \E a, b \in Lane : a # b /\ GemmaBatch(<<a, b>>)
    \/ StreamsNext /\ UNCHANGED atab

GemmaSpec == GemmaInit /\ [][GemmaNext]_<<streamVars, atab>>

=============================================================================
