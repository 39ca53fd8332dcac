----------------------------- MODULE Launches -----------------------------
(***************************************************************************)
(* What the parts of a Qwen layer launch, in order: the products with the  *)
(* weights in the form they are held, attention, the recurrent mixing and  *)
(* the experts.  A launch list is a sequence of kernels; a kernel of       *)
(* Aux(..) goes to the second stream.                                      *)
(***************************************************************************)
EXTENDS Kernels, SequencesExt

CONSTANTS
  Small,      \* GEMV_TR, BATCH_DEC_MAX and the longest small pass (8)
  MmaMin,     \* rows from which a product reads the half-precision input (16)
  TileM,      \* rows of a tile of a product over packed weights (64)
  MaxPar      \* tiles of one such launch

ASSUME LaunchAssumption ==
  /\ Small \in 1..TMax /\ MmaMin \in Small..TMax
  /\ TileM \in Nat \ {0} /\ MaxPar \in Nat \ {0}

(***************************************************************************)
(* The net says whether its products are in the clear (a model of experts) *)
(* or quantised, the weights there are packed copies of, those whose       *)
(* original is still there, whether the originals were given up, and how   *)
(* the experts are held.                                                   *)
(***************************************************************************)
Linear == {"attn_q", "attn_k", "attn_v", "attn_output", "attn_qkv", "attn_gate", "ssm_out",
           "ffn_gate", "ffn_up", "ffn_down"}

(* Originals are given up only when every weight has its packed copy; one  *)
(* that cannot be freed stays.                                             *)
Consolidate(packed, stuck) ==
    IF packed = Linear THEN [packed |-> packed, held |-> stuck, only |-> TRUE]
    ELSE [packed |-> packed, held |-> Linear, only |-> FALSE]

Held(w) == w \in net.held
Packed(w) == w \in net.packed

Aux(launches) == [i \in DOMAIN launches |-> [op |-> "aux", launch |-> launches[i]]]

---------------------------------------------------------------------------
(* Products with one weight: x the input, y the output, t the rows. *)

(* A product over packed weights goes in tiles, all into one buffer. *)
MarlinTiles(t) ==
    LET size(rest) == LET par == IF rest \div TileM < MaxPar THEN rest \div TileM ELSE MaxPar
                      IN IF par > 0 THEN par * TileM ELSE rest
        tiles[from \in 1..(t + 1)] ==
          IF from > t THEN <<>>
          ELSE LET next == from + size(t - from + 1)
               IN <<<<from, next - 1>>>> \o tiles[next]
    IN tiles[1]

MarlinGemm(w, at, x16, y, t) ==
    [i \in DOMAIN MarlinTiles(t) |->
       LET tile == MarlinTiles(t)[i]
       IN KernelRows(w, at, <<x16>>, {"dmc"}, tile[1], tile[2], tile[1])]
    \o <<Convert("dmc", y, t)>>

GemvLaunch(w, at, x, y) ==
    IF Held(w) THEN <<Kernel(w, at, <<x>>, {y}, 1)>>
    ELSE <<Convert(x, "dxp", 1), Kernel(w, at, <<"dxp">>, {y}, 1)>>

(* Wide products and products without the original read dx16, not x. *)
GemmLaunch(w, at, x, y, t) ==
    IF t >= MmaMin \/ ~Held(w)
    THEN IF Packed(w) THEN MarlinGemm(w, at, "dx16", y, t)
         ELSE <<Kernel(w, at, <<"dx16">>, {y}, t)>>
    ELSE <<Kernel(w, at, <<x>>, {y}, t)>>

GemvTLaunch(w, at, x, y, t) ==
    IF Held(w) THEN <<Kernel(w, at, <<x>>, {y}, t)>> ELSE GemmLaunch(w, at, x, y, t)

PlainGemv(w, at, x, y, t) == <<Kernel(w, at, <<x>>, {y}, t)>>

PlainGemm(w, at, x, y, t) ==
    IF t >= MmaMin THEN <<Convert(x, "dabf", t), Kernel(w, at, <<"dabf">>, {y}, t)>>
    ELSE <<Kernel(w, at, <<x>>, {y}, t)>>

LinForward(path, w, at, x, y, t) ==
    IF net.plain
    THEN IF path = "Gemm" THEN PlainGemm(w, at, x, y, t) ELSE PlainGemv(w, at, x, y, t)
    ELSE IF path = "GemvT" /\ Held(w) THEN GemvTLaunch(w, at, x, y, t)
         ELSE GemmLaunch(w, at, x, y, t)

---------------------------------------------------------------------------
(* The products that share an input, in one launch: their table is built   *)
(* once, with the originals of the weights or with the packed copies.      *)

Segments(il, group) ==
    IF group = 1 THEN <<<<"ffn_gate", "s0">>, <<"ffn_up", "s1">>>>
    ELSE IF Attends(il) THEN <<<<"attn_q", "s0">>, <<"attn_k", "s1">>, <<"attn_v", "s1b">>>>
    ELSE <<<<"attn_qkv", "s0">>, <<"attn_gate", "s1">>>>

GemvMulti(il, group, x, t) ==
    [i \in DOMAIN Segments(il, group) |->
       LET seg == Segments(il, group)[i]
       IN IF net.plain \/ Held(seg[1]) THEN Kernel(seg[1], 2 * il + group, <<x>>, {seg[2]}, t)
          ELSE Lost({seg[2]})]

HasSkGroup(il, group) ==
    ~net.plain /\ \A i \in DOMAIN Segments(il, group) : Packed(Segments(il, group)[i][1])

SkMulti(il, group, x16) ==
    [i \in DOMAIN Segments(il, group) |->
       Kernel(Segments(il, group)[i][1], 2 * il + group, <<x16>>, {Segments(il, group)[i][2]}, 1)]

SkSingle(w, at, x16, y) == <<Kernel(w, at, <<x16>>, {y}, 1)>>

---------------------------------------------------------------------------
(* The residual norm of the decoder, with the two copies the products of a *)
(* quantised net read, and the activation of its feed-forward.             *)
NormResid(at, ab, t, copies) ==
    <<Norm(at, "dres", ab, IF copies THEN {"dxn", "dx32", "dx16"} ELSE {"dxn"}, 1, t, 1)>>

EwFused(at, t) == <<Kernel("ew", at, <<"s0", "s1">>, {"s2", "dx32", "dx16"}, t)>>

(* Attention of one slot; within a captured graph the position is not set. *)
AttnRun(slot, start, il, t, captured) ==
    LET at == 2 * il
        scores == IF t <= Small THEN "dattn_part" ELSE "fa2"
    IN (IF captured THEN <<>> ELSE <<SetPos(slot :> start)>>)
       \o <<Prep(slot, at, Attn(il), <<"s0", "s1", "s1b">>, t),
            Attend(slot, at, Attn(il), <<"dqh">>, {scores}, t),
            Kernel("merge", at, <<scores, "s0">>, {"doutv", "dx32", "dx16"}, t)>>

AttnBatch(il, t) ==
    <<Prep(0, 2 * il, Attn(il), <<"s0", "s1", "s1b">>, t),
      Attend(0, 2 * il, Attn(il), <<"dqh">>, {"dattn_part"}, t),
      Kernel("merge", 2 * il, <<"dattn_part", "s0">>, {"doutv", "dx32", "dx16"}, t)>>

---------------------------------------------------------------------------
(* The recurrent mixing: convolution over the ring, the inputs of the      *)
(* delta rule, the rule itself in one of three forms, and the gate.        *)
GdnStep1(slot, at, gi, t) ==
    <<Scan("part", "st", slot, at, gi, <<"dq2">>, {"dgpart"}, FALSE, t),
      Kernel("delta", at, <<"dq2", "dgpart">>, {"dgdc"}, t),
      Kernel("comb", at, <<"dq2", "dgpart">>, {"dgo"}, t),
      Scan("upd", "st", slot, at, gi, <<"dq2", "dgdc">>, {}, TRUE, t)>>

GdnChunked(slot, at, gi, t) ==
    <<Kernel("akq", at, <<"dq2">>, {"dakq"}, t),
      Kernel("wu", at, <<"dq2", "dakq">>, {"dwu"}, t),
      Scan("chunk_h", "st", slot, at, gi, <<"dq2", "dwu">>, {"dhbuf"}, TRUE, t),
      Kernel("chunk_o", at, <<"dq2", "dakq", "dhbuf">>, {"dgo"}, t)>>

(* The index of a recurrent layer, counted on from the window's first. *)
Gi(il) == RecurrentBefore(net.from) + Cardinality({j \in net.from..(il - 1) : ~Attends(j)})

GdnRun(slot, il, gi, x, t) ==
    LET at == 2 * il IN
    <<Scan("conv", "ring", slot, at, gi, <<"s0">>, {"dgq"}, TRUE, t),
      Kernel("l2perm", at, <<"dgq", x>>, {"dq2"}, t)>>
    \o (IF t = 1 THEN GdnStep1(slot, at, gi, t)
        ELSE IF net.spec /\ t <= Small
             THEN <<Scan("spec_scan", "st", slot, at, gi, <<"dq2">>, {"dgo"}, TRUE, t)>>
        ELSE GdnChunked(slot, at, gi, t))
    \o <<Kernel("gate", at, <<"dgo", "s1">>, {"dgate", "dx32", "dx16"}, t)>>

GdnBatch(il, gi, t) ==
    LET at == 2 * il IN
    <<Scan("conv", "ring", 0, at, gi, <<"s0">>, {"dgq"}, TRUE, t),
      Kernel("l2perm", at, <<"dgq", "dxn">>, {"dq2"}, t)>>
    \o GdnStep1(0, at, gi, t)
    \o <<Kernel("gate", at, <<"dgo", "s1">>, {"dgate", "dx32", "dx16"}, t)>>

---------------------------------------------------------------------------
(***************************************************************************)
(* The experts: the router and the shared expert's inputs in one launch,   *)
(* the choice, the products of the chosen ones and the shared expert,      *)
(* which a small pass computes on the second stream meanwhile.             *)
(***************************************************************************)
MoeMultiGate(at, x, t) ==
    <<Kernel("moe_gate", at, <<x>>, {"drt"}, t),
      Kernel("moe_shared_gate", at, <<x>>, {"dsh0"}, t),
      Kernel("moe_shared_up", at, <<x>>, {"dsh1"}, t),
      Kernel("moe_shared_sgate", at, <<x>>, {"dsg"}, t)>>

MoeTopk(at, t) ==
    <<Kernel("topk", at, <<"drt">>, {"moe_idx"}, t), Kernel("weigh", at, <<"drt">>, {"moe_wt"}, t)>>

SharedAct(at, t) == <<Kernel("shared_ew", at, <<"dsh0", "dsh1">>, {"s2"}, t)>>

ExpertsBatch(at) ==
    <<Kernel("glu", at, <<"dxn", "moe_idx">>, {"exp_act"}, 1),
      Kernel("down_exps", at, <<"exp_act", "moe_idx">>, {"exp_dn"}, 1)>>

(* One expert after the other through the buffers of the chain, here one. *)
ExpertsStreaming(at) ==
    <<Kernel("gate_exps", at, <<"dxn", "moe_idx">>, {"s0"}, 1),
      Kernel("up_exps", at, <<"dxn", "moe_idx">>, {"s1"}, 1),
      Kernel("exps_ew", at, <<"s0", "s1">>, {"s2"}, 1),
      Kernel("down_exps", at, <<"s2", "moe_idx">>, {"s3"}, 1),
      Kernel("add_expert", at, <<"moe_wt", "s3", "dmo">>, {"dmo"}, 1)>>

MoeSharedTail(at) ==
    SharedAct(at, 1) \o PlainGemv("moe_shared_down", at, "s2", "s3", 1)
    \o (IF net.resident
        THEN <<Kernel("accum_sg", at, <<"moe_wt", "exp_dn", "dsg", "s3">>, {"dmo"}, 1)>>
        ELSE <<Kernel("shared_add", at, <<"dmo", "dsg", "s3">>, {"dmo"}, 1)>>)

MoeFfn(il) ==
    LET at == 2 * il + 1 IN
    MoeMultiGate(at, "dxn", 1) \o MoeTopk(at, 1)
    \o (IF net.resident THEN ExpertsBatch(at) ELSE <<ZeroDev("dmo")>> \o ExpertsStreaming(at))
    \o MoeSharedTail(at)

(* Several rows: grouped by expert, over packed experts where there are    *)
(* some, or each row with its own.                                         *)
MarlinMoe(at, x, out, t) ==
    <<Convert(x, "dxp", t), Convert("moe_gslot", "moe_msorted", t),
      Kernel("gate_grp", at, <<"dxp", "moe_msorted">>, {"moe_mc13_gate"}, t),
      Kernel("up_grp", at, <<"dxp", "moe_msorted">>, {"moe_mc13_up"}, t),
      Kernel("exps_ew", at, <<"moe_mc13_gate", "moe_mc13_up">>, {"moe_mact"}, t),
      Kernel("down_wt", at, <<"moe_mact", "moe_msorted", "moe_wt">>, {"moe_mc2"}, t),
      Kernel("topk_sum", at, <<"moe_mc2">>, {out}, t)>>

MoeExpertsT(at, x, out, t, grouped) ==
    (IF grouped
     THEN <<Convert(x, "dxp", t),
            Kernel("gate_grp", at, <<"dxp", "moe_gslot">>, {"exp_gate"}, t),
            Kernel("up_grp", at, <<"dxp", "moe_gslot">>, {"exp_up"}, t),
            Kernel("exps_ew", at, <<"exp_gate", "exp_up">>, {"exp_act"}, t),
            Convert("exp_act", "dxp", t),
            Kernel("down_grp", at, <<"dxp", "moe_gslot">>, {"exp_dn"}, t)>>
     ELSE <<Kernel("gate_exps", at, <<x, "moe_idx">>, {"exp_gate"}, t),
            Kernel("up_exps", at, <<x, "moe_idx">>, {"exp_up"}, t),
            Kernel("exps_ew", at, <<"exp_gate", "exp_up">>, {"exp_act"}, t),
            Kernel("down_exps", at, <<"exp_act", "moe_idx">>, {"exp_dn"}, t)>>)
    \o <<Kernel("accum", at, <<"moe_wt", "exp_dn">>, {out}, t)>>

(* The shared expert on the second stream, between two events. *)
MoeSharedFork(at, t) ==
    <<Record(<<at, "fork">>)>>
    \o Aux(<<Wait(<<at, "fork">>)>> \o SharedAct(at, t)
           \o PlainGemv("moe_shared_down", at, "s2", "s3", t) \o <<Record(<<at, "join">>)>>)

(* What it would be without the wait. *)
MoeSharedTailUnjoined(at, t) ==
    (IF net.fork THEN <<>>
     ELSE SharedAct(at, t) \o PlainGemv("moe_shared_down", at, "s2", "s3", t))
    \o <<Kernel("shared_add", at, <<"dmo", "dsg", "s3">>, {"dmo"}, t)>>

MoeSharedTailT(at, t) ==
    (IF net.fork THEN <<Wait(<<at, "join">>)>>
     ELSE SharedAct(at, t) \o PlainGemv("moe_shared_down", at, "s2", "s3", t))
    \o <<Kernel("shared_add", at, <<"dmo", "dsg", "s3">>, {"dmo"}, t)>>

MoeSharedT(at, x, t) ==
    PlainGemm("moe_shared_gate", at, x, "s0", t) \o PlainGemm("moe_shared_up", at, x, "s1", t)
    \o <<Kernel("shared_ew", at, <<"s0", "s1">>, {"s2"}, t)>>
    \o PlainGemm("moe_shared_down", at, "s2", "s3", t)
    \o PlainGemm("moe_shared_sgate", at, x, "drt", t)
    \o <<Kernel("shared_add", at, <<"dmo", "drt", "s3">>, {"dmo"}, t)>>

MoeFfnT(il, x, t) ==
    LET at == 2 * il + 1
        fused == t <= Small
        grouped == t > Small \/ net.resident
    IN (IF fused THEN MoeMultiGate(at, x, t) ELSE PlainGemm("moe_gate", at, x, "drt", t))
       \o (IF fused /\ net.fork THEN MoeSharedFork(at, t) ELSE <<>>)
       \o MoeTopk(at, t)
       \o (IF grouped THEN <<Kernel("group", at, <<"moe_idx">>, {"moe_gslot"}, t)>> ELSE <<>>)
       \o (IF grouped /\ net.moeMarlin THEN MarlinMoe(at, x, "dmo", t)
          ELSE MoeExpertsT(at, x, "dmo", t, grouped))
       \o (IF fused THEN MoeSharedTailT(at, t) ELSE MoeSharedT(at, x, t))

=============================================================================
