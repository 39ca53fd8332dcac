------------------------------- MODULE FnPass -------------------------------
(***************************************************************************)
(* A pass of the FN model (crates/core/src/qwen4exp): rows of one text,    *)
(* one stretch after the other.  A token has several residual streams; one *)
(* cycle mixes them into the norm a sublayer reads, and the branch is      *)
(* written back into each.  One layer adds embeddings of the last tokens,  *)
(* smoothed by a convolution whose state outlives the pass.                *)
(***************************************************************************)
EXTENDS Launches, Streams

(***************************************************************************)
(* ple_init: the slots whose convolution has a state.  A net of FN adds    *)
(* the layer with embeddings (ple), the indexer of its attention, if it    *)
(* has one (qsa), and no spec: it never looks ahead.                       *)
(***************************************************************************)
VARIABLE ple_init

PleIn(il) == net.ple = il

---------------------------------------------------------------------------
(* fn_hc_cycle: the norm x of the sublayer, and inj, how much of its       *)
(* branch goes to each stream; fn_hc_write puts the branch y back.         *)
HcCycle(at, t) ==
    <<Kernel(IF at = 2 * net.ple THEN "ple_norm" ELSE "hc_norm", at, <<"r">>, {"xn"}, t)>>
    \o PlainGemm("hc_dn", at, "xn", "lora", t) \o <<Kernel("hc_silu", at, <<"lora">>, {"lora"}, t)>>
    \o PlainGemm("hc_up", at, "lora", "g", t) \o <<Kernel("hc_mix", at, <<"xn", "g">>, {"x"}, t)>>
    \o PlainGemm("hc_inj", at, "xn", "inj", t)

HcWrite(at, t) ==
    <<Kernel(IF at = 2 * net.ple THEN "ple_write" ELSE "hc_write", at, <<"r", "y", "inj">>, {"r"}, t)>>

(* The embeddings: without a state the convolution begins with zeros, and  *)
(* leaves one behind.                                                      *)
Ple(slot, il, t) ==
    LET at == 2 * il IN
    PlainGemm("ple_kv", at, "ple_e", "ple_k", t)
    \o <<Kernel("ple_gate", at, <<"ple_k", "r">>, {"ple_gd"}, t),
         Kernel("ple_nm", at, <<"ple_k", "r">>, {"ple_nm"}, t)>>
    \o (IF ple_init[slot] THEN <<>> ELSE <<Forget(<<"ple", slot, 0>>)>>)
    \o <<Scan("ple_conv", "ple", slot, at, 0, <<"ple_nm", "ple_gd", "r">>, {"r"}, FALSE, t),
         Scan("ple_wb", "ple", slot, at, 0, <<"ple_nm">>, {}, TRUE, t)>>

(* Attention over the rows the host chose from what the indexer gave.  The *)
(* position on the device is left as it is.                                *)
AttnQsa(slot, il, t) ==
    LET at == 2 * il IN
    <<Prep(slot, at, Attn(il), <<"s0", "s1", "s1b">>, t),
      [Attend(slot, at, Attn(il), <<"dqh", "sel">>, {"dattn_part"}, t) EXCEPT !.rule = "sparse"],
      Kernel("merge", at, <<"dattn_part", "s0">>, {"doutv", "dx32", "dx16"}, t)>>

MixFn(slot, start, il, t) ==
    LET at == 2 * il
        qkv == Concat([i \in DOMAIN Segments(il, 0) |->
                         PlainGemm(Segments(il, 0)[i][1], at, "x", Segments(il, 0)[i][2], t)])
    IN (IF net.qsa /\ Attends(il)
        THEN PlainGemm("idx_qk", at, "x", "g", t) \o <<Kernel("select", at, <<"g">>, {"sel"}, t)>>
             \o qkv \o AttnQsa(slot, il, t)
        ELSE IF Attends(il) THEN qkv \o AttnRun(slot, start, il, t, FALSE)
        ELSE qkv \o GdnRun(slot, il, Gi(il), "x", t))
       \o PlainGemm(IF Attends(il) THEN "attn_output" ELSE "ssm_out", at,
                    IF Attends(il) THEN "doutv" ELSE "dgate", "y", t)

LayerFn(slot, start, il, t) ==
    (IF PleIn(il) THEN Ple(slot, il, t) ELSE <<>>)
    \o HcCycle(2 * il, t) \o MixFn(slot, start, il, t) \o HcWrite(2 * il, t)
    \o HcCycle(2 * il + 1, t) \o MoeFfnT(il, "x", t) \o <<Convert("dmo", "y", t)>>
    \o HcWrite(2 * il + 1, t)

(* fn_chain_logits: the logits of all rows, of a decoder with all layers   *)
(* and no indexer; fn_head: of the last row, which the caller has read and *)
(* gives back.                                                             *)
HeadFn(out, t) ==
    HcCycle(2 * Layers, t)
    \o (IF out = "all" THEN PlainGemm("output", 2 * Layers, "x", "dy", t) \o <<ReadBack("dy", t)>>
        ELSE <<[Convert("x", "dx", t) EXCEPT !.from = t]>> \o PlainGemv("output", 2 * Layers, "dx", "dy", 1)
             \o <<ReadBack("dy", 1)>>)

(* fn_stage, or fn_stage_r for the shard after another one. *)
StageFn(rows, t) ==
    IF net.from = 0
    THEN <<FromHost("x", Values("emb", 0, rows)), FromHost("ple_e", Values("pe", 2 * net.ple, rows)),
           Kernel("hc_init", 0, <<"x">>, {"r"}, t)>>
    ELSE <<FromHost("r", Values("res", 2 * net.from, rows)), Convert("r", "r", t)>>

---------------------------------------------------------------------------
FnInit == StreamsInit /\ ple_init = [s \in Lane |-> FALSE]

(***************************************************************************)
(* fn_chain_run_inner and its callers.  A tool runs one text in one slot   *)
(* from its beginning.  With an indexer it is a text of one stretch: the   *)
(* position on the device is still that of the beginning.                  *)
(***************************************************************************)
FnChain(slot, t, out) ==
    LET start == hpos[slot]
        rows == [r \in 1..t |-> <<slot, start + r - 1>>]
        body == StageFn(rows, t) \o Concat([i \in DOMAIN Window |-> LayerFn(slot, start, Window[i], t)])
    IN /\ start + t <= Ctx
       /\ \A s \in Lane \ {slot} : hpos[s] = 0
       /\ net.qsa => start = 0
       /\ out = "all" => Final /\ net.from = 0 /\ ~net.qsa
       /\ IF Final
          THEN OnStreams(body \o HeadFn(out, t), slot :> start + t,
                         Values("logits", 2 * Layers, IF out = "all" THEN rows ELSE <<rows[t]>>))
          ELSE OnStreams(body \o <<ReadBack("r", t)>>, slot :> start + t,
                         Values("res", 2 * net.to, rows))
       /\ ple_init' = [ple_init EXCEPT ![slot] = @ \/ net.ple \in net.from..(net.to - 1)]

(* The next text is run by a decoder of its own. *)
FnAnew ==
    /\ Quiet /\ want = <<>> /\ \E s \in Lane : hpos[s] > 0
    /\ dev' = NewDevice /\ hpos' = [s \in Lane |-> 0]
    /\ ple_init' = [s \in Lane |-> FALSE]
    /\ UNCHANGED <<net, main, aux, want>>

FnNext ==
    \/ \E slot \in Lane, t \in 1..TMax, out \in {"all", "last"} : FnChain(slot, t, out)
    \/ FnAnew
    \/ StreamsNext /\ UNCHANGED ple_init

FnSpec == FnInit /\ [][FnNext]_<<streamVars, ple_init>>

=============================================================================
