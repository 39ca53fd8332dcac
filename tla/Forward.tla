------------------------------ MODULE Forward ------------------------------
(***************************************************************************)
(* A pass of the decoder over the layers of a shard: one token of a slot   *)
(* (launched or replayed from a captured graph), one token of several      *)
(* slots, or a stretch of a prompt.  The host puts the whole pass on the   *)
(* stream and waits; the kernels of a second stream run beside it.         *)
(***************************************************************************)
EXTENDS Launches, Streams

---------------------------------------------------------------------------
(* chain_device_body: one row through the window. *)
MixSingle(slot, start, il, captured) ==
    LET at == 2 * il
        w == IF Attends(il) THEN "attn_output" ELSE "ssm_out"
        branch == IF Attends(il) THEN "doutv" ELSE "dgate"
    IN (IF HasSkGroup(il, 0) THEN SkMulti(il, 0, "dx16")
        ELSE GemvMulti(il, 0, IF net.plain THEN "dxn" ELSE "dx32", 1))
       \o (IF Attends(il) THEN AttnRun(slot, start, il, 1, captured) ELSE GdnRun(slot, il, Gi(il), "dxn", 1))
       \o (IF net.plain THEN PlainGemv(w, at, branch, "dy", 1)
           ELSE IF Packed(w) THEN SkSingle(w, at, "dx16", "dy")
           ELSE GemvLaunch(w, at, "dx32", "dy"))

FfnSingle(il) ==
    LET at == 2 * il + 1 IN
    IF net.plain THEN MoeFfn(il)
    ELSE (IF HasSkGroup(il, 1) THEN SkMulti(il, 1, "dx16") ELSE GemvMulti(il, 1, "dx32", 1))
         \o EwFused(at, 1)
         \o (IF Packed("ffn_down") THEN SkSingle("ffn_down", at, "dx16", "s3")
             ELSE GemvLaunch("ffn_down", at, "dx32", "s3"))

(* Where the branch of the layer before il is. *)
Branch(il) == IF il = net.from THEN "dab_dev" ELSE IF net.plain THEN "dmo" ELSE "s3"

ChainBody(slot, start, captured) ==
    Concat([i \in DOMAIN Window |->
       LET il == Window[i] IN
       NormResid(2 * il, Branch(il), 1, ~net.plain) \o MixSingle(slot, start, il, captured)
       \o NormResid(2 * il + 1, "dy", 1, TRUE) \o FfnSingle(il)])
    \o (IF Final THEN NormResid(2 * Layers, Branch(net.to), 1, FALSE)
        ELSE <<Axpy(2 * net.to, Branch(net.to), "dres", 1)>>)

(* What is read of one row: its norm (the residual before the last shard), *)
(* its logits or its token.                                                *)
ReadOne(out) ==
    CASE out = "xn" -> <<ReadBack(IF Final THEN "dxn" ELSE "dres", 1)>>
      [] out = "logits" -> HeadGemv("dxn", "head_out", 1) \o <<ReadBack("head_out", 1)>>
      [] out = "tok" -> HeadGemv("dxn", "head_out", 1) \o Argmax("head_out", "argmax_out", 1)
                        \o <<ReadBack("argmax_out", 1)>>

---------------------------------------------------------------------------
(* batch_launch: one row of each of several slots. *)
BatchRows(slots) ==
    [tab \in {"blk", "pp", "ring", "st", "sc"} |-> slots]

MixBatch(il, t) ==
    LET w == IF Attends(il) THEN "attn_output" ELSE "ssm_out"
        x == IF net.plain THEN "dxn" ELSE "dx32"
        segs == Segments(il, 0)
    IN (IF ~net.plain /\ net.only
        THEN Concat([i \in DOMAIN segs |-> LinForward("Gemm", segs[i][1], 2 * il, x, segs[i][2], t)])
        ELSE GemvMulti(il, 0, x, t))
       \o (IF Attends(il) THEN AttnBatch(il, t) ELSE GdnBatch(il, Gi(il), t))
       \o LinForward("GemvT", w, 2 * il,
                     IF ~net.plain THEN "dx32" ELSE IF Attends(il) THEN "doutv" ELSE "dgate",
                     "dyt", t)

FfnBatch(il, t) ==
    LET segs == Segments(il, 1) IN
    IF net.plain THEN MoeFfnT(il, "dxn", t)
    ELSE (IF net.only
          THEN Concat([i \in DOMAIN segs |->
                         LinForward("Gemm", segs[i][1], 2 * il + 1, "dx32", segs[i][2], t)])
          ELSE GemvMulti(il, 1, "dx32", t))
         \o EwFused(2 * il + 1, t) \o LinForward("GemvT", "ffn_down", 2 * il + 1, "dx32", "s3", t)

BatchBody(t) ==
    Concat([i \in DOMAIN Window |->
       LET il == Window[i] IN
       NormResid(2 * il, Branch(il), t, ~net.plain) \o MixBatch(il, t)
       \o NormResid(2 * il + 1, "dyt", t, TRUE) \o FfnBatch(il, t)])
    \o NormResid(2 * Layers, Branch(net.to), t, FALSE)
    \o HeadGemv("dxn", "dbatch_lg", t) \o Argmax("dbatch_lg", "dbatch_am", t)

---------------------------------------------------------------------------
(* chain_t_sel: t rows of one slot. *)
MixChain(slot, start, il, t, captured) ==
    LET path == IF t <= Small THEN "GemvT" ELSE "Gemm"
        w == IF Attends(il) THEN "attn_output" ELSE "ssm_out"
        x == IF net.plain THEN "dxn" ELSE "dx32"
        segs == Segments(il, 0)
    IN (IF path = "GemvT" /\ ~net.only THEN GemvMulti(il, 0, x, t)
        ELSE Concat([i \in DOMAIN segs |-> LinForward(path, segs[i][1], 2 * il, x, segs[i][2], t)]))
       \o (IF Attends(il) THEN AttnRun(slot, start, il, t, captured) ELSE GdnRun(slot, il, Gi(il), "dxn", t))
       \o LinForward(path, w, 2 * il,
                     IF ~net.plain THEN "dx32" ELSE IF Attends(il) THEN "doutv" ELSE "dgate",
                     "dyt", t)

FfnChain(il, t) ==
    LET path == IF t <= Small THEN "GemvT" ELSE "Gemm"
        segs == Segments(il, 1)
    IN IF net.plain THEN MoeFfnT(il, "dxn", t)
       ELSE (IF path = "GemvT" /\ ~net.only THEN GemvMulti(il, 1, "dx32", t)
             ELSE Concat([i \in DOMAIN segs |->
                            LinForward(path, segs[i][1], 2 * il + 1, "dx32", segs[i][2], t)]))
            \o EwFused(2 * il + 1, t) \o LinForward(path, "ffn_down", 2 * il + 1, "dx32", "s3", t)

(* What is read of t rows: all their logits or tokens, or what is left of  *)
(* the last one, which alone gets its final norm.                          *)
ReadChain(out, t) ==
    LET ab == Branch(net.to) IN
    CASE out = "all_logits" ->
           NormResid(2 * Layers, ab, t, FALSE)
           \o (IF t > Small
               THEN [r \in 1..t |-> KernelRows("output", 2 * Layers, <<"dxn">>, {"dbatch_lg"}, r, r, r)]
               ELSE HeadGemv("dxn", "dbatch_lg", t))
           \o <<ReadBack("dbatch_lg", t)>>
      [] out = "all_toks" ->
           NormResid(2 * Layers, ab, t, FALSE) \o HeadGemv("dxn", "dbatch_lg", t)
           \o Argmax("dbatch_lg", "dbatch_am", t) \o <<ReadBack("dbatch_am", t)>>
      [] OTHER ->
           IF Final
           THEN <<Norm(2 * Layers, "dres", ab, {"dxn"}, t, t, 1)>> \o ReadOne(out)
           ELSE <<Axpy(2 * net.to, ab, "dres", t), ReadBack("dres", t)>>

ChainT(slot, start, t, out, captured) ==
    Concat([i \in DOMAIN Window |->
       LET il == Window[i] IN
       NormResid(2 * il, Branch(il), t, ~net.plain) \o MixChain(slot, start, il, t, captured)
       \o NormResid(2 * il + 1, "dyt", t, TRUE) \o FfnChain(il, t)])
    \o ReadChain(out, t)

---------------------------------------------------------------------------
(* The calls.  A pass is put on the streams; the host counts its slots on  *)
(* when it is over.  The callers keep the slots within the context.        *)
Wanted(out, rows) ==
    LET of == CASE out \in {"logits", "all_logits"} -> "logits"
                [] out \in {"tok", "all_toks"} -> "tok"
                [] out = "xn" -> IF Final THEN "nrm" ELSE "res"
    IN Values(of, 2 * net.to, rows)

GraphOk == ~net.plain \/ net.resident

(* forward_device, forward_device_head and forward_device_argmax. *)
DirectRun(slot, start, out) ==
    <<FromHost("dres", <<EmbedRow(slot, start)>>)>> \o ChainBody(slot, start, FALSE)
    \o ReadOne(out) \o <<SetPos(slot :> start + 1)>>

ForwardDirect(slot, out) ==
    LET start == hpos[slot] IN
    /\ start < Ctx /\ (out # "xn" => Final)
    /\ OnStreams(DirectRun(slot, start, out), slot :> start + 1, Wanted(out, <<<<slot, start>>>>))

(* graph_replay: the position goes to the device first, the graph copies   *)
(* the row from where the host left it.                                    *)
ForwardReplay(slot, out) ==
    LET start == hpos[slot] IN
    /\ GraphOk /\ start < Ctx /\ (out # "xn" => Final)
    /\ OnStreams(<<SetPos(slot :> start), FromHost("dres", <<EmbedRow(slot, start)>>)>>
            \o ChainBody(slot, start, TRUE) \o ReadOne(out),
            slot :> start + 1, Wanted(out, <<<<slot, start>>>>))

(* forward_device_argmax_batch, and batch_read_logits after it. *)
ForwardBatch(slots, out) ==
    LET t == Len(slots)
        rows == [r \in 1..t |-> <<slots[r], hpos[slots[r]]>>]
    IN /\ t \in 2..Small /\ Final /\ (net.plain => net.resident)
       /\ \A r \in 1..t : hpos[slots[r]] < Ctx
       /\ OnStreams(<<FromHost("dres", [r \in 1..t |-> EmbedRow(rows[r][1], rows[r][2])]),
                 SetPos(hpos), SetRows(BatchRows(slots))>> \o BatchBody(t)
               \o <<ReadBack(IF out = "tok" THEN "dbatch_am" ELSE "dbatch_lg", t)>>,
               [s \in {slots[r] : r \in 1..t} |-> hpos[s] + 1], Wanted(out, rows))

(* chain_t_sel with the rows given, or with tokens it looks up itself. *)
ChainRun(slot, start, t, out, toks) ==
    LET Place(r) == <<slot, start + r - 1>> IN
    (IF toks THEN <<FromHost("dtg", [r \in 1..t |-> Val("token", 0, Place(r))]),
                    Kernel("token_embd", 0, <<"dtg">>, {"dres"}, t)>>
     ELSE <<FromHost("dres", [r \in 1..t |-> EmbedRow(slot, start + r - 1)])>>)
    \o ChainT(slot, start, t, out, FALSE) \o <<SetPos(slot :> start + t)>>

ForwardChain(slot, t, out, toks) ==
    LET start == hpos[slot]
        all == out \in {"all_logits", "all_toks"}
        rows == IF all \/ ~Final THEN [r \in 1..t |-> <<slot, start + r - 1>>]
                ELSE <<<<slot, start + t - 1>>>>
    IN /\ start + t <= Ctx /\ (out # "xn" => Final)
       /\ toks => net.from = 0 /\ ~all
       /\ out = "tok" => toks
       /\ OnStreams(ChainRun(slot, start, t, out, toks), slot :> start + t, Wanted(out, rows))

(* spec_verify, launched or replayed. *)
VerifyRun(slot, start, t, replay) ==
    (IF replay THEN <<SetPos(slot :> start)>> ELSE <<>>)
    \o <<FromHost("dres", [r \in 1..t |-> EmbedRow(slot, start + r - 1)])>>
    \o ChainT(slot, start, t, "all_toks", replay)
    \o (IF replay THEN <<>> ELSE <<SetPos(slot :> start + t)>>)

SpecVerify(slot, t, replay) ==
    LET start == hpos[slot]
        rows == [r \in 1..t |-> <<slot, start + r - 1>>]
    IN /\ net.spec /\ Final /\ t \in 2..Small /\ start + t <= Ctx
       /\ OnStreams(VerifyRun(slot, start, t, replay), slot :> start + t, Wanted("tok", rows))

(* decode_k_greedy: k times the same graph, which looks up the token it    *)
(* chose before and counts the position on, as long as no token ends the   *)
(* answer.                                                                 *)
KStepRun(slot, start, k) ==
    <<FromHost("argmax_out", <<Val("tok", 2 * Layers, <<slot, start - 1>>)>>), SetPos(slot :> start)>>
    \o Concat([i \in 1..k |->
          <<Follow("argmax_out", "tok", 2 * Layers, "dres", "res", 0)>>
          \o ChainBody(slot, start + i - 1, TRUE) \o ReadOne("tok") \o <<SetPos(slot :> start + i)>>])

KStep(slot, k) ==
    LET start == hpos[slot] IN
    /\ GraphOk /\ net.from = 0 /\ Final
    /\ start > 0 /\ start + k <= Ctx
    /\ OnStreams(KStepRun(slot, start, k), slot :> start + k,
                 Wanted("tok", [r \in 1..k |-> <<slot, start + r - 1>>]))

(* What a slot held before is nothing to the next conversation. *)
ResetState(slot) ==
    /\ Quiet /\ want = <<>> /\ hpos[slot] > 0
    /\ hpos' = [hpos EXCEPT ![slot] = 0]
    /\ dev' = [dev EXCEPT !.dpp[slot] = 0,
                          !.reg = [x \in DOMAIN @ |-> IF x[2] = slot THEN 0 ELSE @[x]],
                          !.kv = [x \in DOMAIN @ |-> IF x[1] = slot THEN Junk ELSE @[x]]]
    /\ UNCHANGED <<net, main, aux, want>>

ForwardNext ==
    \/ \E slot \in Lane :
         \/ \E out \in {"xn", "logits", "tok"} : ForwardDirect(slot, out) \/ ForwardReplay(slot, out)
         \/ \E t \in 2..TMax, out \in {"xn", "logits", "tok", "all_logits"}, toks \in BOOLEAN :
              ForwardChain(slot, t, out, toks)
         \/ \E t \in 2..Small, replay \in BOOLEAN : SpecVerify(slot, t, replay)
         \/ \E k \in 2..Small : KStep(slot, k)
         \/ ResetState(slot)
    \/ \E a, b \in Lane, out \in {"tok", "logits"} : a # b /\ ForwardBatch(<<a, b>>, out)
    \/ StreamsNext

ForwardSpec == StreamsInit /\ [][ForwardNext]_streamVars

=============================================================================
