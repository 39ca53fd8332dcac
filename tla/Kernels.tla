------------------------------ MODULE Kernels ------------------------------
(***************************************************************************)
(* What a kernel of the decoder does to the device, as far as it matters   *)
(* which value a buffer holds: the queries of layer 3 for position 7 of    *)
(* slot 1, say, not the numbers.  The reference (crates/core/src/qwen35)   *)
(* says which value follows from which; a kernel that is given anything    *)
(* else yields junk.  The caches of keys and values, the convolution rings *)
(* and the recurrent states live on between the passes, the buffers do     *)
(* not: nothing may be read that this pass did not write.                  *)
(***************************************************************************)
EXTENDS Integers, Sequences, FiniteSets, TLC

CONSTANTS
  Lane,       \* slots of the decoder
  Ctx,        \* positions of a slot
  TMax        \* rows of a buffer (CHAIN_TMAX, G4_CHUNK_MAX)

ASSUME KernelAssumption ==
  0 \notin Lane /\ Ctx \in Nat \ {0} /\ TMax \in Nat \ {0}

(***************************************************************************)
(* The net: a record whose fields each kind of decoder adds to.  All have  *)
(* layers, of which every interval-th attends and the others are           *)
(* recurrent, the layers from .. to - 1 that this decoder has, and mtp,    *)
(* whether a draft head with a cache of its own comes behind them.         *)
(***************************************************************************)
VARIABLE net

Layers == net.layers
Interval == net.interval
Attends(il) == (il + 1) % Interval = 0
Attn(il) == il \div Interval
RecurrentBefore(il) == Cardinality({j \in 0..(il - 1) : ~Attends(j)})

(***************************************************************************)
(* A value: what it is, the sublayer it belongs to (2 il for the mixing of *)
(* layer il, 2 il + 1 for its feed-forward, 2 Layers for the final norm)   *)
(* and the slot and position of its row.                                   *)
(***************************************************************************)
Val(of, at, row) == [of |-> of, at |-> at, row |-> row]
Junk == Val("junk", 0, <<0, 0>>)
Zero == Val("zero", 0, <<0, 0>>)

(***************************************************************************)
(* The reference: the value a step makes, and of what.                     *)
(***************************************************************************)
R(in, out) == [in |-> in, out |-> out, by |-> 0]

(* One whose result belongs to the next sublayer. *)
Step(in, out) == [R(in, out) EXCEPT !.by = 1]

AttnRules ==
    [attn_q |-> R(<<"nrm">>, "q"), attn_k |-> R(<<"nrm">>, "k"), attn_v |-> R(<<"nrm">>, "v"),
     rope |-> R(<<"q">>, "qh"), kvrow |-> R(<<"k", "v">>, "kvrow"),
     score |-> R(<<"qh">>, "score"), merge |-> R(<<"score", "q">>, "mix"),
     attn_output |-> R(<<"mix">>, "br")]

GdnRules ==
    [attn_qkv |-> R(<<"nrm">>, "qkv"), attn_gate |-> R(<<"nrm">>, "z"),
     conv |-> R(<<"qkv">>, "cqkv"), l2perm |-> R(<<"cqkv", "nrm">>, "gin"),
     part |-> R(<<"gin">>, "gpart"), delta |-> R(<<"gin", "gpart">>, "gdc"),
     comb |-> R(<<"gin", "gpart">>, "core"), upd |-> R(<<"gin", "gdc">>, "none"),
     akq |-> R(<<"gin">>, "akq"), wu |-> R(<<"gin", "akq">>, "wu"),
     chunk_h |-> R(<<"gin", "wu">>, "h"), chunk_o |-> R(<<"gin", "akq", "h">>, "core"),
     spec_scan |-> R(<<"gin">>, "core"), gate |-> R(<<"core", "z">>, "mix"),
     ssm_out |-> R(<<"mix">>, "br")]

FfnRules ==
    [ffn_gate |-> R(<<"nrm">>, "gate"), ffn_up |-> R(<<"nrm">>, "up"),
     ew |-> R(<<"gate", "up">>, "act"), ffn_down |-> R(<<"act">>, "br"),
     token_embd |-> R(<<"token">>, "res"),
     output |-> R(<<"nrm">>, "logits"), argmax |-> R(<<"logits">>, "tok")]

MoeRules ==
    [moe_gate |-> R(<<"nrm">>, "rt"), topk |-> R(<<"rt">>, "idx"), weigh |-> R(<<"rt">>, "wt"),
     group |-> R(<<"idx">>, "grp"),
     gate_exps |-> R(<<"nrm", "idx">>, "eg"), up_exps |-> R(<<"nrm", "idx">>, "eu"),
     gate_grp |-> R(<<"nrm", "grp">>, "eg"), up_grp |-> R(<<"nrm", "grp">>, "eu"),
     glu |-> R(<<"nrm", "idx">>, "ea"), exps_ew |-> R(<<"eg", "eu">>, "ea"),
     down_exps |-> R(<<"ea", "idx">>, "ed"), down_grp |-> R(<<"ea", "grp">>, "ed"),
     down_wt |-> R(<<"ea", "grp", "wt">>, "wed"), topk_sum |-> R(<<"wed">>, "moe"),
     accum |-> R(<<"wt", "ed">>, "moe"), add_expert |-> R(<<"wt", "ed", "zero">>, "moe"),
     moe_shared_gate |-> R(<<"nrm">>, "sg"), moe_shared_up |-> R(<<"nrm">>, "su"),
     shared_ew |-> R(<<"sg", "su">>, "sact"), moe_shared_down |-> R(<<"sact">>, "sd"),
     moe_shared_sgate |-> R(<<"nrm">>, "sgt"),
     shared_add |-> R(<<"moe", "sgt", "sd">>, "br"),
     accum_sg |-> R(<<"wt", "ed", "sgt", "sd">>, "br")]

(* Gemma: attention over keys and values that have a norm of their own,    *)
(* then a dense and an expert branch of one residual, each with its norms. *)
GemmaAttnRules ==
    [flash |-> R(<<"qh">>, "mix"), parts |-> R(<<"score">>, "mix")]

GemmaRouteRules ==
    [router_norm |-> R(<<"res">>, "rn"), router |-> R(<<"rn">>, "rt"),
     raw_weigh |-> R(<<"rt">>, "raw"), pes_scale |-> R(<<"raw", "idx">>, "wt")]

GemmaDenseRules ==
    [dense_gate |-> R(<<"nd">>, "gate"), dense_up |-> R(<<"nd">>, "up")]

GemmaRules == GemmaAttnRules @@ GemmaRouteRules @@ GemmaDenseRules @@
    [attn_norm |-> R(<<"res">>, "nrm"), post_attn_norm |-> R(<<"br">>, "hh"),
     attn_add |-> Step(<<"res", "hh">>, "res"), pre_ff_norm |-> R(<<"res">>, "nd"),
     post_ff_norm1 |-> R(<<"br">>, "h1"), pre_ff_norm2 |-> R(<<"res">>, "nrm"),
     post_ff_norm2 |-> R(<<"moe">>, "h2"), ffn_merge |-> R(<<"h1", "h2">>, "mrg"),
     post_ff_norm |-> R(<<"mrg">>, "hf"), ffn_add |-> R(<<"res", "hf">>, "sum"),
     layer_scalar |-> Step(<<"sum">>, "res"), output_norm |-> R(<<"res">>, "nrm")]

(* FN: the four residual streams of one token, mixed into a norm and       *)
(* written back, the embeddings of the last tokens that a layer adds to    *)
(* them, and attention over the rows an indexer selects.                   *)
HcRules ==
    [hc_norm |-> R(<<"res">>, "rn"), hc_dn |-> R(<<"rn">>, "down"),
     hc_silu |-> R(<<"down">>, "lora"), hc_up |-> R(<<"lora">>, "hg"),
     hc_mix |-> R(<<"rn", "hg">>, "nrm"), hc_inj |-> R(<<"rn">>, "inj")]

PleRules ==
    [ple_kv |-> R(<<"pe">>, "pk"), ple_gate |-> R(<<"pk", "res">>, "pgd"),
     ple_nm |-> R(<<"pk", "res">>, "pnm"), ple_conv |-> R(<<"pnm", "pgd", "res">>, "pres"),
     ple_wb |-> R(<<"pnm">>, "none"), ple_norm |-> R(<<"pres">>, "rn"),
     ple_write |-> Step(<<"pres", "br", "inj">>, "res")]

IndexRules ==
    [idx_qk |-> R(<<"nrm">>, "iq"), select |-> R(<<"iq">>, "sel"),
     sparse |-> R(<<"qh", "sel">>, "score")]

FnRules == HcRules @@ PleRules @@ IndexRules @@
    [hc_init |-> R(<<"emb">>, "res"), hc_write |-> Step(<<"res", "br", "inj">>, "res")]

(* The draft head of Qwen (MTP): the hidden row of a position joined with  *)
(* the embedding of the token after it, then a layer of its own.           *)
DraftRules ==
    [hidden |-> Step(<<"res">>, "hid"), mtp_norm_e |-> R(<<"emb">>, "ne"),
     mtp_norm_h |-> R(<<"hid">>, "nh"), mtp_cat |-> R(<<"ne", "nh">>, "cat"),
     mtp_fc |-> R(<<"cat">>, "fc"), mtp_start |-> R(<<"fc", "zero">>, "r0"),
     mtp_norm |-> R(<<"r0">>, "nrm"), mtp_add_attn |-> R(<<"br", "r0">>, "r1"),
     mtp_norm_ffn |-> R(<<"r1">>, "nf"), mtp_gate |-> R(<<"nf">>, "gate"),
     mtp_up |-> R(<<"nf">>, "up"), mtp_down |-> R(<<"act">>, "dn"),
     mtp_add_ffn |-> R(<<"dn", "r1">>, "r2"), mtp_norm_out |-> R(<<"r2">>, "mx"),
     mtp_head |-> R(<<"mx">>, "logits")]

Rule == AttnRules @@ GdnRules @@ FfnRules @@ MoeRules @@ GemmaRules @@ FnRules @@ DraftRules

(***************************************************************************)
(* The device: its buffers, the rows of keys and values by slot, attending *)
(* layer and position, the position each ring and recurrent state has      *)
(* reached (NoState when it is spoiled), the positions of the slots, the   *)
(* row tables of a batch, the events recorded and what was copied back.    *)
(***************************************************************************)
Position == 0..(Ctx - 1)
NoState == -1

Planes == IF net.mtp THEN Attn(Layers) + 1 ELSE Attn(Layers)

NewDevice ==
    [mem |-> <<>>,
     kv |-> [x \in Lane \X (0..(Planes - 1)) \X Position |-> Junk],
     reg |-> [x \in ({"ring", "st"} \X Lane \X (0..(RecurrentBefore(Layers) - 1)))
                     \cup ({"ple"} \X Lane \X {0}) |-> 0],
     dpp |-> [s \in Lane |-> 0], rows |-> <<>>, events |-> {}, got |-> <<>>]

At(d, b, r) == IF b \in DOMAIN d.mem THEN d.mem[b][r] ELSE Junk

(* Rows from .. to of the buffers in out become value(row), the first at dst. *)
Write(d, out, from, to, dst, value(_)) ==
    LET v == [r \in from..to |-> value(r)]
        Row(b, r) == IF r \in dst..(dst + to - from) THEN v[r - dst + from] ELSE At(d, b, r)
    IN [d EXCEPT !.mem = [b \in out |-> [r \in 1..TMax |-> Row(b, r)]] @@ d.mem]

(* Whether the inputs of a kernel are what the rule asks for, in row r. *)
Fits(d, o, r) ==
    \A i \in DOMAIN o.in :
       At(d, o.in[i], r) = IF Rule[o.rule].in[i] = "zero" THEN Zero
                           ELSE Val(Rule[o.rule].in[i], o.at, At(d, o.in[1], r).row)

Made(d, o, r) == Val(Rule[o.rule].out, o.at + Rule[o.rule].by, At(d, o.in[1], r).row)

(***************************************************************************)
(* The kernels.  Rows from .. to of the inputs, the first written at dst.  *)
(***************************************************************************)
KernelRows(rule, at, in, out, from, to, dst) ==
    [op |-> "apply", rule |-> rule, at |-> at, in |-> in, out |-> out,
     from |-> from, to |-> to, dst |-> dst]
Kernel(rule, at, in, out, t) == KernelRows(rule, at, in, out, 1, t, 1)

Apply(d, o) ==
    Write(d, o.out, o.from, o.to, o.dst,
          LAMBDA r : IF Fits(d, o, r) THEN Made(d, o, r) ELSE Junk)

(* A change of format: the value stays. *)
Convert(from, to, t) ==
    [op |-> "convert", buf |-> from, out |-> {to}, from |-> 1, to |-> t, dst |-> 1]

(* What the host writes: rows, the positions of slots, the row tables. *)
FromHost(buf, values) == [op |-> "upload", buf |-> buf, values |-> values]
SetPos(at) == [op |-> "pos", pos |-> at]
SetRows(rows) == [op |-> "rows", rows |-> rows]
ZeroDev(buf) == [op |-> "zero", buf |-> buf]
ReadRows(buf, from, to) == [op |-> "read", buf |-> buf, from |-> from, to |-> to]
ReadBack(buf, t) == ReadRows(buf, 1, t)
Record(e) == [op |-> "record", event |-> e]
Wait(e) == [op |-> "wait", event |-> e]

(* A state that the kernels after it take for that of an empty text. *)
Forget(place) == [op |-> "forget", place |-> place]

(* The state of a slot without its last rows (spec_rollback). *)
Rollback(slot, n) == [op |-> "rollback", slot |-> slot, n |-> n]

ApplyRollback(d, o) ==
    LET Mine(x) == /\ x[1] \in {"ring", "st"} /\ x[2] = o.slot /\ d.reg[x] # NoState
                   /\ x[3] \in RecurrentBefore(net.from)..(RecurrentBefore(net.to) - 1)
    IN [d EXCEPT !.reg = [x \in DOMAIN @ |-> IF Mine(x) THEN @[x] - o.n ELSE @[x]]]

(* What follows from row 1 of a buffer one position on: the row of a token *)
(* that was just chosen, or what a draft leaves to the next one.           *)
Follow(buf, of, at, out, as, then) ==
    [op |-> "follow", buf |-> buf, of |-> of, at |-> at, out |-> {out}, as |-> as, then |-> then]

ApplyFollow(d, o) ==
    LET v == At(d, o.buf, 1)
        next == Val(o.as, o.then, <<v.row[1], v.row[2] + 1>>)
    IN Write(d, o.out, 1, 1, 1, LAMBDA r : IF v = Val(o.of, o.at, v.row) THEN next ELSE Junk)

(* A weight that is no longer there. *)
Lost(out) == [op |-> "lost", out |-> out]

(***************************************************************************)
(* The residual norm: x takes up the branch of the sublayer before (zero   *)
(* at the start of a window), and out its norm for sublayer at.            *)
(***************************************************************************)
Norm(at, x, ab, out, from, to, dst) ==
    [op |-> "norm", at |-> at, x |-> x, ab |-> ab, out |-> out,
     from |-> from, to |-> to, dst |-> dst]

Added(d, x, ab, at, r) ==
    LET v == At(d, x, r) IN
    IF \/ v = Val("res", at, v.row) /\ At(d, ab, r) = Zero
       \/ v = Val("res", at - 1, v.row) /\ At(d, ab, r) = Val("br", at - 1, v.row)
    THEN Val("res", at, v.row) ELSE Junk

ApplyNorm(d, o) ==
    LET res(r) == Added(d, o.x, o.ab, o.at, r)
        nrm(r) == IF res(r) = Junk THEN Junk ELSE Val("nrm", o.at, res(r).row)
        e == Write(d, {o.x}, o.from, o.to, o.from, res)
    IN Write(e, o.out, o.from, o.to, o.dst, nrm)

Axpy(at, ab, x, t) == [op |-> "axpy", at |-> at, x |-> x, ab |-> ab, t |-> t]

(***************************************************************************)
(* The slot and the position a row is for: those of the slot of the call,  *)
(* counted on from a base, or for a batch (slot 0) those the row tables    *)
(* point to.                                                               *)
(***************************************************************************)
SlotOf(d, o, tab, r) == IF o.slot = 0 THEN d.rows[tab][r] ELSE o.slot
PosOf(d, o, r) ==
    IF o.slot = 0 THEN d.dpp[d.rows["pp"][r]] ELSE d.dpp[o.base] + r - 1

(* Turns the queries by their position and stores the keys and values,     *)
(* which Gemma may both make of the keys (v is "k").                       *)
Prep(slot, at, ai, in, t) ==
    [op |-> "prep", slot |-> slot, base |-> slot, v |-> "v", at |-> at, ai |-> ai, in |-> in, t |-> t]

ApplyPrep(d, o) ==
    LET q(r) == At(d, o.in[1], r)
        qh(r) == IF q(r) = Val("q", o.at, <<q(r).row[1], PosOf(d, o, r)>>)
                 THEN Val("qh", o.at, q(r).row) ELSE Junk
        kv(r) == LET row == At(d, o.in[2], r).row IN
                 IF /\ At(d, o.in[2], r) = Val("k", o.at, row)
                    /\ At(d, o.in[3], r) = Val(o.v, o.at, row)
                    /\ row[2] = PosOf(d, o, r)
                 THEN Val("kvrow", o.at, row) ELSE Junk
        place(r) == <<SlotOf(d, o, "blk", r), o.ai, PosOf(d, o, r)>>
        stored == [x \in {place(r) : r \in 1..o.t} |-> kv(CHOOSE r \in 1..o.t : place(r) = x)]
    IN [Write(d, {"dqh"}, 1, o.t, 1, qh) EXCEPT !.kv = [x \in DOMAIN d.kv |->
          IF x \in DOMAIN stored THEN stored[x] ELSE d.kv[x]]]

(* Attends over the rows of the slot up to the position of the query, over *)
(* the last of them in a sliding layer (a window other than 0).            *)
Attend(slot, at, ai, in, out, t) ==
    [op |-> "attend", rule |-> "score", slot |-> slot, base |-> slot, window |-> 0,
     at |-> at, ai |-> ai, in |-> in, out |-> out, t |-> t]

ApplyAttend(d, o) ==
    LET Sees(r) ==
          LET row == At(d, o.in[1], r).row
              slot == SlotOf(d, o, "blk", r)
          IN /\ Fits(d, o, r) /\ row = <<slot, PosOf(d, o, r)>>
             /\ \A p \in (IF o.window \in 1..row[2] THEN row[2] + 1 - o.window ELSE 0)..row[2] :
                  d.kv[<<slot, o.ai, p>>] = Val("kvrow", o.at, <<slot, p>>)
    IN Write(d, o.out, 1, o.t, 1, LAMBDA r : IF Sees(r) THEN Made(d, o, r) ELSE Junk)

(***************************************************************************)
(* A kernel that reads a ring or a recurrent state: its rows must follow   *)
(* the position the state has reached, one after the other in a slot and   *)
(* each in its own slot in a batch.  One that advances leaves it behind    *)
(* its last row.                                                           *)
(***************************************************************************)
Scan(rule, kind, slot, at, gi, in, out, advances, t) ==
    [op |-> "scan", rule |-> rule, state |-> kind, slot |-> slot, at |-> at, gi |-> gi,
     in |-> in, out |-> out, advances |-> advances, t |-> t]

ApplyScan(d, o) ==
    LET slot(r) == SlotOf(d, o, o.state, r)
        place(r) == <<o.state, slot(r), o.gi>>
        before(r) == d.reg[place(r)]
        next(r) == before(r) + (IF o.slot = 0 THEN 0 ELSE r - 1)
        Follows(r) == /\ Fits(d, o, r) /\ before(r) # NoState
                      /\ At(d, o.in[1], r).row = <<slot(r), next(r)>>
                      /\ o.state = "st" => SlotOf(d, o, "sc", r) = slot(r)
        good == \A r \in 1..o.t : Follows(r)
        after == [x \in {place(r) : r \in 1..o.t} |->
                    IF good THEN d.reg[x] + (IF o.slot = 0 THEN 1 ELSE o.t) ELSE NoState]
        e == Write(d, o.out, 1, o.t, 1, LAMBDA r : IF Follows(r) THEN Made(d, o, r) ELSE Junk)
    IN IF o.advances THEN [e EXCEPT !.reg = after @@ d.reg] ELSE e

Exec(d, o) ==
    CASE o.op = "apply" -> Apply(d, o)
      [] o.op = "convert" -> Write(d, o.out, o.from, o.to, o.dst, LAMBDA r : At(d, o.buf, r))
      [] o.op = "upload" -> Write(d, {o.buf}, 1, Len(o.values), 1, LAMBDA r : o.values[r])
      [] o.op = "pos" -> [d EXCEPT !.dpp = o.pos @@ d.dpp]
      [] o.op = "rows" -> [d EXCEPT !.rows = o.rows]
      [] o.op = "zero" -> Write(d, {o.buf}, 1, TMax, 1, LAMBDA r : Zero)
      [] o.op = "read" -> [d EXCEPT !.got =
                             @ \o [r \in 1..(o.to - o.from + 1) |-> At(d, o.buf, r + o.from - 1)]]
      [] o.op = "record" -> [d EXCEPT !.events = @ \cup {o.event}]
      [] o.op = "wait" -> d
      [] o.op = "forget" -> [d EXCEPT !.reg[o.place] = 0]
      [] o.op = "rollback" -> ApplyRollback(d, o)
      [] o.op = "follow" -> ApplyFollow(d, o)
      [] o.op = "lost" -> Write(d, o.out, 1, TMax, 1, LAMBDA r : Junk)
      [] o.op = "norm" -> ApplyNorm(d, o)
      [] o.op = "axpy" -> Write(d, {o.x}, 1, o.t, 1, LAMBDA r : Added(d, o.x, o.ab, o.at, r))
      [] o.op = "prep" -> ApplyPrep(d, o)
      [] o.op = "attend" -> ApplyAttend(d, o)
      [] o.op = "scan" -> ApplyScan(d, o)

=============================================================================
