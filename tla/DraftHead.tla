----------------------------- MODULE DraftHead -----------------------------
(***************************************************************************)
(* The draft head of Qwen (MTP): one layer that guesses the next tokens    *)
(* from the hidden rows the decoder leaves behind.  It runs on the         *)
(* decoder's stream right after a pass, uses its buffers for attention and *)
(* for the chosen token, and moves the positions on the device.            *)
(***************************************************************************)
EXTENDS Forward

CONSTANTS
  DraftRows,  \* MTP_TMAX and MTP_PF_CHUNK: rows of the buffers of the head
  DraftK      \* MTP_K: tokens of a draft

ASSUME DraftAssumption ==
  /\ DraftRows \in Small..TMax /\ DraftK \in Nat \ {0, 1}

(* set_mtp: the cache of the head is the last one.                         *)
Plane == Planes - 1

(* A row of the head is at a position and some tokens ahead of the text:   *)
(* the token after its position is known (0), or a draft of the row before.*)
Ahead(j) == 2 * Layers + 1 + j
Places(slot, start, t) == [r \in 1..t |-> <<slot, start + r - 1>>]

---------------------------------------------------------------------------
(* What the head launches, for t rows. *)

(* Rows from .. to of the pass become the next hidden rows. *)
PushHidden(from, to, dst) ==
    <<KernelRows("hidden", 2 * Layers, <<"dres">>, {"m_hid"}, from, to, dst)>>

MtpNorm(rule, at, x, xn, t) == <<Kernel(rule, at, <<x>>, {xn}, t)>>

(* norm_resid: the residual takes up a branch, x is its norm. *)
MtpNormAcc(add, norm, at, ab, t) ==
    <<Kernel(add, at, <<ab, "m_res">>, {"m_res"}, t), Kernel(norm, at, <<"m_res">>, {"m_x"}, t)>>

MtpPlain(w, at, x, y, t) ==
    IF t <= Small THEN PlainGemv(w, at, x, y, t) ELSE PlainGemm(w, at, x, y, t)

(***************************************************************************)
(* Attention over the head's cache of a slot, whose rows before these may  *)
(* be of any pass or none.  A captured pass has the slot it was captured   *)
(* with.                                                                   *)
(***************************************************************************)
MtpAttention(slot, start, at, t, captured) ==
    LET scores == IF t <= Small THEN "dattn_part" ELSE "fa2" IN
    (IF captured THEN <<>> ELSE <<SetPos(slot :> start)>>)
    \o <<Prep(slot, at, Plane, <<"m_qg", "m_kin", "m_vin">>, t),
         [Attend(slot, at, Plane, <<"dqh">>, {scores}, t) EXCEPT !.window = 1],
         Kernel("merge", at, <<scores, "m_qg">>, {"doutv", "dx32", "dx16"}, t)>>

(* Head and argmax of all rows, of the last one when they are many. *)
MtpChoose(at, t) ==
    LET from == IF t > Small THEN t ELSE 1
        n == t - from + 1
    IN <<KernelRows("mtp_head", at, <<"m_x">>, {"m_lg"}, from, t, 1),
         Kernel("argmax", at, <<"m_lg">>, {"dbatch_am"}, n)>>

FwdLaunch(slot, start, j, t, head, captured) ==
    LET at == Ahead(j) IN
    MtpNorm("mtp_norm_e", at, "m_emb", "m_xn_e", t) \o MtpNorm("mtp_norm_h", at, "m_hid", "m_xn_h", t)
    \o <<Kernel("mtp_cat", at, <<"m_xn_e", "m_xn_h">>, {"m_cat"}, t)>>
    \o MtpPlain("mtp_fc", at, "m_cat", "m_fc", t) \o <<ZeroDev("m_res")>>
    \o MtpNormAcc("mtp_start", "mtp_norm", at, "m_fc", t)
    \o MtpPlain("attn_q", at, "m_x", "m_qg", t) \o MtpPlain("attn_k", at, "m_x", "m_kin", t)
    \o MtpPlain("attn_v", at, "m_x", "m_vin", t)
    \o MtpAttention(slot, start, at, t, captured)
    \o IF ~head THEN <<>>
       ELSE MtpPlain("attn_output", at, "doutv", "m_o", t)
            \o MtpNormAcc("mtp_add_attn", "mtp_norm_ffn", at, "m_o", t)
            \o MtpPlain("mtp_gate", at, "m_x", "m_g", t) \o MtpPlain("mtp_up", at, "m_x", "m_u", t)
            \o <<Kernel("ew", at, <<"m_g", "m_u">>, {"m_act"}, t)>>
            \o MtpPlain("mtp_down", at, "m_act", "m_dn", t)
            \o MtpNormAcc("mtp_add_ffn", "mtp_norm_out", at, "m_dn", t)
            \o MtpChoose(at, t)

(***************************************************************************)
(* mtp_run_h.  The graph of t rows is captured once, for the slot that     *)
(* asked first (slot 0 when warmed up): whichever that is here, none on a  *)
(* device where the capture fails.                                         *)
(***************************************************************************)
NoLane == 0
Owners == IF net.capture THEN Lane ELSE {NoLane}

RunH(slot, owner, start, j, t, head) ==
    IF head /\ t <= Small /\ owner # NoLane
    THEN <<SetPos(slot :> start)>> \o FwdLaunch(owner, start, j, t, TRUE, TRUE)
    ELSE FwdLaunch(slot, start, j, t, head, FALSE)

(* The embeddings of the tokens after these positions, from the host. *)
NextTokens(slot, start, t) ==
    <<FromHost("m_emb", Values("emb", Ahead(0), Places(slot, start, t)))>>

(* mtp_prefill_chunk: keys and values of t rows of the pass. *)
PrefillChunk(slot, start, t) ==
    Concat([i \in 1..((t + DraftRows - 1) \div DraftRows) |->
       LET from == (i - 1) * DraftRows + 1
           to == Min({from + DraftRows - 1, t})
       IN PushHidden(from, to, 1) \o NextTokens(slot, start + from - 1, to - from + 1)
          \o RunH(slot, NoLane, start + from - 1, 0, to - from + 1, FALSE)])

SavePrev(row) == <<KernelRows("hidden", 2 * Layers, <<"dres">>, {"m_prev"}, row, row, 1)>>

RunPrev(slot, owner, start) ==
    <<Convert("m_prev", "m_hid", 1)>> \o NextTokens(slot, start, 1) \o RunH(slot, owner, start, 0, 1, TRUE)

---------------------------------------------------------------------------
(***************************************************************************)
(* The tokens that follow: one graph of the slot, which logs the token     *)
(* chosen last, counts the position on and runs the head for its           *)
(* embedding and the hidden row before.                                    *)
(***************************************************************************)

(* The last row takes the place of the first, its token too. *)
CopyFirst(buf, row) ==
    <<[op |-> "convert", buf |-> buf, out |-> {buf}, from |-> row, to |-> row, dst |-> 1]>>
(* What it would be were the last row left where it is. *)
FinSeedLeft(t) == <<>>
FinSeed(t) == IF t = 1 THEN <<>> ELSE CopyFirst("m_x", t)
ChainSeed(slot, base, t) == CopyFirst("dbatch_am", t) \o <<SetPos(slot :> base)>>

Bookkeeping(slot, pos) == <<ReadBack("dbatch_am", 1), SetPos(slot :> pos)>>
HiddenOn(j) == <<Follow("m_x", "mx", Ahead(j - 1), "m_hid", "hid", Ahead(j))>>
TokenOn(j) == <<Follow("dbatch_am", "tok", Ahead(j - 1), "m_emb", "emb", Ahead(j))>>

ChainStep(slot, pos, j) ==
    Bookkeeping(slot, pos) \o TokenOn(j) \o HiddenOn(j) \o FwdLaunch(slot, pos, j, 1, TRUE, TRUE)

ChainDrafts(slot, base) ==
    Concat([j \in 1..(DraftK - 1) |-> ChainStep(slot, base + j, j)])
    \o <<ReadBack("dbatch_am", 1), SetPos(slot :> base)>>

(* One after the other instead, each through the host, up to the end of    *)
(* the context, where it fails.                                            *)
RecurStep(slot, owner, pos, j) ==
    HiddenOn(j) \o TokenOn(j) \o RunH(slot, owner, pos, j, 1, TRUE) \o <<ReadBack("dbatch_am", 1)>>

InTurn(slot, owner, base) ==
    <<ReadBack("dbatch_am", 1)>>
    \o Concat([j \in 1..(Min({DraftK, Ctx - base}) - 1) |-> RecurStep(slot, owner, base + j, j)])

(* What becomes of a draft that starts with row t of the head, for base.   *)
Chains(base) == net.embed /\ net.capture /\ base + DraftK <= Ctx
Drafts(slot, owner, base, t) ==
    IF Chains(base) THEN ChainSeed(slot, base, t) \o ChainDrafts(slot, base)
    ELSE CopyFirst("dbatch_am", t) \o InTurn(slot, owner, base)

(* The tokens the draft is to have.  A graph of another slot reads and     *)
(* writes the cache and the position of that one: what comes of it is no   *)
(* draft of this slot.                                                     *)
Drafted(slot, owner, base) ==
    LET n == IF Chains(base) THEN DraftK ELSE Min({DraftK, Ctx - base})
    IN [j \in 1..n |-> IF owner \in {NoLane, slot} THEN Val("tok", Ahead(j - 1), <<slot, base + j - 1>>)
                       ELSE Junk]

(* mtp_post_round: the row of the last pass joins the ones kept before, t  *)
(* rows from start are run and the draft follows.                          *)
PostRound(slot, owner, start, t) ==
    PushHidden(1, 1, t) \o NextTokens(slot, start, t) \o RunH(slot, owner, start, 0, t, TRUE)
    \o FinSeed(t) \o Drafts(slot, owner, start + t - 1, t)

---------------------------------------------------------------------------
(***************************************************************************)
(* The steps of the scheduler.  on: whether drafts are kept up and the     *)
(* slot may draft, which one that reused a prefix may not.                 *)
(***************************************************************************)
TokWanted(slot, start, t) == Wanted("tok", Places(slot, start, t))

(* A stretch of the prompt; the last one is followed by the first token.   *)
DraftPrefill(slot, t, last, on, owner) ==
    LET start == hpos[slot]
        base == start + t - 1
        toks == net.embed /\ net.from = 0
        out == IF ~last THEN "xn" ELSE IF t = 1 \/ toks THEN "tok" ELSE "logits"
        pass == IF t = 1 THEN DirectRun(slot, start, out) ELSE ChainRun(slot, start, t, out, toks)
    IN /\ start + t <= Ctx
       /\ OnStreams(pass
                    \o (IF last THEN PrefillChunk(slot, start, t - 1) \o SavePrev(t)
                        ELSE PrefillChunk(slot, start, t))
                    \o (IF last /\ on THEN RunPrev(slot, owner, base) \o Drafts(slot, owner, base, 1)
                        ELSE <<>>),
                    slot :> start + t,
                    Wanted(out, <<<<slot, base>>>>)
                    \o (IF last /\ on THEN Drafted(slot, owner, base) ELSE <<>>))

(* A token, or several in a k-step, and a draft. *)
DraftSingle(slot, k, owner) ==
    LET start == hpos[slot]
        base == start + k - 1
    IN /\ start + k <= Ctx /\ (k > 1 => net.embed /\ net.from = 0 /\ start > 0)
       /\ OnStreams((IF k = 1 THEN DirectRun(slot, start, "tok") ELSE KStepRun(slot, start, k))
                    \o PostRound(slot, owner, base, 1),
                    slot :> start + k, TokWanted(slot, start, k) \o Drafted(slot, owner, base))

(* spec_round: the draft is verified, the state goes back to the accepted  *)
(* rows, whose hidden rows are kept, and the last of them is run again.    *)
DraftRound(slot, t, acc, on, owner) ==
    LET start == hpos[slot]
        kept == start + acc
    IN /\ start + t <= Ctx /\ net.spec
       /\ OnStreams(VerifyRun(slot, start, t, FALSE)
                    \o (IF acc > 0 THEN PushHidden(1, acc, 1) ELSE <<>>)
                    \o <<Rollback(slot, t - acc), SetPos(slot :> kept)>>
                    \o DirectRun(slot, kept, "tok")
                    \o (IF on THEN PostRound(slot, owner, start, acc + 1) ELSE <<>>),
                    slot :> kept + 1,
                    TokWanted(slot, start, t) \o TokWanted(slot, kept, 1)
                    \o (IF on THEN Drafted(slot, owner, kept) ELSE <<>>))

DraftNext ==
    \/ \E slot \in Lane, owner \in Owners :
         \/ \E t \in 1..TMax : DraftPrefill(slot, t, TRUE, TRUE, owner)
         \/ \E k \in 1..Small : DraftSingle(slot, k, owner)
         \/ \E t \in 2..Small, acc \in 0..(Small - 1) :
              acc < t /\ DraftRound(slot, t, acc, TRUE, owner)
    \/ \E slot \in Lane :
         \/ \E t \in 1..TMax, last \in BOOLEAN : DraftPrefill(slot, t, last, FALSE, NoLane)
         \/ \E t \in 2..Small, acc \in 0..(Small - 1) :
              acc < t /\ DraftRound(slot, t, acc, FALSE, NoLane)
    \/ \E a, b \in Lane : a # b /\ ForwardBatch(<<a, b>>, "tok")
    \/ \E slot \in Lane : ResetState(slot)
    \/ StreamsNext
=============================================================================
