------------------------------ MODULE Sampler ------------------------------
(***************************************************************************)
(* Sampled decoding: the draws of Sampler (core/src/sampler.rs) and the    *)
(* verify rounds that accept the tokens of a draft by prob_of              *)
(* (sched/spec.rs), on drafts copied from the conversation                 *)
(* (core/src/spec.rs).  What DecodeRounds calls a coin is modelled here.   *)
(*                                                                         *)
(* A row of logits gives each token whose logit is a finite number an      *)
(* integer; the weight e^((v - max) / T) is a table, shares are multiples  *)
(* of 1/Den, and sums are exact.  A coin is a number below the mass that   *)
(* is drawn from, so what is modelled of a draw is the mass each token     *)
(* has.  Among equal logits the order is that of the tokens: in the code   *)
(* it is whatever select_nth_unstable_by and sort_unstable_by leave, which *)
(* is the same for the same row.                                           *)
(***************************************************************************)
EXTENDS Integers, Sequences, FiniteSets

CONSTANTS VocabLen,   \* tokens are numbered 0 .. VocabLen - 1
          Rows,       \* what the model may say: the finite logits of some tokens
          Depth,      \* bound: a logit farther below the largest counts as this far
          Weight,     \* Weight[t][d]: at temperature t, of a logit d below the largest
          Warm,       \* the temperatures above one
          Cut,        \* CUT_D (20)
          CandN,      \* CAND_N (4096)
          Den,        \* shares are multiples of 1 / Den
          Asks,       \* the parameters of requests, none of them greedy
          Openings,   \* prompts
          NgramN, NgramM,  \* ngram_knobs: tokens that must match, tokens copied
          CopyMax,    \* kk - 1 of econ_plan
          SaidMax     \* bound: the longest conversation

Id == 0 .. VocabLen - 1

ASSUME SamplerAssumption ==
    /\ VocabLen \in Nat \ {0} /\ Depth \in Nat /\ Cut \in 1 .. Depth
    /\ CandN \in Nat \ {0} /\ Den \in Nat \ {0}
    /\ \A l \in Rows : DOMAIN l \subseteq Id /\ l \in [DOMAIN l -> Int]
    /\ {"one"} \cup Warm \subseteq DOMAIN Weight
    /\ \A t \in DOMAIN Weight :
          /\ Weight[t] \in [0 .. Depth -> Nat] /\ Weight[t][0] > 0
          /\ \A d \in 1 .. Depth : Weight[t][d] <= Weight[t][d - 1]
          /\ t \notin Warm => \A d \in 0 .. Depth : Weight[t][d] <= Weight["one"][d]
    /\ \A how \in Asks :
          /\ how.temp \in DOMAIN Weight \cup {"zero"}
          /\ how.topK \in Nat /\ how.topP \in 1 .. Den /\ how.minP \in 0 .. Den
          /\ how.penalty \in Nat \ {0} /\ how.lastN \in Nat
    /\ \A p \in Openings : p \in Seq(Id)
    /\ NgramN \in Nat \ {0} /\ NgramM \in Nat /\ CopyMax \in Nat /\ SaidMax \in Nat

VARIABLES how,      \* params of the request's sampler
          said,     \* the conversation, the prompt included
          recent,   \* the last tokens the sampler was shown
          row,      \* the logits the round stands at
          copied, passed,  \* the draft and how much of it was accepted
          stand     \* "idle", "verify" or "correct"

samplerVars == <<how, said, recent, row, copied, passed, stand>>

NoRow == <<>>

Lesser(m, n) == IF m < n THEN m ELSE n
Least(S, none) == IF S = {} THEN none ELSE CHOOSE k \in S : \A j \in S : k <= j

(***************************************************************************)
(* push_tokens and apply_penalties: each token seen is made less likely,   *)
(* once.                                                                   *)
(***************************************************************************)
LastOf(s, n) == SubSeq(s, IF Len(s) > n THEN Len(s) - n + 1 ELSE 1, Len(s))
Shown(ts) == LastOf(recent \o ts, how.lastN)

Lessened(v) == IF v > 0 THEN v \div how.penalty ELSE v * how.penalty
Penalised(l, ts) ==
    [t \in DOMAIN l |-> IF \E i \in DOMAIN ts : ts[i] = t THEN Lessened(l[t]) ELSE l[t]]

(***************************************************************************)
(* The candidates by logit, the largest first.  Every selection is a first *)
(* part of them: the ones within Cut of the largest, the top_k, the CandN  *)
(* that are sorted, and what top_p and min_p keep.                         *)
(***************************************************************************)
Before(l, u, t) == l[u] > l[t] \/ (l[u] = l[t] /\ u < t)
Place(l, t) == Cardinality({u \in DOMAIN l : Before(l, u, t)}) + 1

Ranked(l) ==
    [i \in 1 .. Cardinality(DOMAIN l) |-> CHOOSE t \in DOMAIN l : Place(l, t) = i]

Temperature == IF how.temp = "zero" THEN "one" ELSE how.temp

Weights(l) ==
    [i \in DOMAIN Ranked(l) |->
        Weight[Temperature][Lesser(l[Ranked(l)[1]] - l[Ranked(l)[i]], Depth)]]

\* Cum(w)[k]: the mass of the first k.
Cum(w) == LET c[k \in 0 .. Len(w)] == IF k = 0 THEN 0 ELSE c[k - 1] + w[k] IN c

Near(l) == Cardinality({t \in DOMAIN l : l[t] > l[Ranked(l)[1]] - Cut})

TopK(n) == IF how.topK > 0 THEN Lesser(how.topK, n) ELSE n

BelowCutForgotten(l, cut) == 0                                  \* fault

\* Every token below the cut counts as if it were just there.
BelowCut(l, cut) ==
    IF cut THEN (Cardinality(DOMAIN l) - Near(l)) * Weight["one"][Cut] ELSE 0

\* How many candidates there are, and how many of them are sorted.
Among(l, cut) == TopK(IF cut THEN Near(l) ELSE Cardinality(DOMAIN l))
Sorted(l, cut) == Lesser(CandN, Among(l, cut))

(***************************************************************************)
(* top_p: the first candidates that have the share of the mass, 0 if all   *)
(* of the first n have not.  min_p: those not too unlikely beside the      *)
(* first.                                                                  *)
(***************************************************************************)
Nucleus(c, n, mass) == Least({k \in 1 .. n : c[k] * Den >= how.topP * mass}, 0)

LikelyOf(w, n) ==
    IF how.minP = 0 THEN n
    ELSE Least({k \in 1 .. n - 1 : w[k + 1] * Den < w[1] * how.minP}, n)

(***************************************************************************)
(* sample_core: the first `keep' candidates are drawn from, of a mass      *)
(* `total', and one of `rest' gets what of it none of them has.  It gives  *)
(* up (keep = 0) when the tokens above the cut do not close the nucleus,   *)
(* and is run again without a cut; then the unsorted tail is sorted too.   *)
(***************************************************************************)
Untruncated == how.topP = Den /\ how.minP = 0

SampleCore(l, cut) ==
    LET w == Weights(l)
        c == Cum(w)
        all == Among(l, cut)
        n == Sorted(l, cut)
        mass == c[all] + BelowCut(l, cut)
        first == Nucleus(c, n, mass)
        p == IF how.topP = Den THEN n
             ELSE IF first > 0 \/ cut THEN first ELSE Nucleus(c, all, mass)
        keep == IF p = 0 THEN 0 ELSE LikelyOf(w, p)
    IN  [keep |-> keep,
         total |-> IF Untruncated THEN mass ELSE c[keep],
         rest |-> IF ~Untruncated THEN {} ELSE Lesser(n + 1, all) .. all]

Odds(l) == IF SampleCore(l, TRUE).keep > 0 THEN SampleCore(l, TRUE) ELSE SampleCore(l, FALSE)

\* What the kept candidates leave of the mass.
Left(l, o) == o.total - Cum(Weights(l))[o.keep]

\* sample, at temperature zero greedy_from.  Token 0 where no logit is finite.
Drawn(l) ==
    IF DOMAIN l = {} THEN {0}
    ELSE IF how.temp = "zero" THEN {Ranked(l)[1]}
    ELSE {Ranked(l)[i] : i \in 1 .. Odds(l).keep
                                \cup IF Left(l, Odds(l)) > 0 THEN Odds(l).rest ELSE {}}

(***************************************************************************)
(* prob_of: the same selection with the cut, but only the sorted ones      *)
(* count, and where they do not close the nucleus all of them are kept.    *)
(***************************************************************************)
MassSorted(l) == Cum(Weights(l))[Sorted(l, TRUE)] + BelowCut(l, TRUE)

KeptSorted(l) ==
    LET n == Sorted(l, TRUE)
        first == Nucleus(Cum(Weights(l)), n, MassSorted(l))
    IN  LikelyOf(Weights(l), IF how.topP = Den \/ first = 0 THEN n ELSE first)

ProbOfUnscaled(l) == [keep |-> KeptSorted(l), total |-> MassSorted(l)]  \* fault

ProbOf(l) ==
    [keep |-> KeptSorted(l),
     total |-> IF Untruncated THEN MassSorted(l) ELSE Cum(Weights(l))[KeptSorted(l)]]

\* The weight of token x among the first `keep'.
WeightIn(l, keep, x) ==
    IF x \in DOMAIN l /\ Place(l, x) <= keep THEN Weights(l)[Place(l, x)] ELSE 0

(***************************************************************************)
(* ngram_draft: the latest earlier place where the last n tokens stand,    *)
(* and up to m of the tokens behind it, at least n.                        *)
(***************************************************************************)
Earlier(hist, n) ==
    {i \in 0 .. Len(hist) - n - 1 : SubSeq(hist, i + 1, i + n) = LastOf(hist, n)}

NgramDraft(hist, n, m, max) ==
    IF Len(hist) < n + 1 \/ max = 0 \/ Earlier(hist, n) = {} THEN <<>>
    ELSE LET after == (CHOOSE i \in Earlier(hist, n) : \A j \in Earlier(hist, n) : j <= i) + n
             len == Lesser(Len(hist) - after, m)
         IN  IF len < n THEN <<>> ELSE SubSeq(hist, after + 1, after + Lesser(len, max))
-----------------------------------------------------------------------------
SamplerInit ==
    /\ how \in Asks /\ said \in Openings
    /\ recent = LastOf(said, how.lastN)
    /\ row = NoRow /\ copied = <<>> /\ passed = 0 /\ stand = "idle"

\* slot_emit.
EmitAll(ts) ==
    /\ said' = said \o ts
    /\ recent' = Shown(ts)
    /\ row' = NoRow /\ copied' = <<>> /\ passed' = 0 /\ stand' = "idle"

\* pick, after a plain step or the end of the prompt.
DrawPlainly ==
    /\ stand = "idle" /\ Len(said) < SaidMax
    /\ \E l \in Rows : \E x \in Drawn(Penalised(l, recent)) : EmitAll(<<x>>)
    /\ UNCHANGED how

\* spec_round_sampled: a draft is verified; the model says a row for each token.
BeginVerify ==
    /\ stand = "idle" /\ Len(said) < SaidMax
    /\ copied' = NgramDraft(said, NgramN, NgramM, Lesser(CopyMax, SaidMax - Len(said)))
    /\ copied' # <<>>
    /\ row' \in Rows
    /\ stand' = "verify"
    /\ UNCHANGED <<how, said, recent, passed>>

\* apply_penalties_ext, without the window of repeat_last_n.
VerifyRow == Penalised(row, recent \o SubSeq(copied, 1, passed))

\* apply_penalties, once what was accepted has been emitted.
PlainRow == Penalised(row, Shown(SubSeq(copied, 1, passed)))

\* The coin is below prob_of the next token of the draft, or not.
AcceptCopied ==
    /\ stand = "verify"
    /\ DOMAIN row # {} /\ WeightIn(VerifyRow, ProbOf(VerifyRow).keep, copied[passed + 1]) > 0
    /\ passed' = passed + 1
    /\ stand' = IF passed' = Len(copied) THEN "correct" ELSE "verify"
    /\ row' \in Rows
    /\ UNCHANGED <<how, said, recent, copied>>

RejectCopied ==
    /\ stand = "verify"
    /\ \/ DOMAIN row = {}
       \/ WeightIn(VerifyRow, ProbOf(VerifyRow).keep, copied[passed + 1]) < ProbOf(VerifyRow).total
    /\ stand' = "correct"
    /\ UNCHANGED <<how, said, recent, copied, passed, row>>

(***************************************************************************)
(* What was accepted is emitted and the next token drawn, behind a         *)
(* rejected one until it is another: 64 draws of the same are taken to     *)
(* mean that there is no other.                                            *)
(***************************************************************************)
Corrections ==
    LET others == IF passed = Len(copied) THEN Drawn(PlainRow)
                  ELSE Drawn(PlainRow) \ {copied[passed + 1]}
    IN  IF others = {} THEN Drawn(PlainRow) ELSE others

Correct ==
    /\ stand = "correct"
    /\ \E x \in Corrections : EmitAll(Append(SubSeq(copied, 1, passed), x))
    /\ UNCHANGED how

SamplerNext == DrawPlainly \/ BeginVerify \/ AcceptCopied \/ RejectCopied \/ Correct

SamplerSpec == SamplerInit /\ [][SamplerNext]_samplerVars
-----------------------------------------------------------------------------
(***************************************************************************)
(* The mass prob_of leaves out: the tokens below the cut, at most, and     *)
(* those behind the CandN sorted ones.                                     *)
(***************************************************************************)
Uncovered(l) ==
    BelowCut(l, TRUE) + Cum(Weights(l))[Among(l, TRUE)] - Cum(Weights(l))[Sorted(l, TRUE)]

Abs(n) == IF n < 0 THEN -n ELSE n

\* The shares a / m and b / n differ by more than u / m.
Apart(a, m, b, n, u) == Abs(a * n - b * m) > u * n

(***************************************************************************)
(* A draft is accepted as often as the sampler would have drawn it, so a   *)
(* verify round does not change what is said: for every token the odds of  *)
(* prob_of and those of sample on the row of plain decoding are the same,  *)
(* up to the mass that prob_of leaves out.  It needs a temperature in      *)
(* (0, 1], no more tokens seen than repeat_last_n keeps, and with top_p no *)
(* more candidates than are sorted; the code makes no exception of any of  *)
(* these, and beyond them the odds do differ.                              *)
(***************************************************************************)
OddsKept ==
    /\ stand = "verify" /\ DOMAIN row # {} /\ how.temp \notin Warm \cup {"zero"}
    /\ how.penalty = 1 \/ Len(recent) + passed <= how.lastN
    /\ how.topP = Den \/ Among(VerifyRow, TRUE) <= CandN
    => LET p == ProbOf(VerifyRow)
           o == Odds(PlainRow)
       IN  \A x \in DOMAIN row :
             \A e \in IF Place(PlainRow, x) \in o.rest THEN {0, Left(PlainRow, o)} ELSE {0} :
                ~Apart(WeightIn(VerifyRow, p.keep, x), p.total,
                       WeightIn(PlainRow, o.keep, x) + e, o.total, Uncovered(PlainRow))

(***************************************************************************)
(* The nucleus that sample draws from is one of the whole row, though only *)
(* the tokens near the largest are looked at first and the others are      *)
(* given a bound: it has the share top_p of the mass of all tokens top_k   *)
(* admits, and without its last token it had less than that share of the   *)
(* mass with the bound.  At a temperature above one the bound is none.     *)
(***************************************************************************)
NucleusEnough ==
    stand = "idle" /\ how.temp \notin Warm \cup {"zero"} /\ how.topP < Den /\ how.minP = 0
    => \A l \in Rows \ {NoRow} :
          LET m == Penalised(l, recent)
              c == Cum(Weights(m))
              all == c[Among(m, FALSE)]
              keep == Odds(m).keep
          IN  /\ keep > 0 /\ c[keep] * Den >= how.topP * all
              /\ c[keep - 1] * Den < how.topP * (all + BelowCut(m, TRUE))

(***************************************************************************)
(* A token of a draft is accepted only if sample could have drawn it.      *)
(***************************************************************************)
AcceptsWhatIsDrawn ==
    [][AcceptCopied => copied[passed + 1] \in Drawn(PlainRow)]_samplerVars
=============================================================================
