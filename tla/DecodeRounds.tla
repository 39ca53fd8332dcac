---------------------------- MODULE DecodeRounds ----------------------------
(***************************************************************************)
(* The decoding of one request (sched/decode.rs, sched/spec.rs): single    *)
(* steps, k-steps and verify rounds of drafts, greedy or sampled, each     *)
(* followed by finish_slot, and the retries of slot_fail.  The model is a  *)
(* function of the rows it was fed: fed what it generated itself it        *)
(* continues `truth' when it decodes greedily, fed anything else, or       *)
(* sampled, it may say anything.                                           *)
(***************************************************************************)
EXTENDS Integers, Sequences, SequencesExt, FiniteSets, FiniteSetsExt

CONSTANTS Token,
          Eos,          \* the end-of-sequence token of the engine
          Stops,        \* the stop tokens of the request (stops_for_arch)
          DraftTokens,  \* the tokens of the history drafts are copied from
          PredictMax,   \* bound: the largest n_predict
          KMax,         \* KSTEP_K (4); below 2: k-steps fall back to single ones
          DraftMax,     \* bound: the longest draft; 0: no speculative decoding
          Sampling,     \* may requests be sampled?
          ErrMax        \* failures in a row that fail a job (3); 0: no pass fails

ASSUME RoundsAssumption ==
    /\ DraftTokens \subseteq Token
    /\ PredictMax \in Nat \ {0} /\ KMax \in Nat /\ DraftMax \in Nat
    /\ Sampling \subseteq BOOLEAN /\ ErrMax \in Nat

VARIABLES truth,      \* what greedy decoding yields, one token at a time
          predict,    \* n_predict
          sampled,    \* a temperature was asked for
          fed,        \* the generated tokens whose rows the caches hold
          emitted,    \* slot.tokens; the last is slot.next
          errs,       \* err_count
          phase,      \* "prefill", "decode", "done", "failed" or "astray"
          answer      \* the tokens of the InferResult

roundsVars == <<truth, predict, sampled, fed, emitted, errs, phase, answer>>
request == <<truth, predict, sampled>>

\* No round needs more of the truth: fewer than PredictMax tokens are there
\* before it and it emits at most DraftMax + 1.
TruthLen == PredictMax + DraftMax

Says(rows) ==
    IF ~sampled /\ IsPrefix(rows, truth) /\ Len(rows) < TruthLen
    THEN {truth[Len(rows) + 1]}
    ELSE Token

(***************************************************************************)
(* finish_slot: when is the request done, and with which answer?           *)
(***************************************************************************)
DoneExactly(e) ==                                            \* fault
    Last(e) \in Stops \cup {Eos} \/ Len(e) = predict

Done(e) == Last(e) \in Stops \cup {Eos} \/ Len(e) >= Max({predict, 1})

Unstopped(e) ==
    SubSeq(e, 1, Max({0} \cup {i \in DOMAIN e : e[i] \notin Stops \cup {Eos}}))

AnswerUncut(e) == Unstopped(e)                               \* fault

AnswerOf(e) == SubSeq(Unstopped(e), 1, Min({predict, Len(Unstopped(e))}))

Emit(ts) ==
    LET e == emitted \o ts
    IN  /\ emitted' = e
        /\ IF Done(e)
           THEN phase' = "done" /\ answer' = AnswerOf(e)
           ELSE phase' = "decode" /\ UNCHANGED answer

\* slot_fail, and finish_slot when it was once too often.
Fail ==
    /\ errs' = errs + 1
    /\ IF errs + 1 >= ErrMax
       THEN phase' = "failed" /\ answer' = <<>>
       ELSE UNCHANGED <<phase, answer>>

(***************************************************************************)
(* The last chunk of the prompt yields the first token.                    *)
(***************************************************************************)
Prefill ==
    /\ phase = "prefill"
    /\ \E x \in Says(<<>>) : Emit(<<x>>)
    /\ UNCHANGED <<request, fed, errs>>

Room(n) == Len(emitted) + n <= TruthLen     \* the bound: Done comes before it
Decoding == phase = "decode" /\ Room(1)
Next1 == <<Last(emitted)>>

\* decode_greedy, decode_np_greedy, decode_np_logits and decode_np_mixed.
Single ==
    /\ Decoding
    /\ fed' = fed \o Next1
    /\ \E x \in Says(fed') : Emit(<<x>>)
    /\ errs' = 0
    /\ UNCHANGED request

(***************************************************************************)
(* decode_greedy_k: up to KSTEP_K steps, never more than n_predict leaves  *)
(* and fewer where the context ends, of which those after the end of the   *)
(* sequence are dropped; each is fed what the one before it said.          *)
(***************************************************************************)
KSteps == Min({KMax, predict - Len(emitted)})

UptoAll(xs) == Len(xs)                                       \* fault

Upto(xs) ==
    IF Eos \in ToSet(xs) THEN Min({i \in DOMAIN xs : xs[i] = Eos}) ELSE Len(xs)

KStep(xs) ==
    /\ Decoding /\ ~sampled /\ Len(xs) \in 2 .. KSteps
    /\ \A i \in DOMAIN xs : xs[i] \in Says(fed \o Next1 \o SubSeq(xs, 1, i - 1))
    /\ fed' = fed \o Next1 \o SubSeq(xs, 1, Upto(xs) - 1)
    /\ Emit(SubSeq(xs, 1, Upto(xs)))
    /\ errs' = 0
    /\ UNCHANGED request

(***************************************************************************)
(* spec_round: the draft is accepted as far as the model says the same     *)
(* after each of its tokens, the rows of the others are rolled back, and   *)
(* the accepted tokens and the model's own next one are emitted.           *)
(***************************************************************************)
AcceptedWhole(draft, toks) == Len(draft)                     \* fault

Accepted(draft, toks) ==
    Max({a \in 0 .. Len(draft) : \A i \in 1 .. a : toks[i] = draft[i]})

KeptShort(draft, acc) == Next1 \o SubSeq(draft, 1, acc - 1)  \* fault

Kept(draft, acc) == Next1 \o SubSeq(draft, 1, acc)

Verify(draft, toks) ==
    LET acc == Accepted(draft, toks)
    IN  /\ Decoding /\ ~sampled /\ draft # <<>> /\ Len(toks) = 1 + Len(draft)
        /\ Room(Len(toks))
        /\ \A i \in DOMAIN toks :
              toks[i] \in Says(fed \o Next1 \o SubSeq(draft, 1, i - 1))
        /\ fed' = fed \o Kept(draft, acc)
        /\ Emit(Append(SubSeq(draft, 1, acc), toks[acc + 1]))
        /\ errs' = 0
        /\ UNCHANGED request

(***************************************************************************)
(* The sampled round: each token of the draft is accepted by a coin, as    *)
(* far as it goes.  The rows are rolled back to before the last accepted   *)
(* token, what was accepted is emitted, and a decode of that last token    *)
(* yields the correction.  When the decode fails, what was emitted stays.  *)
(***************************************************************************)
SampledVerify(draft, acc) ==
    /\ Decoding /\ sampled /\ draft # <<>> /\ Room(1 + Len(draft))
    /\ fed' = fed \o Kept(draft, acc)
    /\ \E x \in Token : Emit(Append(SubSeq(draft, 1, acc), x))
    /\ errs' = 0
    /\ UNCHANGED request

SampledErrUnemitted(draft, acc) ==                           \* fault
    /\ Decoding /\ sampled /\ draft # <<>> /\ Room(1 + Len(draft))
    /\ acc > 0 /\ ErrMax > 1
    /\ fed' = fed \o SubSeq(Kept(draft, acc), 1, acc)
    /\ errs' = 1
    /\ UNCHANGED <<request, emitted, phase, answer>>

SampledErr(draft, acc) ==
    /\ Decoding /\ sampled /\ draft # <<>> /\ Room(1 + Len(draft))
    /\ acc > 0 /\ ErrMax > 1
    /\ fed' = fed \o SubSeq(Kept(draft, acc), 1, acc)
    /\ Emit(SubSeq(draft, 1, acc))
    /\ errs' = 1
    /\ UNCHANGED request

(***************************************************************************)
(* A pass that fails before it moved anything: buffers, blocks or the rows *)
(* of the tokens could not be had.  The correction of a round of which     *)
(* nothing was accepted fails like it, after the rollback.                 *)
(***************************************************************************)
PassErr ==
    /\ Decoding /\ ErrMax > 0
    /\ Fail
    /\ UNCHANGED <<request, fed, emitted>>

(***************************************************************************)
(* Failures after which the rows are ahead of the conversation: the result *)
(* of a pass that ran cannot be read (the mixed batch is then run again as *)
(* two), the rollback of a draft fails, or the correction of a greedy      *)
(* round after a part of the draft was accepted, which is not emitted yet. *)
(* The retry feeds rows again; nothing is promised of what follows, and    *)
(* the model ends here.                                                    *)
(***************************************************************************)
Astray ==
    /\ Decoding /\ ErrMax > 0
    /\ phase' = "astray"
    /\ UNCHANGED <<request, fed, emitted, errs, answer>>

RoundsInit ==
    /\ truth \in [1 .. TruthLen -> Token]
    /\ predict \in 0 .. PredictMax
    /\ sampled \in Sampling
    /\ sampled => truth = [i \in 1 .. TruthLen |-> Eos]     \* means nothing then
    /\ fed = <<>> /\ emitted = <<>> /\ answer = <<>>
    /\ errs = 0
    /\ phase = "prefill"

RoundsNext ==
    \/ Prefill
    \/ Single
    \/ \E xs \in BoundedSeq(Token, KMax) : KStep(xs)
    \/ \E draft \in BoundedSeq(DraftTokens, DraftMax) :
          \/ \E toks \in [1 .. 1 + Len(draft) -> Token] : Verify(draft, toks)
          \/ \E acc \in 0 .. Len(draft) : SampledVerify(draft, acc) \/ SampledErr(draft, acc)
    \/ PassErr
    \/ Astray

RoundsSpec == RoundsInit /\ [][RoundsNext]_roundsVars

\* slot_loop goes on decoding while a slot has a request.
RoundsFairSpec == RoundsSpec /\ WF_roundsVars(RoundsNext)
-----------------------------------------------------------------------------
(***************************************************************************)
(* Speculation and k-steps are lossless: whatever mix of rounds decoded    *)
(* the request, the tokens emitted are those single steps would emit.      *)
(***************************************************************************)
Lossless == ~sampled => IsPrefix(emitted, truth)

(***************************************************************************)
(* The rows the caches hold are those of the conversation but for its last *)
(* token, after every round, every failed one that is retried, and when    *)
(* the conversation is kept for the next request.                          *)
(***************************************************************************)
RowsOfConversation == phase \in {"decode", "done"} => fed = Front(emitted)

(***************************************************************************)
(* A finished request is answered with what decoding one token at a time   *)
(* would answer: the greedy continuation up to the first stop token and to *)
(* n_predict, in whatever round these limits were met.                     *)
(***************************************************************************)
FirstStop ==
    Min({TruthLen + 1} \cup {i \in 1 .. TruthLen : truth[i] \in Stops \cup {Eos}})

AnswerIsGreedy ==
    phase = "done" /\ ~sampled => answer = SubSeq(truth, 1, Min({predict, FirstStop - 1}))

(***************************************************************************)
(* Every request is answered, also when rounds emit several tokens and may *)
(* step over n_predict, and when passes fail: it is retried so often that  *)
(* tokens come, or fails.                                                  *)
(***************************************************************************)
Answered == <>(phase \notin {"prefill", "decode"})
=============================================================================
