----------------------------- MODULE DraftEcon -----------------------------
(***************************************************************************)
(* When a slot that decodes greedily alone is tried with a draft:          *)
(* econ_plan and its samples (sched/econ.rs), the gates of spec_round_impl *)
(* (sched/spec.rs) and the plain rounds of slot_decode (sched/decode.rs).  *)
(*                                                                         *)
(* Times are abstracted: which of two measured costs is the lower may      *)
(* change with every round.                                                *)
(***************************************************************************)
EXTENDS Integers

CONSTANTS MtpAvail,    \* the engine has an MTP draft head
          KPlain,      \* tokens of a plain round (KSTEP_K, or 1)
          DraftLen,    \* bound: the longest draft
          MissPeriod,  \* a slot whose draft missed is tried again each so many tokens (256)
          ProbeTokens  \* ECON_PROBE_TOKENS (512)

ASSUME EconAssumption ==
    /\ MtpAvail \in BOOLEAN
    /\ KPlain \in Nat \ {0} /\ DraftLen \in Nat \ {0}
    /\ MissPeriod \in Nat \ {0} /\ ProbeTokens \in Nat

VARIABLES rounds,    \* econ_rounds, modulo 64
          nPlain,    \* econ_plain_n, up to 3
          nSrc,      \* econ_src_n of "mtp" and "ngram", up to 3
          since,     \* tokens since the last probe (econ_gen - econ_probe_gen), up to ProbeTokens
          alt,       \* econ_probe_alt: the source probed last
          gen,       \* generated of the slot, modulo MissPeriod
          missed,    \* spec_miss >= 1
          plan       \* what the last round was: "gated", "measure", "off" or "draft"

econVars == <<rounds, nPlain, nSrc, since, alt, gen, missed, plan>>

Source == {"mtp", "ngram"}
Other(src) == IF src = "mtp" THEN "ngram" ELSE "mtp"
Upto3(n) == IF n < 3 THEN n ELSE 3
Capped(n) == IF n < ProbeTokens THEN n ELSE ProbeTokens

(***************************************************************************)
(* econ_plan: the source that seems cheaper, or in turn the other one;     *)
(* nothing in the rounds that measure plain decoding, and nothing while    *)
(* drafting is not worth its cost, but for a probe from time to time.      *)
(***************************************************************************)
Picked ==
    IF ~MtpAvail THEN {"ngram"}
    ELSE IF nSrc["mtp"] > 0 /\ nSrc["ngram"] > 0 THEN Source
    ELSE IF nSrc["ngram"] > 0 THEN {"ngram"} ELSE {"mtp"}

Planned ==
    {IF MtpAvail /\ (nSrc[Other(src)] < 3 \/ rounds % 32 = 15) THEN Other(src) ELSE src :
        src \in Picked}

MeasurePlain == (nPlain < 3 /\ rounds % 4 = 3) \/ rounds = 47

Worth(src) == IF nSrc[src] > 0 /\ nPlain > 0 THEN BOOLEAN ELSE {TRUE}

ProbeNever == FALSE     \* fault: what was found not worth it is off for good

ProbeDue == since >= ProbeTokens

Gated == missed /\ gen # 0

\* n tokens are emitted (slot_emit), the last probe was `from' tokens ago.
Emitted(n, from) ==
    /\ gen' = (gen + n) % MissPeriod
    /\ since' = Capped(from + n)

(***************************************************************************)
(* A round that decodes plainly: the slot is gated, nothing was planned,   *)
(* or the planned source has no draft.                                     *)
(***************************************************************************)
Plain(from) ==
    /\ nPlain' = Upto3(nPlain + 1)
    /\ \E n \in 1 .. KPlain : Emitted(n, from)
    /\ UNCHANGED <<rounds, nSrc, missed>>

(***************************************************************************)
(* A round that verifies a draft of src; the draft of a source that has    *)
(* none may come from the other one, and is measured as the planned one's. *)
(***************************************************************************)
Verified(src, from) ==
    /\ \E acc \in 0 .. DraftLen :
          /\ Emitted(acc + 1, from)
          /\ missed' = (acc = 0)
    /\ rounds' = (rounds + 1) % 64
    /\ nSrc' = [nSrc EXCEPT ![src] = Upto3(@ + 1)]
    /\ UNCHANGED nPlain

RoundGated == plan' = "gated" /\ Gated /\ Plain(since) /\ UNCHANGED alt

RoundMeasure ==
    /\ ~Gated /\ MeasurePlain
    /\ plan' = "measure"
    /\ Plain(since) /\ UNCHANGED alt

RoundOff ==
    /\ ~Gated /\ ~MeasurePlain /\ ~ProbeDue
    /\ plan' = "off"
    /\ \E src \in Planned : FALSE \in Worth(src)
    /\ Plain(since) /\ UNCHANGED alt

RoundWorth ==
    /\ ~Gated /\ ~MeasurePlain
    /\ plan' = "draft"
    /\ \E src \in Planned :
          /\ TRUE \in Worth(src)
          /\ Plain(since) \/ Verified(src, since)
    /\ UNCHANGED alt

RoundProbe ==
    /\ ~Gated /\ ~MeasurePlain /\ ProbeDue
    /\ plan' = "draft"
    /\ \E src \in Planned :
          /\ FALSE \in Worth(src)
          /\ alt' = IF MtpAvail THEN Other(alt) ELSE alt
          /\ Plain(0) \/ Verified(IF MtpAvail THEN alt' ELSE src, 0)

EconInit ==
    /\ rounds = 0 /\ nPlain = 0
    /\ nSrc = [s \in Source |-> 0]
    /\ since = 0 /\ alt = "mtp"
    /\ gen \in 0 .. MissPeriod - 1
    /\ missed = FALSE /\ plan = "gated"

EconNext == RoundGated \/ RoundMeasure \/ RoundOff \/ RoundWorth \/ RoundProbe
-----------------------------------------------------------------------------
(***************************************************************************)
(* Drafting is never off for good because it was once not worth its cost:  *)
(* as long as rounds are decoded a draft is planned again and again,       *)
(* unless the slot stays gated by its last miss (its length steps over the *)
(* multiples of MissPeriod) or econ_rounds stands where plain decoding is  *)
(* measured (it moves in a round with a draft only).                       *)
(***************************************************************************)
DraftingReturns ==
    []<>(plan = "draft") \/ <>[](plan \in {"gated", "measure"})
=============================================================================
