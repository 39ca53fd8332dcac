---------------------------- MODULE GdnCheckpoint ----------------------------
(***************************************************************************)
(* The recurrent (GDN) state of one slot of the Qwen engine and its ring   *)
(* of checkpoints (w4a16_dec/spec.rs), as assign_slot, slot_prefill and    *)
(* spec_round use them.  The state is what it was computed from: the       *)
(* sequence of tokens it consumed.  The checkpoints of a slot are its own, *)
(* so one slot is enough.                                                  *)
(***************************************************************************)
EXTENDS Integers, Sequences, SequencesExt, FiniteSets, FiniteSetsExt

CONSTANTS Token,
          Prompts,      \* prompts the clients send
          Every,        \* a checkpoint is taken at multiples of it (512)
          Entries,      \* checkpoints of a slot (4)
          MaxLen,       \* bound: longest conversation
          SavedMax,     \* where `saved' saturates (u32::MAX)
          Eos,          \* the end-of-sequence token
          KMax,         \* decode steps of one k-step (KSTEP_K, 4); below 2: none
          DraftMax,     \* bound: the longest draft; 0: no speculative decoding
          Eager         \* may a verify pass run before its graph is captured?

ASSUME GdnAssumption ==
    /\ Prompts \subseteq Seq(Token) \ {<<>>}
    /\ Every \in Nat \ {0, 1} /\ Entries \in Nat \ {0}
    /\ MaxLen \in Nat /\ SavedMax \in Nat /\ KMax \in Nat
    /\ DraftMax \in Nat /\ Eager \in BOOLEAN

VARIABLES state,     \* tokens the recurrent state consumed
          pos,       \* slot_pos
          prompt,    \* the prompt being served, or <<>>
          conv,      \* the prompt and the tokens generated; idle: `cached'
          ckpt,      \* the checkpoints: position, state saved and work saved
          aged       \* the entries by dchk_use, the oldest first

gdnVars == <<state, pos, prompt, conv, ckpt, aged>>
ring == <<ckpt, aged>>

Idle == prompt = <<>>
RingEntry == 1 .. Entries

(***************************************************************************)
(* checkpoint_gdn: the entry that saved the least work, the longest unused *)
(* of them, is overwritten.                                                *)
(***************************************************************************)
Used(k) == Append(SelectSeq(aged, LAMBDA e : e # k), k)

Victim ==
    LET least == Min({ckpt[e].saved : e \in RingEntry})
    IN  aged[Min({i \in DOMAIN aged : ckpt[aged[i]].saved = least})]

Checkpoint(p, s) ==
    /\ ckpt' = [ckpt EXCEPT ![Victim] = [pos |-> p, state |-> s, saved |-> 0]]
    /\ aged' = Used(Victim)

\* chain_t of t tokens ending at p with state s: a checkpoint where p is a
\* multiple of Every, none for a single token.
ChainEnd(t, p, s) ==
    IF t > 1 /\ p % Every = 0 THEN Checkpoint(p, s) ELSE UNCHANGED ring

(***************************************************************************)
(* reset_seq: the state and the position, not the checkpoints.             *)
(***************************************************************************)
ResetPositionOnly == pos' = 0 /\ UNCHANGED state     \* fault

Reset == pos' = 0 /\ state' = <<>>

(***************************************************************************)
(* restore_gdn(l): the latest checkpoint at or before l, the first entry   *)
(* that has its position.                                                  *)
(***************************************************************************)
Usable(l) == {e \in RingEntry : ckpt[e].pos \in 1 .. l}

Restore(l) ==
    LET p == Max({ckpt[e].pos : e \in Usable(l)})
        k == Min({e \in RingEntry : ckpt[e].pos = p})
    IN  /\ state' = ckpt[k].state
        /\ pos' = p
        /\ ckpt' = [ckpt EXCEPT ![k].saved = Min({@ + l - p, SavedMax})]
        /\ aged' = Used(k)

(***************************************************************************)
(* assign_slot: l tokens are shared, of which the state covers pos and the *)
(* last token of the prompt is left to read.                               *)
(***************************************************************************)
Shared(p) == Min({Len(LongestCommonPrefix({conv, p})), pos, Len(p) - 1})

Assign(p) ==
    /\ Idle
    /\ LET l == Shared(p)
       IN  \/ /\ l > 0 /\ l = Len(conv) /\ l = pos
              /\ UNCHANGED <<state, pos, ring>>
           \/ /\ l > 0 /\ ~(l = Len(conv) /\ l = pos) /\ Usable(l) # {}
              /\ Restore(l)
           \/ /\ l = 0 \/ (~(l = Len(conv) /\ l = pos) /\ Usable(l) = {})
              /\ Reset
              /\ UNCHANGED ring
    /\ prompt' = p
    /\ conv' = p

(***************************************************************************)
(* slot_prefill: the next c tokens; the last chunk yields a token.         *)
(***************************************************************************)
Read(c) ==
    /\ ~Idle /\ c \in 1 .. Len(prompt) - pos
    /\ pos' = pos + c
    /\ state' = state \o SubSeq(prompt, pos + 1, pos + c)
    /\ ChainEnd(c, pos', state')
    /\ \/ pos' < Len(prompt) /\ UNCHANGED conv
       \/ pos' = Len(prompt) /\ \E x \in Token : conv' = Append(conv, x)
    /\ UNCHANGED prompt

\* The prompt is read, and the last token emitted is the next one to feed.
Decoding == ~Idle /\ pos >= Len(prompt)
Going == Decoding /\ Last(conv) # Eos
Next1 == <<Last(conv)>>

Decode ==
    /\ Going /\ Len(conv) < MaxLen
    /\ pos' = pos + 1
    /\ state' = state \o Next1
    /\ \E x \in Token : conv' = Append(conv, x)
    /\ UNCHANGED <<prompt, ring>>

(***************************************************************************)
(* decode_k_greedy: the graph of one step is launched k times.  The        *)
(* controller counts the n tokens up to the end of the sequence, but the   *)
(* launches after it run all the same and the recurrent state takes their  *)
(* tokens.  A conversation that ended is the one finish_slot keeps.        *)
(***************************************************************************)
Upto(xs) ==
    IF Eos \in ToSet(xs) THEN Min({i \in DOMAIN xs : xs[i] = Eos}) ELSE Len(xs)

KStep(xs) ==
    LET n == Upto(xs)
    IN  /\ Going /\ Len(xs) \in 2 .. KMax /\ Len(conv) + Len(xs) <= MaxLen
        /\ pos' = pos + n
        /\ state' = state \o Next1 \o Front(xs)
        /\ IF xs[n] = Eos
           THEN prompt' = <<>> /\ conv' = conv \o SubSeq(xs, 1, n - 1)
           ELSE conv' = conv \o xs /\ UNCHANGED prompt
        /\ UNCHANGED ring

(***************************************************************************)
(* spec_round: the verify pass runs the last token and the draft, and ends *)
(* like any chain_t unless it replays a captured graph; then state and     *)
(* position are rolled back to the acc drafts that were right, and acc     *)
(* tokens and the model's own next one are emitted.                        *)
(***************************************************************************)
KeptWhole(draft, acc) == Next1 \o draft     \* fault: the state is not rolled back

Kept(draft, acc) == Next1 \o SubSeq(draft, 1, acc)

Verify(draft, acc, graph) ==
    /\ Going /\ draft # <<>>
    /\ acc \in 0 .. Len(draft)
    /\ Len(conv) + Len(draft) + 1 <= MaxLen
    /\ IF graph THEN UNCHANGED ring
       ELSE ChainEnd(1 + Len(draft), pos + 1 + Len(draft), state \o Next1 \o draft)
    /\ pos' = pos + 1 + acc
    /\ state' = state \o Kept(draft, acc)
    /\ \E x \in Token :
        /\ acc < Len(draft) => x # draft[acc + 1]
        /\ conv' = conv \o SubSeq(draft, 1, acc) \o <<x>>
    /\ UNCHANGED prompt

(***************************************************************************)
(* finish_slot keeps the conversation, without the stop token it ended on  *)
(* and without what a verify round generated beyond n_predict; reset_seq   *)
(* after a failure and reclaim_idle forget it.                             *)
(***************************************************************************)
Finish ==
    /\ Decoding /\ Len(conv) > Len(prompt)
    /\ \E n \in IF DraftMax > 0 THEN Len(prompt) .. Len(conv) ELSE {Len(conv) - 1, Len(conv)} :
          conv' = SubSeq(conv, 1, n)
    /\ prompt' = <<>>
    /\ UNCHANGED <<state, pos, ring>>

Fail ==
    /\ ~Idle
    /\ Reset
    /\ prompt' = <<>> /\ conv' = <<>>
    /\ UNCHANGED ring

Reclaim ==
    /\ Idle /\ conv # <<>>
    /\ conv' = <<>>
    /\ UNCHANGED <<state, pos, prompt, ring>>

NoCkpt == [pos |-> 0, state |-> <<>>, saved |-> 0]

GdnInit ==
    /\ state = <<>> /\ pos = 0 /\ prompt = <<>> /\ conv = <<>>
    /\ ckpt = [e \in RingEntry |-> NoCkpt]
    /\ aged = [i \in RingEntry |-> i]

GdnNext ==
    \/ \E p \in Prompts : Assign(p)
    \/ \E c \in 1 .. Len(prompt) - pos : Read(c)
    \/ Decode
    \/ \E xs \in BoundedSeq(Token, KMax) : KStep(xs)
    \/ \E draft \in BoundedSeq(Token, DraftMax) : \E acc \in 0 .. Len(draft) :
          \E graph \in {TRUE, ~Eager} : Verify(draft, acc, graph)
    \/ Finish
    \/ Fail
    \/ Reclaim

GdnSpec == GdnInit /\ [][GdnNext]_gdnVars
-----------------------------------------------------------------------------
(***************************************************************************)
(* Lossless reuse: while a request is served, the recurrent state is the   *)
(* one its own tokens lead to, as if nothing had been reused: whichever    *)
(* conversation left the checkpoint, and whatever happened to the slot     *)
(* since.                                                                  *)
(***************************************************************************)
LosslessReuse ==
    ~Idle => pos <= Len(conv) /\ state = SubSeq(conv, 1, pos)
=============================================================================
