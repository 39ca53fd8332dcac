------------------------------- MODULE Shards -------------------------------
(***************************************************************************)
(* One sequence on the two shards of PpEngine (gpu_engine/pp.rs,           *)
(* w4a16_dec/shard.rs): every call runs the first half of the layers on    *)
(* one card and hands what comes out to the other.  Each shard keeps a     *)
(* position, a recurrent state and checkpoints of its own, as in           *)
(* GdnCheckpoint, of which this module composes two; nothing but the order *)
(* of the calls keeps them together.                                       *)
(***************************************************************************)
EXTENDS Integers, Sequences, SequencesExt, FiniteSets, FiniteSetsExt

CONSTANTS Word,         \* tokens
          Texts,        \* prompts
          CkptEvery, CkptEntries, SavedBound,
          TextMax,      \* bound: longest conversation
          GuessMax,     \* bound: longest draft
          HeadGpu       \* is the head on the second card?

ASSUME ShardsAssumption ==
    /\ Texts \subseteq Seq(Word) \ {<<>>}
    /\ CkptEvery \in Nat \ {0, 1} /\ CkptEntries \in Nat \ {0} /\ SavedBound \in Nat
    /\ TextMax \in Nat /\ GuessMax \in Nat /\ HeadGpu \in BOOLEAN

VARIABLES stateA, posA, ckA, usedA,      \* the first shard
          stateB, posB, ckB, usedB,      \* the second
          prompt, conv,                  \* as in GdnCheckpoint
          prefilled,                     \* tokens of the prompt read
          skewed,   \* did a call fail between the shards since both were
                    \* last brought to one position?
          past      \* what the sequence ever went through: "torn" (such a
                    \* failure), "twice" (a token fed twice), "guessed" (drafts)

shardA == <<stateA, posA, ckA, usedA>>
shardB == <<stateB, posB, ckB, usedB>>
rings == <<ckA, usedA, ckB, usedB>>
shardsVars == <<shardA, shardB, prompt, conv, prefilled, skewed, past>>

A == INSTANCE GdnCheckpoint WITH
        state <- stateA, pos <- posA, ckpt <- ckA, aged <- usedA,
        Token <- Word, Prompts <- Texts, Every <- CkptEvery,
        Entries <- CkptEntries, MaxLen <- TextMax, SavedMax <- SavedBound,
        Eos <- 0, KMax <- 0, DraftMax <- GuessMax, Eager <- TRUE

B == INSTANCE GdnCheckpoint WITH
        state <- stateB, pos <- posB, ckpt <- ckB, aged <- usedB,
        Token <- Word, Prompts <- Texts, Every <- CkptEvery,
        Entries <- CkptEntries, MaxLen <- TextMax, SavedMax <- SavedBound,
        Eos <- 0, KMax <- 0, DraftMax <- GuessMax, Eager <- TRUE

Served == prompt # <<>>
Happened(h) == past' = past \cup {h}

(***************************************************************************)
(* forward_2shard: the rows xs through one shard, through both.            *)
(***************************************************************************)
ThroughA(xs) ==
    /\ posA' = posA + Len(xs) /\ stateA' = stateA \o xs
    /\ A!ChainEnd(Len(xs), posA', stateA')

ThroughB(xs) ==
    /\ posB' = posB + Len(xs) /\ stateB' = stateB \o xs
    /\ B!ChainEnd(Len(xs), posB', stateB')

Through(xs) == posA + Len(xs) <= TextMax /\ ThroughA(xs) /\ ThroughB(xs)

\* A call that fails in the second shard; the sequence retries or gives up.
Torn(xs) ==
    /\ "torn" \notin past     \* bound: once
    /\ posA + Len(xs) <= TextMax
    /\ ThroughA(xs)
    /\ skewed' = TRUE /\ Happened("torn")
    /\ UNCHANGED <<shardB, prompt, conv, prefilled>>

ResetA == A!Reset /\ UNCHANGED shardB     \* fault: the second shard is left alone

ResetBoth == A!Reset /\ B!Reset

(***************************************************************************)
(* restore_prefix: each shard goes back to its latest checkpoint within l. *)
(* Where they arrive at different positions it is an error; then, and      *)
(* where there is no checkpoint, assign_slot resets both.                  *)
(***************************************************************************)
Latest(ck, l) == Max(({ck[e].pos : e \in DOMAIN ck} \cap 0 .. l) \cup {0})
At(ck, p) == Min({e \in DOMAIN ck : ck[e].pos = p})

Noted(ck, l) ==
    LET p == Latest(ck, l)
    IN  IF p = 0 THEN ck
        ELSE [ck EXCEPT ![At(ck, p)].saved = Min({@ + l - p, SavedBound})]

\* fault: the first shard's position is taken for both.
AgreedUnchecked(l) == Latest(ckA, l)

Agreed(l) == IF Latest(ckA, l) = Latest(ckB, l) THEN Latest(ckA, l) ELSE 0

BothRestored(l) ==
    LET pa == Latest(ckA, l)
        pb == Latest(ckB, l)
    IN  /\ ckA' = Noted(ckA, l) /\ usedA' = IF pa = 0 THEN usedA ELSE A!Used(At(ckA, pa))
        /\ ckB' = Noted(ckB, l) /\ usedB' = IF pb = 0 THEN usedB ELSE B!Used(At(ckB, pb))
        /\ IF Agreed(l) = 0 THEN ResetBoth
           ELSE /\ posA' = pa /\ stateA' = ckA[At(ckA, pa)].state
                /\ posB' = pb /\ stateB' = ckB[At(ckB, pb)].state

\* assign_slot: what is shared is measured on the first shard alone.
ShardAssign(p) ==
    /\ ~Served
    /\ LET l == A!Shared(p)
           full == l > 0 /\ l = Len(conv) /\ l = posA
       IN  \/ full /\ UNCHANGED <<shardA, shardB, skewed>>
           \/ l > 0 /\ ~full /\ BothRestored(l) /\ skewed' = FALSE
           \/ l = 0 /\ ResetBoth /\ skewed' = FALSE /\ UNCHANGED rings
    /\ prompt' = p /\ conv' = p /\ prefilled' = posA'
    /\ UNCHANGED past

(***************************************************************************)
(* slot_prefill: the next chunk; `prefilled' counts what calls that came   *)
(* back well have read, whatever the shards' positions are.                *)
(***************************************************************************)
Chunk(c) == SubSeq(prompt, prefilled + 1, prefilled + c)
Unread == Len(prompt) - prefilled

ShardRead(c) ==
    /\ Served /\ c <= Unread
    /\ Through(Chunk(c))
    /\ prefilled' = prefilled + c
    /\ IF c < Unread THEN UNCHANGED conv
       ELSE \E x \in Word : conv' = Append(conv, x)
    /\ UNCHANGED <<prompt, skewed, past>>

Generating == Served /\ Unread = 0 /\ Len(conv) < TextMax
Newest == <<Last(conv)>>
Emits == \E x \in Word : conv' = Append(conv, x)

\* decode, decode_greedy, decode_np_greedy and decode_np_logits.
ShardDecode ==
    /\ Generating
    /\ Through(Newest)
    /\ Emits
    /\ UNCHANGED <<prompt, prefilled, skewed, past>>

\* decode_np_mixed: with the head on the second card once for the argmax and
\* once more for the logits.
MixedDecode ==
    /\ Generating
    /\ IF HeadGpu
       THEN /\ posA + 2 <= TextMax
            /\ posA' = posA + 2 /\ stateA' = stateA \o Newest \o Newest
            /\ posB' = posB + 2 /\ stateB' = stateB \o Newest \o Newest
            /\ UNCHANGED rings
            /\ Happened("twice")
       ELSE Through(Newest) /\ UNCHANGED past
    /\ Emits
    /\ UNCHANGED <<prompt, prefilled, skewed>>

(***************************************************************************)
(* spec_verify: the first shard runs the drafts as a prefill, always       *)
(* eagerly, the second may replay a graph; then spec_rollback and          *)
(* spec_rewind_pos on both.                                                *)
(***************************************************************************)
ShardVerify(draft, acc, graph) ==
    LET rows == Newest \o draft
        kept == Newest \o SubSeq(draft, 1, acc)
        Passed(s, p) == [s |-> s \o rows, p |-> p + Len(rows)]
    IN  /\ Generating /\ draft # <<>> /\ acc \in 0 .. Len(draft)
        /\ Len(conv) + Len(rows) <= TextMax /\ posA + Len(rows) <= TextMax
        /\ A!ChainEnd(Len(rows), Passed(stateA, posA).p, Passed(stateA, posA).s)
        /\ IF graph THEN UNCHANGED <<ckB, usedB>>
           ELSE B!ChainEnd(Len(rows), Passed(stateB, posB).p, Passed(stateB, posB).s)
        /\ posA' = posA + Len(kept) /\ stateA' = stateA \o kept
        /\ posB' = posB + Len(kept) /\ stateB' = stateB \o kept
        /\ \E x \in Word : conv' = conv \o Tail(kept) \o <<x>>
        /\ Happened("guessed")
        /\ UNCHANGED <<prompt, prefilled, skewed>>

Runs ==
    IF Served /\ Unread > 0 THEN {Chunk(c) : c \in 1 .. Unread}
    ELSE IF Generating THEN {Newest} \cup {Newest \o <<x>> : x \in Word} ELSE {}

(***************************************************************************)
(* finish_slot keeps the conversation, or resets both shards.              *)
(***************************************************************************)
ShardFinish ==
    /\ Served /\ Unread = 0
    /\ \E n \in Len(prompt) .. Len(conv) : conv' = SubSeq(conv, 1, n)
    /\ prompt' = <<>>
    /\ UNCHANGED <<shardA, shardB, prefilled, skewed, past>>

ShardFail ==
    /\ Served
    /\ ResetBoth /\ skewed' = FALSE
    /\ prompt' = <<>> /\ conv' = <<>>
    /\ UNCHANGED <<rings, prefilled, past>>

ShardReclaim ==
    /\ ~Served /\ conv # <<>>
    /\ conv' = <<>>
    /\ UNCHANGED <<shardA, shardB, prompt, prefilled, skewed, past>>

ShardsInit ==
    /\ stateA = <<>> /\ posA = 0 /\ ckA = [e \in A!RingEntry |-> A!NoCkpt] /\ usedA = [i \in A!RingEntry |-> i]
    /\ stateB = <<>> /\ posB = 0 /\ ckB = [e \in B!RingEntry |-> B!NoCkpt] /\ usedB = [i \in B!RingEntry |-> i]
    /\ prompt = <<>> /\ conv = <<>> /\ prefilled = 0
    /\ skewed = FALSE /\ past = {}

ShardsNext ==
    \/ \E p \in Texts : ShardAssign(p)
    \/ \E c \in 1 .. TextMax : ShardRead(c)
    \/ ShardDecode
    \/ MixedDecode
    \/ \E xs \in Runs : Torn(xs)
    \/ \E draft \in BoundedSeq(Word, GuessMax) : \E acc \in 0 .. Len(draft) :
          \E graph \in BOOLEAN : ShardVerify(draft, acc, graph)
    \/ ShardFinish
    \/ ShardFail
    \/ ShardReclaim

ShardsSpec == ShardsInit /\ [][ShardsNext]_shardsVars
-----------------------------------------------------------------------------
(***************************************************************************)
(* The shards go together: they stand at different positions only after a  *)
(* call failed between them, and then only until the sequence is reset or  *)
(* restored, although restore_prefix moves each by its own checkpoints;    *)
(* and both have read the conversation, token by token, whatever was       *)
(* reused, unless one of the three things recorded in past happened.       *)
(***************************************************************************)
ShardsInStep ==
    /\ ~skewed => posA = posB
    /\ Served /\ past = {} =>
          /\ stateA = SubSeq(conv, 1, posA)
          /\ stateB = SubSeq(conv, 1, posB)
=============================================================================
