----------------------------- MODULE TextStream -----------------------------
(***************************************************************************)
(* How the tokens of an answer become the text a client is shown:          *)
(* TextStream and earliest_stop (oai/stream.rs), Detok (engine.rs), the    *)
(* loops over the tokens of run_and_emit and run_and_emit_anthropic        *)
(* (oai/mod.rs).                                                           *)
(*                                                                         *)
(* Text is a sequence of bytes of which only the role in UTF-8 counts: a   *)
(* lead byte, its continuation, or a character of one byte.  (Two bytes    *)
(* stand for the longer forms, which the code treats alike.)  A token is   *)
(* any of Pieces: it may end, and even begin, in the middle of a           *)
(* character.                                                              *)
(***************************************************************************)
EXTENDS Integers, Sequences, SequencesExt, FiniteSetsExt

CONSTANTS Pieces,       \* the bytes of the tokens
          Lead, Cont,   \* the two bytes of a longer character
          StopStrings,  \* the stop strings, in the order of the request
          TokenMax      \* tokens of an answer: the bound of the model

TextByte == UNION {ToSet(p) : p \in Pieces \union ToSet(StopStrings)}

ASSUME TextAssumption ==
    /\ Lead # Cont /\ TokenMax \in Nat
    /\ Pieces \subseteq Seq(TextByte) /\ StopStrings \in Seq(Seq(TextByte))

VARIABLES include,   \* include_stop_str_in_output
          toks,      \* the tokens so far
          buf,       \* Detok: bytes of a character that is not complete
          acc,       \* the text
          sent,      \* how much of it was shown
          scanFrom,  \* where the next search for a stop string begins
          stopped,   \* a stop string was found
          flushed,   \* the loop ended and the rest was shown
          shown      \* what the client received

textVars == <<include, toks, buf, acc, sent, scanFrom, stopped, flushed, shown>>

(***************************************************************************)
(* complete_utf8_prefix: how much of the buffer is complete characters.    *)
(***************************************************************************)
WellFormed(b) == \A i \in DOMAIN b :
    /\ b[i] = Lead => i < Len(b) /\ b[i + 1] = Cont
    /\ b[i] = Cont => i > 1 /\ b[i - 1] = Lead

\* What a client sends is whole characters.
ASSUME StopAssumption == \A s \in ToSet(StopStrings) : WellFormed(s)

CompletePrefixBytes(b) == Len(b)     \* fault: characters are cut

CompletePrefix(b) == Max({v \in 0 .. Len(b) : WellFormed(SubSeq(b, 1, v))})

\* floor_char_boundary
Boundary(t, i) == i = 0 \/ i = Len(t) \/ t[i + 1] # Cont
FloorChar(t, i) == Max({j \in 0 .. i : Boundary(t, j)})

(***************************************************************************)
(* earliest_stop: each stop string is looked for from base on, and the one *)
(* that is found first in the text wins, among those at the same place the *)
(* one listed first.                                                       *)
(***************************************************************************)
At(t, s, from) == {p \in from .. Len(t) - Len(s) : SubSeq(t, p + 1, p + Len(s)) = s}

Found(t, from) == {k \in DOMAIN StopStrings : StopStrings[k] # <<>> /\ At(t, StopStrings[k], from) # {}}

FirstAt(t, k, from) == Min(At(t, StopStrings[k], from))

Earliest(t, from) ==
    LET base == FloorChar(t, Min({from, Len(t)}))
        place(k) == FirstAt(t, k, base)
    IN  CHOOSE k \in Found(t, base) : \A j \in Found(t, base) :
            place(k) < place(j) \/ (place(k) = place(j) /\ k <= j)

\* Where the text ends for stop string k found from base on.
CutAt(t, k, from) ==
    FirstAt(t, k, from) + IF include THEN Len(StopStrings[k]) ELSE 0

\* The longest stop string may have begun this long before its last byte.
Holdback == IF StopStrings = <<>> THEN 0
            ELSE Max({IF StopStrings[k] = <<>> THEN 0 ELSE Len(StopStrings[k]) - 1 : k \in DOMAIN StopStrings})

ToZero(n) == IF n < 0 THEN 0 ELSE n

\* Shows the text from sent up to end, if there is any.
Show(end) ==
    /\ sent' = IF end > sent THEN end ELSE sent
    /\ shown' = IF end > sent THEN shown \o SubSeq(acc', sent + 1, end) ELSE shown

(***************************************************************************)
(* TextStream::push of the next token.                                     *)
(***************************************************************************)
ScanFromEnd(before) == before     \* fault: the search goes on at the end

ScanFrom(before) == ToZero(before - Holdback)

Push(p) ==
    /\ ~stopped /\ ~flushed /\ Len(toks) < TokenMax
    /\ toks' = Append(toks, p)
    /\ LET b == buf \o p
           v == CompletePrefix(b)
       IN  /\ acc' = acc \o SubSeq(b, 1, v)
           /\ buf' = SubSeq(b, v + 1, Len(b))
    /\ LET base == FloorChar(acc', Min({scanFrom, Len(acc')}))
       IN  IF Found(acc', base) # {}
           THEN /\ stopped' = TRUE
                /\ Show(CutAt(acc', Earliest(acc', scanFrom), base))
                /\ UNCHANGED scanFrom
           ELSE /\ scanFrom' = ScanFrom(Len(acc))
                /\ Show(FloorChar(acc', ToZero(Len(acc') - Holdback)))
                /\ UNCHANGED stopped
    /\ UNCHANGED <<include, flushed>>

(***************************************************************************)
(* The loop ends with a stop string, with the end of the sequence or when  *)
(* the scheduler is done, and flush shows what was held back.              *)
(***************************************************************************)
FlushNothing ==     \* fault: what was held back is forgotten
    /\ ~flushed
    /\ flushed' = TRUE
    /\ UNCHANGED <<include, toks, buf, acc, sent, scanFrom, stopped, shown>>

Flush ==
    /\ ~flushed
    /\ flushed' = TRUE
    /\ IF stopped THEN UNCHANGED <<sent, shown>>
       ELSE /\ sent' = Len(acc)
            /\ shown' = shown \o SubSeq(acc, sent + 1, Len(acc))
    /\ UNCHANGED <<include, toks, buf, acc, scanFrom, stopped>>

TextInit ==
    /\ include \in BOOLEAN
    /\ toks = <<>> /\ buf = <<>> /\ acc = <<>> /\ shown = <<>>
    /\ sent = 0 /\ scanFrom = 0
    /\ stopped = FALSE /\ flushed = FALSE

TextNext == (\E p \in Pieces : Push(p)) \/ Flush

TextSpec == TextInit /\ [][TextNext]_textVars

(***************************************************************************)
(* The answer of a request that is not streamed, from the same tokens: the *)
(* text grows token by token too, but of the stop strings the first one    *)
(* listed that occurs anywhere in it cuts it.                              *)
(***************************************************************************)
TextOf(ts) ==
    LET all == FlattenSeq(ts)
    IN  SubSeq(all, 1, CompletePrefix(all))

Whole(ts) ==
    LET text(n) == TextOf(SubSeq(ts, 1, n))
        hits == {n \in 0 .. Len(ts) : Found(text(n), 0) # {}}
    IN  IF hits = {} THEN TextOf(ts)
        ELSE LET t == text(Min(hits))
             IN  SubSeq(t, 1, CutAt(t, Min(Found(t, 0)), 0))
-----------------------------------------------------------------------------
TextTypeOK ==
    /\ toks \in Seq(Pieces) /\ Len(toks) <= TokenMax
    /\ WellFormed(acc) /\ WellFormed(shown)
    /\ include \in BOOLEAN
    /\ sent \in 0 .. Len(acc) /\ scanFrom \in Nat
    /\ stopped \in BOOLEAN /\ flushed \in BOOLEAN

(***************************************************************************)
(* Streaming in pieces cuts where a search of the whole text would: with   *)
(* no stop string found there is none in the text, and with one the client *)
(* was shown the text before the earliest of all, nothing less and nothing *)
(* of the stop string itself, although it came in several tokens, most of  *)
(* the text had been shown before, and the search skips what it has seen.  *)
(***************************************************************************)
CutAtEarliest ==
    IF ~stopped THEN Found(acc, 0) = {}
    ELSE shown = SubSeq(acc, 1, CutAt(acc, Earliest(acc, 0), 0))

(***************************************************************************)
(* Streamed or not, a request with one stop string in its text is answered *)
(* with the same text: nothing is lost at the end of a stream, cut inside  *)
(* a character, or shown twice.                                            *)
(***************************************************************************)
StreamIsAnswer ==
    flushed /\ Cardinality(Found(acc, 0)) <= 1 => shown = Whole(toks)
=============================================================================
