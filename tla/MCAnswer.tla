------------------------------ MODULE MCAnswer ------------------------------
(***************************************************************************)
(* The way of an answer as TLC checks it, in parts that do not interact    *)
(* but by their results: the requests of a connection (HttpReader), the    *)
(* tokens of the prompt (Tokenizer), the rounds that decode those of the   *)
(* answer (DecodeRounds), the draws of a sampled one (Sampler), the choice *)
(* of rounds with drafts (DraftEcon), the tokens a schema allows           *)
(* (Constrained), the text the client is shown (TextStream) and the        *)
(* connection that waits for it (Front).  A behavior is one of one part,   *)
(* the others stay as they began.                                          *)
(***************************************************************************)
EXTENDS Tokenizer, DecodeRounds, Sampler, DraftEcon, MCConstrained, TextStream, Front,
        HttpReader

VARIABLE part

rest == <<roundsVars, econVars, consVars, textVars, frontVars, codeVars>>
answerVars == <<part, rest, samplerVars, readerVars>>

\* "E" is a letter of two bytes, "^" an accent, "n" the newline; a blank and a
\* newline are written as units of two bytes.  One merge of each scheme yields
\* what the vocabulary does not have.
MCChar == {"s", "l", "'", " ", "n", "1", "^", "E", "_"}
MCUtf8 == [c \in MCChar |-> IF c = "E" THEN <<"x", "y">> ELSE <<c>>]
MCLower == [c \in MCChar |-> c]
MCB2c ==
    [b \in (MCChar \ {"E"}) \cup {"x", "y"} |->
        CASE b = " " -> "G" [] b = "n" -> "C" [] OTHER -> b]

Pair(l, r) == <<l, r>>
QwenMerges ==
    << Pair(<<"s">>, <<"l">>), Pair(<<"l">>, <<"s">>), Pair(<<"G">>, <<"s">>),
       Pair(<<"l">>, <<"l">>), Pair(<<"x">>, <<"y">>), Pair(<<"l">>, <<"x", "y">>),
       Pair(<<"s", "l">>, <<"l">>), Pair(<<"'">>, <<"s">>), Pair(<<"G", "s">>, <<"l", "l">>) >>
GemmaMerges ==
    << Pair(<<"l">>, <<"s">>), Pair(<<"_">>, <<"l">>), Pair(<<"s">>, <<"s">>),
       Pair(<<"_", "l">>, <<"s", "s">>), Pair(<<"s", "s">>, <<"l">>) >>
MCMerges == [s \in Schemes |-> IF s = "Gemma" THEN GemmaMerges ELSE QwenMerges]

Yields(ms) == {m[1] \o m[2] : m \in ToSet(ms)}
MCKnown ==
    [s \in Schemes |->
        IF s = "Gemma"
        THEN ({<<c>> : c \in MCChar \ {"E", "^"}} \cup Yields(GemmaMerges)) \ {<<"s", "s", "l">>}
        ELSE ({<<MCB2c[b]>> : b \in DOMAIN MCB2c} \cup Yields(QwenMerges)) \ {<<"l", "s">>}]

MCSpecials == << <<"s", "1">>, <<"s", "1", "n">> >>
MCUserSpecials == << <<"1", "'">> >>

\* Every short text, and longer ones of the characters that merge.
MCTexts ==
    (BoundedSeq(MCChar \ {"_"}, 2) \cup BoundedSeq({"s", "1", " ", "n"}, 3)
        \cup BoundedSeq({"s", "l"}, 6) \cup BoundedSeq({" ", "s", "l"}, 4)
        \cup BoundedSeq({"E", "l", "'"}, 3)
        \cup { <<"l", "E", "^", "l">>, <<"1", "^", " ", "'", "n">>, <<" ", " ", "s", "'", "s">> }) \ {<<>>}

MCPieces == {<<"a">>, <<"b">>, <<"a", "b">>, <<"b", "c", "L">>, <<"C">>, <<"C", "a">>, <<"b", "L">>}
MCStops == << <<"b", "L", "C", "a">>, <<"a", "b", "c">>, <<"c">> >>

\* Rows with ties, with tokens below the cut and without some tokens or all;
\* weights of e^-d as powers of two.
Row(a, b, c, d) == [t \in {0, 1, 2, 3} |-> CASE t = 0 -> a [] t = 1 -> b [] t = 2 -> c [] t = 3 -> d]
MCRows ==
    {Row(0, 0, 0, 0), Row(1, 0, 2, 0), Row(4, 0, -1, 0), Row(3, 3, 0, 1), Row(-2, 2, 1, 0), 
     Row(0, 2, -1, -2), [t \in {0, 2} |-> t], [t \in {1} |-> 1], [t \in {1, 2, 3} |-> 2], <<>>}
MCWeight ==
    [t \in {"cold", "one", "hot"} |->
        CASE t = "cold" -> [d \in 0 .. 8 |-> <<256, 64, 16, 4, 1, 1, 1, 1, 1>>[d + 1]]
          [] t = "one" -> [d \in 0 .. 8 |-> <<256, 128, 64, 32, 16, 8, 4, 2, 1>>[d + 1]]
          [] t = "hot" -> [d \in 0 .. 8 |-> <<256, 181, 128, 90, 64, 45, 32, 23, 16>>[d + 1]]]
Ask(temp, topK, topP, minP, penalty) ==
    [temp |-> temp, topK |-> topK, topP |-> topP, minP |-> minP, penalty |-> penalty, lastN |-> 4]
MCAsks ==
    {Ask("one", 0, 20, 0, 1), Ask("one", 0, 18, 0, 1), Ask("cold", 0, 19, 0, 2),
     Ask("one", 2, 20, 0, 2), Ask("one", 2, 19, 0, 1),
     Ask("one", 0, 20, 5, 1), Ask("cold", 0, 10, 2, 1), Ask("hot", 0, 18, 0, 1), Ask("zero", 0, 19, 0, 1),
     Ask("zero", 0, 20, 0, 2), Ask("one", 3, 17, 3, 2)}
MCOpenings == {<<0, 1, 0>>, <<2, 2>>, <<3, 1, 2, 3>>}

\* A body in one piece or in chunks, with the ends of lines in it and a trailer;
\* a header line that is too long.
Word == <<"word", 1>>
Name == <<"word", 2>>
Call(first, headers, chunked, bd, trailers) ==
    [first |-> first, headers |-> headers, chunked |-> chunked, body |-> bd, trailers |-> trailers]
MCRequests ==
    { Call(<<Name>>, <<>>, FALSE, <<<<Lf, Name>>>>, <<>>),
      Call(<<Word>>, <<>>, TRUE, <<<<Cr, Lf>>, <<Name>>>>, <<<<Word>>>>),
      Call(<<Word>>, <<<<Word, Name, Word>>>>, FALSE, <<>>, <<>>) }

AnswerInit ==
    /\ part \in {"rounds", "draws", "econ", "cons", "text", "front", "reader", "code"}
    /\ IF part = "rounds" THEN RoundsInit
       ELSE /\ truth = [i \in 1 .. TruthLen |-> Eos] /\ predict = 0 /\ sampled = FALSE
            /\ fed = <<>> /\ emitted = <<>> /\ answer = <<>> /\ errs = 0 /\ phase = "prefill"
    /\ EconInit /\ (part # "econ" => gen = 0)
    /\ IF part = "cons" THEN ConsInit
       ELSE schema = OneField(Of("boolean")) /\ nfa = Step(Begin, {"}"}) /\ states = {0} /\ text = <<"}">> /\ over = FALSE
    /\ TextInit /\ (part # "text" => ~include)
    /\ FrontInit /\ CodeInit
    /\ how \in IF part = "draws" THEN Asks ELSE {Ask("one", 0, 20, 0, 1)}
    /\ said \in IF part = "draws" THEN Openings ELSE {<<2, 2>>}
    /\ SamplerInit
    /\ calls \in IF part = "reader" THEN BoundedSeq(Requests, Calls) ELSE {<<>>}
    /\ ReaderInit

Still(Vars) == UNCHANGED <<part, Vars, samplerVars, readerVars>>

RoundsStep == part = "rounds" /\ RoundsNext /\ Still(<<econVars, consVars, textVars, frontVars, codeVars>>)
EconStep == part = "econ" /\ EconNext /\ Still(<<roundsVars, consVars, textVars, frontVars, codeVars>>)
ConsStep == part = "cons" /\ ConsNext /\ Still(<<roundsVars, econVars, textVars, frontVars, codeVars>>)
TextStep == part = "text" /\ TextNext /\ Still(<<roundsVars, econVars, consVars, frontVars, codeVars>>)
OfFront(A) == part = "front" /\ A /\ Still(<<roundsVars, econVars, consVars, textVars, codeVars>>)
CodeStep == part = "code" /\ CodeNext /\ Still(<<roundsVars, econVars, consVars, textVars, frontVars>>)
DrawsStep == part = "draws" /\ SamplerNext /\ UNCHANGED <<part, rest, readerVars>>
ReaderStep == part = "reader" /\ ReaderNext /\ UNCHANGED <<part, rest, samplerVars>>

AnswerNext ==
    \/ ReaderStep \/ CodeStep \/ RoundsStep \/ DrawsStep
    \/ EconStep \/ ConsStep \/ TextStep \/ OfFront(FrontNext)

(***************************************************************************)
(* slot_loop goes on decoding while a slot has a request.  The thread of a *)
(* connection goes on where it does not wait for its client; the engine    *)
(* takes jobs and ends each of them, as SlotSched shows (Drained), unless  *)
(* it panics, and then it unwinds.                                         *)
(***************************************************************************)
FrontFairness ==
    /\ \A c \in Conn : WF_answerVars(OfFront(Thread(c)))
    /\ \A c \in Conn : WF_answerVars(OfFront(FinishJob(c)))
    /\ WF_answerVars(OfFront(Take \/ Unwound))

AnswerSpec ==
    /\ AnswerInit /\ [][AnswerNext]_answerVars
    /\ WF_answerVars(RoundsStep) /\ WF_answerVars(EconStep)
    /\ FrontFairness

(***************************************************************************)
(* Answered of DecodeRounds, in its part.                                  *)
(***************************************************************************)
RequestsAnswered == part = "rounds" => Answered

(***************************************************************************)
(* DraftingReturns of DraftEcon, in its part.                              *)
(***************************************************************************)
DraftsReturn == part = "econ" => DraftingReturns

(***************************************************************************)
(* Requests at temperature zero alone.                                     *)
(***************************************************************************)
ZeroSpec ==
    AnswerInit /\ part = "draws" /\ how.temp = "zero" /\ [][AnswerNext]_answerVars
=============================================================================
