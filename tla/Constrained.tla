----------------------------- MODULE Constrained -----------------------------
(***************************************************************************)
(* Answers held to a JSON schema: the automaton that compile builds of the *)
(* schema (oai/schema.rs), the Constraint that follows it, and pick        *)
(* (sched/decode.rs), which takes a token it allows.                       *)
(*                                                                         *)
(* A text is a sequence of symbols: a character, or a literal of which     *)
(* only the whole matters (true, false, a key with its quotes and colon).  *)
(***************************************************************************)
EXTENDS Integers, Sequences, SequencesExt, FiniteSets, FiniteSetsExt

CONSTANTS Schemas,     \* the schemas of the requests
          Ordinary,    \* what a string is made of, but for escapes
          Vocab,       \* the texts of the vocabulary's tokens
          TextMax      \* symbols of an answer: the bound of the model

Quote == "'"
Escape == "\\"
Digits == {"0", "1"}   \* 1 stands for the digits from 1 to 9

VARIABLES schema,   \* the schema of the request
          nfa,      \* its automaton
          states,   \* where the automaton may be
          text,     \* what was committed
          over      \* nothing was allowed any more: the job is stopped

consVars == <<schema, nfa, states, text, over>>

(***************************************************************************)
(* The automaton under construction: the number of states, the edges, and  *)
(* the states the next part begins at.                                     *)
(***************************************************************************)
Begin == [size |-> 0, edges |-> {}, ends |-> {0}]

From(a, S) == [a EXCEPT !.ends = S]

\* chr and cls: a new state, and an edge to it from each end.
Step(a, C) ==
    [size |-> a.size + 1,
     edges |-> a.edges \union {<<s, C, a.size>> : s \in a.ends},
     ends |-> {a.size}]

Link(a, S, C, T) == [a EXCEPT !.edges = @ \union {<<s, C, t>> : s \in S, t \in T}]

Literal(a, l) == FoldLeft(LAMBDA b, c : Step(b, {c}), a, l)

\* The automata of two alternatives, the second built after the first.
Either(a, First(_), Second(_)) ==
    LET one == First(a)
        two == Second(From(one, a.ends))
    IN  From(two, one.ends \union two.ends)

String(a) ==
    LET body == Step(a, {Quote})
        loop == Link(body, body.ends, Ordinary, body.ends)
        close == Step(loop, {Quote})
        esc == Step(From(close, body.ends), {Escape})
        back == Step(esc, Ordinary \union {Quote, Escape})
        whole == Link(back, back.ends, Ordinary \union {Quote, Escape}, body.ends)
    IN  From(whole, close.ends)

Many(a) == Link(a, a.ends, Digits, a.ends)

Natural(a) == Either(a, LAMBDA b : Step(b, {"0"}), LAMBDA b : Many(Step(b, {"1"})))

Integer(a) ==
    LET minus == Step(a, {"-"})
        pos == Natural(From(minus, a.ends))
        neg == Natural(From(pos, minus.ends))
    IN  From(neg, pos.ends \union neg.ends)

\* An optional part behind the ends.  (The code builds it for each of them.)
Maybe(a, Part(_)) == LET b == Part(a) IN From(b, a.ends \union b.ends)

BareFraction(a) == Many(Step(a, {"."}))     \* fault: digits may be missing

Fraction(a) == Many(Step(Step(a, {"."}), Digits))

Exponent(a) ==
    LET e == Step(a, {"e"})
    IN  Many(Step(From(Step(e, {"+", "-"}), e.ends \union {e.size}), Digits))

Number(a) == Maybe(Maybe(Integer(a), Fraction), Exponent)

OneOf(a, Texts) ==
    FoldSet(LAMBDA l, b :
                LET c == Literal(From(b, a.ends), l)
                IN  From(c, b.ends \union c.ends),
            From(a, {}), Texts)

(***************************************************************************)
(* compile.  The fields of an object come in the order of the schema, each *)
(* one exactly once.                                                       *)
(***************************************************************************)
RECURSIVE Compile(_, _)

Field(a, i, field) ==
    Compile(Literal(a, (IF i > 1 THEN <<",">> ELSE <<>>) \o <<field.key>>), field.of)

FieldsNarrow(a, props) ==     \* fault: goes on from one end of a value only
    FoldLeftDomain(LAMBDA b, i : LET c == Field(b, i, props[i])
                                 IN  From(c, {Min(c.ends)}), a, props)

Fields(a, props) ==
    FoldLeftDomain(LAMBDA b, i : Field(b, i, props[i]), a, props)

Compile(a, sch) ==
    CASE sch.type = "string" -> String(a)
      [] sch.type = "integer" -> Integer(a)
      [] sch.type = "number" -> Number(a)
      [] sch.type = "boolean" -> OneOf(a, {<<"true">>, <<"false">>})
      [] sch.type = "enum" -> OneOf(a, sch.values)
      [] sch.type = "object" -> Literal(Fields(Literal(a, <<"{">>), sch.props), <<"}">>)

(***************************************************************************)
(* Constraint: step_char, accepts, allowed, commit.                        *)
(***************************************************************************)
StepChar(S, c) == {e[3] : e \in {e \in nfa.edges : e[1] \in S /\ c \in e[2]}}

After(S, t) == FoldLeft(StepChar, S, t)

Allowed == {t \in Vocab : t # <<>> /\ After(states, t) # {}}

(***************************************************************************)
(* pick: any allowed token may score best.  With none, a stop token ends   *)
(* the job.                                                                *)
(***************************************************************************)
Pick ==
    /\ ~over /\ Len(text) < TextMax
    /\ \E t \in Allowed :
        /\ text' = text \o t
        /\ states' = After(states, t)
    /\ UNCHANGED <<schema, nfa, over>>

PickStop ==
    /\ ~over /\ Allowed = {}
    /\ over' = TRUE
    /\ UNCHANGED <<schema, nfa, states, text>>

ConsInit ==
    /\ schema \in Schemas
    /\ nfa = Compile(Begin, schema)
    /\ states = {0} /\ text = <<>> /\ over = FALSE

ConsNext == Pick \/ PickStop

ConsSpec == ConsInit /\ [][ConsNext]_consVars
-----------------------------------------------------------------------------
(***************************************************************************)
(* What the schema means: the texts of at most n symbols, as JSON defines  *)
(* them (strings without escapes).                                         *)
(***************************************************************************)
Within(n, T) == {t \in T : Len(t) <= n}

IntegerTexts(n) ==
    Within(n, {s \o d : s \in {<<>>, <<"-">>},
                       d \in {<<"0">>} \union {<<"1">> \o r : r \in BoundedSeq(Digits, n - 1)}})

NumberTexts(n) ==
    LET digits == BoundedSeq(Digits, n - 2) \ {<<>>}
        fraction == {<<>>} \union {<<".">> \o d : d \in digits}
        exponent == {<<>>} \union {<<"e">> \o s \o d : s \in {<<>>, <<"+">>, <<"-">>}, d \in digits}
    IN  Within(n, {i \o r : i \in IntegerTexts(n),
                          r \in Within(n - 1, {f \o e : f \in fraction, e \in exponent})})

ValueTexts(sch, n) ==
    CASE sch.type = "string" -> {<<Quote>> \o s \o <<Quote>> : s \in BoundedSeq(Ordinary, n - 2)}
      [] sch.type = "integer" -> IntegerTexts(n)
      [] sch.type = "number" -> NumberTexts(n)
      [] sch.type = "boolean" -> {<<"true">>, <<"false">>}
      [] sch.type = "enum" -> sch.values

ObjectTexts(props, n, Of(_, _)) ==
    LET before(i) == (IF i > 1 THEN <<",">> ELSE <<>>) \o <<props[i].key>>
        more(T, i) == {t \o before(i) \o v : t \in T, v \in Of(props[i].of, n - 3)}
    IN  {Append(t, "}") : t \in
            FoldLeftDomain(LAMBDA T, i : Within(n - 1, more(T, i)), {<<"{">>}, props)}

\* Two levels of objects, which is what the schemas of the model have.
Nested(sch, n) ==
    IF sch.type = "object" THEN ObjectTexts(sch.props, n, ValueTexts) ELSE ValueTexts(sch, n)

Language == [sch \in Schemas |-> ObjectTexts(sch.props, TextMax + 2, Nested)]

(***************************************************************************)
(* Nothing is barred: whatever the schema admits, as long as the answer    *)
(* begins like it, the automaton follows to one of its ends, from all ends *)
(* of an earlier value and through literals with a common beginning.       *)
(***************************************************************************)
NothingBarred == \A t \in Language[schema] :
    IsPrefix(text, t) =>
        After(states, SubSeq(t, Len(text) + 1, Len(t))) \cap nfa.ends # {}

(***************************************************************************)
(* An answer that the constraint ends is what the schema asked for, but    *)
(* for two things: the brace it begins with may be missing or repeated,    *)
(* since the first state compile makes is the one it starts from, and a    *)
(* string with an escape takes two symbols for it, its closing quote if    *)
(* need be.                                                                *)
(***************************************************************************)
Braced(t) ==
    LET at == {i \in DOMAIN t : t[i] # "{"}
    IN  <<"{">> \o SubSeq(t, IF at = {} THEN 1 ELSE Min(at), Len(t))

EndsWell ==
    over /\ ~Contains(text, Escape) => Braced(text) \in Language[schema]

(***************************************************************************)
(* The answer the constraint ends is a text of the schema, and begins like *)
(* one.                                                                    *)
(***************************************************************************)
AsAsked == over => text \in Language[schema]
=============================================================================
