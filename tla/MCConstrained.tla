--------------------------- MODULE MCConstrained ---------------------------
(***************************************************************************)
(* Constrained as TLC checks it: one schema of each kind of value, alone   *)
(* and as the first of two fields, and tokens of one symbol and of two.    *)
(***************************************************************************)
EXTENDS Constrained

Of(type) == [type |-> type]
OneField(sub) == [type |-> "object", props |-> <<[key |-> "a:", of |-> sub]>>]
TwoFields(one, two) ==
    [type |-> "object", props |-> <<[key |-> "a:", of |-> one], [key |-> "b:", of |-> two]>>]
Levels == [type |-> "enum", values |-> {<<Quote, "x", Quote>>, <<Quote, "x", "y", Quote>>}]

MCSchemas ==
    {OneField(Of("string")), OneField(Of("number")), OneField(Of("boolean")),
     TwoFields(Of("integer"), Of("boolean")), TwoFields(Levels, Of("integer")),
     OneField(OneField(Of("integer")))}

Symbols == {"{", "}", ",", "a:", "b:", Quote, Escape, "x", "y",
            "-", "0", "1", ".", "e", "+", "true", "false"}

MCVocab == {<<s>> : s \in Symbols} \union {<<>>, <<"{", "a:">>, <<"1", "x">>, <<"1", ",">>, <<Quote, "x">>}
=============================================================================
