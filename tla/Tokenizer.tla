------------------------------ MODULE Tokenizer ------------------------------
(***************************************************************************)
(* How the text of a prompt becomes tokens (tokenize.rs): special tokens   *)
(* are cut out, the rest is split into words, and the units of a word are  *)
(* merged pair by pair, by a heap of pairs in which stale ones are left.   *)
(* The tables of Unicode are sets of characters.  The cache of the last    *)
(* texts (EncodeCache) is left out: it returns what was put.               *)
(***************************************************************************)
EXTENDS Integers, Sequences, SequencesExt, FiniteSets, FiniteSetsExt, Functions

CONSTANTS Char,                       \* characters; "_" is U+2581, in no text
          Utf8,                       \* their bytes
          Letter, Digit, Space, Newline, Mark,    \* flags_bits, and "\r", "\n"
          Lower,                      \* tolower
          B2c,                        \* b2c: the unit a byte is written as
          Wide,                       \* units of more than one byte
          Known,                      \* of each scheme: the pieces of the vocabulary
          Merges,                     \* of each scheme: its merges, by rank
          Specials, UserSpecials,     \* texts of special tokens, of user-defined ones
          WholeWords,                 \* the schemes with ignore_merges
          Texts                       \* texts that are encoded

Schemes == {"Qwen35", "Qwen2", "Gemma", "Other"}     \* Pre
Byte == UNION {ToSet(Utf8[c]) : c \in Char}

\* The units pieces are made of: characters, and those bytes are written as.
UnitsOf(s) == IF s = "Gemma" THEN Char ELSE Char \cup Range(B2c)

\* Every byte has a piece, a fallback that drops wide units never runs, and a
\* special token is written as it reads.
ASSUME TokenizerAssumption ==
    /\ {" ", "_"} \subseteq Char
    /\ Utf8 \in [Char -> Seq(Byte) \ {<<>>}] /\ Newline \subseteq Space
    /\ Letter \cap (Digit \cup Space \cup Mark) = {}
    /\ DOMAIN B2c = Byte /\ IsInjective(B2c) /\ WholeWords \subseteq Schemes
    /\ Texts \subseteq Seq(Char \ {"_"}) \ {<<>>}
    /\ {Specials, UserSpecials} \subseteq Seq(Seq(Char) \ {<<>>})
    /\ \A s \in ToSet(Specials) \cup ToSet(UserSpecials), b \in Byte :
          B2c[b] \in ToSet(s) => Utf8[B2c[b]] = <<b>>
    /\ \A s \in Schemes :
          /\ Known[s] \subseteq Seq(UnitsOf(s))
          /\ Merges[s] \in Seq(Seq(UnitsOf(s)) \X Seq(UnitsOf(s)))
    /\ \A s \in {"Qwen35", "Qwen2", "Other"} :
          /\ \A b \in Byte : <<B2c[b]>> \in Known[s]
          /\ \A m \in ToSet(Merges[s]) : m[1] \o m[2] \in Known[s] \cup Seq(Range(B2c) \ Wide)
    /\ <<"_">> \in Known["Gemma"]
    /\ \A m \in ToSet(Merges["Gemma"]) : m[1] \o m[2] \in Known["Gemma"] \cup Seq(Char \ {"_"})

VARIABLES asked,     \* the text
          scheme,
          frags,     \* fragments that are left of it
          word,      \* the units of the word that is merged, or <<>>
          syms,      \* syms: how many units the symbol at each unit has, 0: none
          heap,
          coded      \* the tokens so far

codeVars == <<asked, scheme, frags, word, syms, heap, coded>>

TextFrag(t) == [kind |-> "text", of |-> t]
TokFrag(s) == [kind |-> "tok", of |-> s]

(***************************************************************************)
(* partition_special: the longest special tokens first, each cut out where *)
(* it is found, from the left.                                             *)
(***************************************************************************)
Bytes(t) == FlattenSeq([i \in DOMAIN t |-> Utf8[t[i]]])

OfLength(ss, n) ==
    FlattenSeq([i \in DOMAIN ss |-> IF Len(Bytes(ss[i])) = n THEN <<ss[i]>> ELSE <<>>])

ByLength(ss) ==
    LET longest == Max({0} \cup {Len(Bytes(ss[i])) : i \in DOMAIN ss})
    IN  FlattenSeq([k \in 1 .. longest |-> OfLength(ss, longest + 1 - k)])

TextFrags(t) == IF t = <<>> THEN <<>> ELSE <<TextFrag(t)>>
Finds(t, s) == {i \in 1 .. Len(t) - Len(s) + 1 : SubSeq(t, i, i + Len(s) - 1) = s}

\* The first s that is left: what is cut so far, and the rest.
NextFind(c, s) ==
    LET at == Min(Finds(c.rest, s))
    IN  IF Finds(c.rest, s) = {} THEN c
        ELSE [out |-> c.out \o TextFrags(SubSeq(c.rest, 1, at - 1)) \o <<TokFrag(s)>>,
              rest |-> SubSeq(c.rest, at + Len(s), Len(c.rest))]

CutOut(t, s) ==
    LET cut[k \in 0 .. Len(t)] ==
            IF k = 0 THEN [out |-> <<>>, rest |-> t] ELSE NextFind(cut[k - 1], s)
    IN  cut[Len(t)].out \o TextFrags(cut[Len(t)].rest)

CutOutOf(fs, s) ==
    FlattenSeq([i \in DOMAIN fs |-> IF fs[i].kind = "text" THEN CutOut(fs[i].of, s) ELSE <<fs[i]>>])

Partition(t, specials) ==
    LET ss == ByLength(specials)
        cut[k \in 0 .. Len(ss)] == IF k = 0 THEN TextFrags(t) ELSE CutOutOf(cut[k - 1], ss[k])
    IN  cut[Len(ss)]

(***************************************************************************)
(* split_pre: where the first word of r ends, by the first rule that has   *)
(* one: contractions, letters behind at most one other character, a digit, *)
(* symbols behind a space and newlines after them, white space.            *)
(***************************************************************************)
RunEnd(r, i, class) == Max({i - 1} \cup {n \in i .. Len(r) : \A k \in i .. n : r[k] \in class})
WordLetter == IF scheme = "Qwen35" THEN Letter \cup Mark ELSE Letter
Symbol == Char \ (Space \cup WordLetter \cup Digit)

ContractionEnd(r) ==
    IF r[1] # "'" \/ Len(r) = 1 THEN 0
    ELSE IF Lower[r[2]] \in {"s", "t", "m", "d"} THEN 2
    ELSE IF Len(r) > 2 /\ <<Lower[r[2]], Lower[r[3]]>> \in {<<"r", "e">>, <<"v", "e">>, <<"l", "l">>} THEN 3
    ELSE 0

LettersEnd(r) ==
    IF r[1] \notin Newline \cup Digit /\ \E i \in 1 .. 2 : i <= Len(r) /\ r[i] \in WordLetter
    THEN RunEnd(r, 2, WordLetter) ELSE 0

SymbolsEnd(r) ==
    LET i == IF r[1] = " " THEN 2 ELSE 1
    IN  IF i <= Len(r) /\ r[i] \in Symbol THEN RunEnd(r, RunEnd(r, i, Symbol) + 1, Newline) ELSE 0

SpaceEnd(r) ==
    LET n == RunEnd(r, 1, Space)
        newlines == {i \in 1 .. n : r[i] \in Newline}
    IN  CASE newlines # {} -> Max(newlines)
          [] newlines = {} /\ n > 1 /\ n < Len(r) -> n - 1
          [] OTHER -> n

WordEnd(r) ==
    LET digit == IF r[1] \in Digit THEN 1 ELSE 0
        ends == <<ContractionEnd(r), LettersEnd(r), digit, SymbolsEnd(r), SpaceEnd(r), 1>>
    IN  ends[Min({k \in DOMAIN ends : ends[k] > 0})]

(***************************************************************************)
(* The units of a word, and back: bytes as characters; with Gemma          *)
(* characters, a blank as "_" (U+2581).                                    *)
(***************************************************************************)
Units(t) == IF scheme = "Gemma" THEN [i \in DOMAIN t |-> IF t[i] = " " THEN "_" ELSE t[i]]
            ELSE [i \in DOMAIN Bytes(t) |-> B2c[Bytes(t)[i]]]
C2b(u) == IF u \in Range(B2c) THEN <<CHOOSE b \in Byte : B2c[b] = u>> ELSE Utf8[u]

\* piece_bytes_into
Spelt(p) ==
    FlattenSeq([i \in DOMAIN p |->
        IF scheme # "Gemma" THEN C2b(p[i]) ELSE IF p[i] = "_" THEN Utf8[" "] ELSE Utf8[p[i]]])

PieceTok(p) == [kind |-> "piece", of |-> p]
ByteTok(b) == [kind |-> "byte", of |-> b]        \* <0xXX>
Decoded(ts) ==
    FlattenSeq([i \in DOMAIN ts |-> IF ts[i].kind = "byte" THEN <<ts[i].of>> ELSE Spelt(ts[i].of)])

(***************************************************************************)
(* The heap: a pair of neighbouring symbols with the lengths they had when *)
(* it was pushed; the least rank is popped first, of one rank the leftmost.*)
(***************************************************************************)
SymAt(w, sy, i) == SubSeq(w, i, i + sy[i] - 1)
Ranks(w, sy, l, r) ==
    {k \in DOMAIN Merges[scheme] : Merges[scheme][k] = <<SymAt(w, sy, l), SymAt(w, sy, r)>>}

\* push_bigram
Bigram(w, sy, l, r) ==
    IF Ranks(w, sy, l, r) = {} THEN {}
    ELSE {[rank |-> Min(Ranks(w, sy, l, r)), li |-> l, ri |-> r, ln |-> sy[l], rn |-> sy[r]]}

Popped == CHOOSE b \in heap : \A c \in heap : b.rank < c.rank \/ (b.rank = c.rank /\ b.li <= c.li)

\* fault: that the right symbol has grown since goes unnoticed.
StaleLeft(b) == syms[b.li] # b.ln
Stale(b) == syms[b.li] # b.ln \/ syms[b.ri] # b.rn

Begun(w) ==
    LET ones == [i \in DOMAIN w |-> 1]
    IN  /\ word' = w /\ syms' = ones
        /\ heap' = UNION {Bigram(w, ones, i - 1, i) : i \in 2 .. Len(w)}

\* A word is found whole, with ignore_merges, or its merging begins.
Opened(w) ==
    IF scheme \in WholeWords /\ w \in Known[scheme]
    THEN coded' = Append(coded, PieceTok(w)) /\ UNCHANGED <<word, syms, heap>>
    ELSE Begun(w) /\ UNCHANGED coded

(***************************************************************************)
(* The tokens of a symbol: where the vocabulary has none, those of its     *)
(* units of one byte; with Gemma those of its bytes, <0xXX>.               *)
(***************************************************************************)
ByteToks(cs) == [i \in DOMAIN Bytes(cs) |-> ByteTok(Bytes(cs)[i])]

Ids(p) ==
    IF p \in Known[scheme] THEN << PieceTok(p) >>
    ELSE IF scheme = "Gemma" THEN ByteToks(p)
    ELSE FlattenSeq([i \in DOMAIN p |->
             IF p[i] \notin Wide /\ <<p[i]>> \in Known[scheme] THEN << PieceTok(<<p[i]>>) >> ELSE <<>>])

SymTexts ==
    FlattenSeq([i \in DOMAIN syms |-> IF syms[i] = 0 THEN <<>> ELSE <<SymAt(word, syms, i)>>])

-----------------------------------------------------------------------------
(***************************************************************************)
(* encode_opts, with or without special tokens.                            *)
(***************************************************************************)
Encode ==
    /\ asked = <<>>
    /\ \E t \in Texts, s \in Schemes, special \in BOOLEAN :
          /\ asked' = t /\ scheme' = s
          /\ frags' = IF s = "Other" THEN <<[kind |-> "bytes", of |-> Bytes(t)]>>
                      ELSE Partition(t, (IF special THEN Specials ELSE <<>>) \o UserSpecials)
    /\ UNCHANGED <<word, syms, heap, coded>>

Todo == frags # <<>> /\ word = <<>>
Ahead == Head(frags).of
InText(ss) == Todo /\ Head(frags).kind = "text" /\ scheme \in ss
PastTo(n) ==
    /\ frags' = IF n = Len(Ahead) THEN Tail(frags)
                ELSE [frags EXCEPT ![1].of = SubSeq(Ahead, n + 1, Len(Ahead))]
    /\ UNCHANGED <<asked, scheme>>

SpecialToken ==
    /\ Todo /\ Head(frags).kind = "tok"
    /\ coded' = Append(coded, Head(frags)) /\ frags' = Tail(frags)
    /\ UNCHANGED <<asked, scheme, word, syms, heap>>

\* bpe_fragment: the next word.
NextWord ==
    /\ InText({"Qwen35", "Qwen2"})
    /\ Opened(Units(SubSeq(Ahead, 1, WordEnd(Ahead)))) /\ PastTo(WordEnd(Ahead))

\* bpe_runs_gemma: as far as there are pieces for the characters, or one without.
GemmaRun ==
    /\ InText({"Gemma"})
    /\ LET u == Units(Ahead)
           n == RunEnd(u, 1, {c \in Char : <<c>> \in Known["Gemma"]})
       IN  IF n > 0
           THEN Opened(SubSeq(u, 1, n)) /\ PastTo(n)
           ELSE /\ coded' = coded \o ByteToks(<<u[1]>>) /\ PastTo(1)
                /\ UNCHANGED <<word, syms, heap>>

\* encode_greedy: the longest piece each time (of those up to 64 bytes).
Longest ==
    /\ Todo /\ Head(frags).kind = "bytes"
    /\ \E p \in Known["Other"] :
          /\ IsPrefix(Spelt(p), Ahead)
          /\ \A q \in Known["Other"] : IsPrefix(Spelt(q), Ahead) => Len(Spelt(q)) <= Len(Spelt(p))
          /\ coded' = Append(coded, PieceTok(p)) /\ PastTo(Len(Spelt(p)))
    /\ UNCHANGED <<word, syms, heap>>

\* The next pair of the heap, left alone when it is stale.
PopPair ==
    /\ heap # {}
    /\ LET b == Popped
           joined == [syms EXCEPT ![b.li] = @ + syms[b.ri], ![b.ri] = 0]
           before == {i \in 1 .. b.li - 1 : joined[i] > 0}
           after == {i \in b.ri + 1 .. Len(word) : joined[i] > 0}
           New == (IF before = {} THEN {} ELSE Bigram(word, joined, Max(before), b.li))
                      \cup (IF after = {} THEN {} ELSE Bigram(word, joined, b.li, Min(after)))
       IN  IF Stale(b) THEN heap' = heap \ {b} /\ UNCHANGED syms
           ELSE heap' = (heap \ {b}) \cup New /\ syms' = joined
    /\ UNCHANGED <<asked, scheme, frags, word, coded>>

WordDone ==
    /\ word # <<>> /\ heap = {}
    /\ coded' = coded \o FlattenSeq([k \in DOMAIN SymTexts |-> Ids(SymTexts[k])])
    /\ word' = <<>> /\ syms' = <<>>
    /\ UNCHANGED <<asked, scheme, frags, heap>>

CodeInit ==
    /\ asked = <<>> /\ scheme = "Other" /\ frags = <<>>
    /\ word = <<>> /\ syms = <<>> /\ heap = {} /\ coded = <<>>

CodeNext ==
    \/ Encode
    \/ SpecialToken \/ NextWord \/ GemmaRun \/ Longest
    \/ PopPair \/ WordDone

CodeSpec == CodeInit /\ [][CodeNext]_codeVars
-----------------------------------------------------------------------------
(***************************************************************************)
(* Merging as it is defined: as long as neighbours have a rank, the pair   *)
(* of the least one is merged, of one rank the leftmost.                   *)
(***************************************************************************)
MergeOnce(ps) ==
    LET rank(i) == {k \in DOMAIN Merges[scheme] : Merges[scheme][k] = <<ps[i], ps[i + 1]>>}
        pairs == {<<Min(rank(i)), i>> : i \in {j \in 1 .. Len(ps) - 1 : rank(j) # {}}}
        i == CHOOSE j \in DOMAIN ps : \E k \in DOMAIN Merges[scheme] :
                 <<k, j>> \in pairs /\ \A q \in pairs : k < q[1] \/ (k = q[1] /\ j <= q[2])
    IN  IF pairs = {} THEN ps
        ELSE SubSeq(ps, 1, i - 1) \o <<ps[i] \o ps[i + 1]>> \o SubSeq(ps, i + 2, Len(ps))

Merged(ps) ==
    LET m[k \in 0 .. Len(ps)] == IF k = 0 THEN ps ELSE MergeOnce(m[k - 1]) IN m[Len(ps)]

(***************************************************************************)
(* Whatever was cut, split, merged and left stale in the heap: the tokens  *)
(* so far, the word and what is left spell the text that was asked for; a  *)
(* symbol is always a step on the way to the merging of the whole word,    *)
(* and when the heap is empty that is reached.                             *)
(***************************************************************************)
EncodesText ==
    LET Left(f) == CASE f.kind = "text" -> Bytes(f.of)
                     [] f.kind = "bytes" -> f.of
                     [] OTHER -> Spelt(f.of)
    IN  /\ Decoded(coded) \o Spelt(word) \o FlattenSeq([i \in DOMAIN frags |-> Left(frags[i])])
               = Bytes(asked)
        /\ word # <<>> =>
              /\ Merged(SymTexts) = Merged([i \in DOMAIN word |-> <<word[i]>>])
              /\ heap = {} => MergeOnce(SymTexts) = SymTexts
=============================================================================
