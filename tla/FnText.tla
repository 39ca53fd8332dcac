------------------------------- MODULE FnText -------------------------------
(***************************************************************************)
(* A text of FN in stretches (crates/core/src/qwen4exp).  Four things of a *)
(* position reach back to positions before it: the n-grams of its token,   *)
(* whose embeddings layer ple_il adds, the taps of the convolution over    *)
(* them, the convolution and the recurrence of a linear layer, and the     *)
(* rows the indexer of a full layer selects.  Each has a cache of its own  *)
(* that a stretch takes over from the one before.  The reference (Oracle)  *)
(* may be given a text in any stretches; the tool for the card (fn_gpu in  *)
(* probes/w4a16/gpu.rs) cuts it evenly, and does the convolution over the  *)
(* n-grams with kernels and the selection in a callback.                   *)
(***************************************************************************)
EXTENDS Integers, Sequences, FiniteSets, FiniteSetsExt, SequencesExt

CONSTANTS
  Word,         \* the tokens of a text
  Eos,          \* the one that ends a text (eos_token_id)
  TextLen,      \* tokens of the text
  NgramSize,    \* tokens of the longest n-gram
  TapStep,      \* positions between two taps of the n-grams' convolution (3)
  ConvK,        \* taps of a linear layer's convolution
  Ratio,        \* rows the indexer takes together (indexer_compress_ratio)
  BlockTopK,    \* and how many of these blocks a position sees
  ChunkMax      \* tokens of one stretch of the tool (128)

ASSUME FnTextAssumption ==
  /\ Eos \in Word
  /\ {TextLen, NgramSize, TapStep, ConvK, Ratio, BlockTopK, ChunkMax} \subseteq Nat \ {0}

VARIABLES
  device,       \* "oracle" or "card"
  text,         \* the text
  like,         \* how well each block of rows matches the queries
  tpos,         \* positions done
  caches,       \* what one stretch leaves to the next
  made          \* by position, what its row was made of

textVars == <<device, text, like, tpos, caches, made>>

(* Rows are counted from 0, as in the code; a row of a buffer is known by  *)
(* the position it was made for.                                           *)
Blank == -1
Rows(base, n) == [t \in 0..(n - 1) |-> base + t]

(***************************************************************************)
(* The n-grams that end at a position: none reaches beyond an end of text  *)
(* or the start, all before those counts as Eos.                           *)
(***************************************************************************)
NgramIds(hist, p) ==
    LET cand(s) == IF p >= s THEN hist[p - s + 1] ELSE Eos
        crossed(s) == \E b \in 1..(s - 1) : cand(b) = Eos
    IN [s \in 0..(NgramSize - 1) |->
          IF s > 0 /\ crossed(s) THEN Eos ELSE cand(s)]

(* All of them from a position on: more than the stretch needs.            *)
GatherEmb(hist, base) ==
    [t \in 0..(Len(hist) - base - 1) |-> NgramIds(hist, base + t)]

(***************************************************************************)
(* The convolution over the n-grams: four taps, the last at the position,  *)
(* those before the stretch out of the window the one before left.         *)
(***************************************************************************)
PleWindow == 3 * TapStep

OracleTaps(st, base, normed, t) ==
    LET tap(k) ==
          LET q == base + t + TapStep * k - PleWindow IN
          CASE q < 0 -> Blank
            [] q \in 0..(base - 1) -> IF st.has_init THEN st.conv[q + PleWindow - base] ELSE Blank
            [] OTHER -> normed[q - base]
    IN [k \in 0..3 |-> tap(k)]

WindowOfStretch(st, base, normed, n) ==
    LET next(i) == LET q == base + n + i - PleWindow IN
                   IF q >= base THEN normed[q - base] ELSE Blank
    IN [conv |-> [i \in 0..(PleWindow - 1) |-> next(i)], has_init |-> TRUE]

OracleWindow(st, base, normed, n) ==
    LET next(i) ==
          LET q == base + n + i - PleWindow IN
          CASE q < 0 -> Blank
            [] q >= base -> normed[q - base]
            [] OTHER -> IF st.has_init THEN st.conv[q + PleWindow - base] ELSE Blank
    IN [conv |-> [i \in 0..(PleWindow - 1) |-> next(i)], has_init |-> TRUE]

(* The kernels count from the stretch on, and shift the window in place.   *)
CardTaps(st, normed, t) ==
    LET tap(k) ==
          LET jj == t - PleWindow + TapStep * k IN
          CASE jj >= 0 -> normed[jj]
            [] jj < 0 -> IF st.has_init THEN st.conv[PleWindow + jj] ELSE Blank
    IN [k \in 0..3 |-> tap(k)]

CardWindow(st, normed, n) ==
    LET put(conv, i) ==
          LET src == n - PleWindow + i IN
          [conv EXCEPT ![i] = IF src >= 0 THEN normed[src]
                              ELSE IF st.has_init THEN conv[i + n] ELSE Blank]
        after[i \in 0..PleWindow] == IF i = 0 THEN st.conv ELSE put(after[i - 1], i - 1)
    IN [conv |-> after[PleWindow], has_init |-> TRUE]

(***************************************************************************)
(* A linear layer of the reference: a convolution over the last rows, and  *)
(* a state that takes up one row after the other.                          *)
(***************************************************************************)
LinearTaps(hist, rows, t) ==
    LET tap(j) ==
          LET q == t + j - (ConvK - 1)
              hq == Len(hist) + q
          IN  IF q >= 0 THEN rows[q] ELSE IF hq >= 0 THEN hist[hq + 1] ELSE Blank
    IN [j \in 0..(ConvK - 1) |-> tap(j)]

LinearHist(hist, rows, n) ==
    LET push(h, t) == LET g == Append(h, rows[t]) IN
                      IF Len(g) > ConvK - 1 THEN Tail(g) ELSE g
        after[t \in 0..n] == IF t = 0 THEN hist ELSE push(after[t - 1], t - 1)
    IN after[n]

Recur(state, rows, t) == state \o [i \in 1..(t + 1) |-> rows[i - 1]]

(***************************************************************************)
(* The indexer: every Ratio rows make one key.  A position sees the best   *)
(* of the full blocks (of two as good, the earlier) and the rows behind.   *)
(***************************************************************************)
PushIndex(idx, p) ==
    LET raw == Append(idx.raw, p)
        pooled == [rows |-> SubSeq(raw, Len(raw) - Ratio + 1, Len(raw)), at |-> p + 1 - Ratio]
    IN [raw |-> raw,
        comp |-> IF (p + 1) % Ratio = 0 THEN Append(idx.comp, pooled) ELSE idx.comp]

RowsOfBlock(b) == [i \in 1..Ratio |-> b * Ratio + i - 1]

Score(idx, b) ==
    IF idx.comp[b + 1] = [rows |-> RowsOfBlock(b), at |-> b * Ratio] THEN like[b] ELSE 0

Select(idx, p) ==
    LET visible == (p + 1) \div Ratio
        before(a, b) == \/ Score(idx, a) > Score(idx, b)
                        \/ Score(idx, a) = Score(idx, b) /\ a < b
        order == CHOOSE o \in [1..visible -> 0..(visible - 1)] :
                    \A i, j \in 1..visible : i < j => before(o[i], o[j])
        best == SubSeq(order, 1, IF visible < BlockTopK THEN visible ELSE BlockTopK)
        first == visible * Ratio
    IN FlattenSeq([i \in DOMAIN best |-> RowsOfBlock(best[i])])
         \o [i \in 1..(p + 1 - first) |-> first + i - 1]

(* The rows of a stretch one after the other, each pushed before it looks. *)
Selections(idx, base, n) ==
    LET row(a, t) == LET i == PushIndex(a.idx, base + t)
                     IN [idx |-> i, sel |-> Append(a.sel, Select(i, base + t))]
        after[t \in 0..n] == IF t = 0 THEN [idx |-> idx, sel |-> <<>>] ELSE row(after[t - 1], t - 1)
    IN after[n]

(* What the callback hands to the card: one width for all rows, the free   *)
(* places -1, and the number of each row; a kernel reads that many.        *)
PackedRows(sels) ==
    LET width == Max({0} \cup {Len(sels[r]) : r \in DOMAIN sels})
        pad(s) == s \o [i \in 1..(width - Len(s)) |-> -1]
    IN [flat |-> FlattenSeq([r \in DOMAIN sels |-> pad(sels[r])]), width |-> width,
        cnt |-> [r \in DOMAIN sels |-> Len(sels[r])]]

ReadPacked(pk, r) ==
    SubSeq(pk.flat, (r - 1) * pk.width + 1, (r - 1) * pk.width + pk.cnt[r])
------------------------------------------------------------------------------
TextInit ==
    /\ device \in {"oracle", "card"}
    /\ text \in [1..TextLen -> Word]
    /\ like \in [0..((TextLen \div Ratio) - 1) -> 1..2]
    /\ tpos = 0 /\ made = <<>>
    /\ caches = [ple |-> [conv |-> [i \in 0..(PleWindow - 1) |-> Blank], has_init |-> FALSE],
                 conv |-> <<>>, state |-> <<>>, kv |-> <<>>,
                 idx |-> [raw |-> <<>>, comp |-> <<>>]]

(***************************************************************************)
(* Oracle::forward on the next n tokens: a prompt, part of one, or the     *)
(* token greedy chose last.                                                *)
(***************************************************************************)
OracleForward(n) ==
    /\ device = "oracle" /\ tpos + n <= TextLen
    /\ LET hist == SubSeq(text, 1, tpos + n)
           rows == Rows(tpos, n)
           sel == Selections(caches.idx, tpos, n)
           kv == caches.kv \o [i \in 1..n |-> rows[i - 1]]
           row(t) == [grams |-> NgramIds(hist, tpos + t),
                      taps |-> OracleTaps(caches.ple, tpos, rows, t),
                      conv |-> LinearTaps(caches.conv, rows, t),
                      state |-> Recur(caches.state, rows, t),
                      sees |-> {kv[s + 1] : s \in ToSet(sel.sel[t + 1])}]
       IN /\ made' = made \o [i \in 1..n |-> row(i - 1)]
          /\ caches' = [ple |-> OracleWindow(caches.ple, tpos, rows, n),
                        conv |-> LinearHist(caches.conv, rows, n),
                        state |-> Recur(caches.state, rows, n - 1),
                        kv |-> kv, idx |-> sel.idx]
    /\ tpos' = tpos + n /\ UNCHANGED <<device, text, like>>

(***************************************************************************)
(* One round of the tool's loop: the embeddings of a stretch were gathered *)
(* (while the one before ran), the first rows of them are staged.  The     *)
(* linear layers and the rows of keys and values are those of FnPass.      *)
(***************************************************************************)
CardStretch ==
    /\ device = "card" /\ tpos < TextLen
    /\ LET n == IF ChunkMax < TextLen - tpos THEN ChunkMax ELSE TextLen - tpos
           emb == GatherEmb(text, tpos)
           rows == Rows(tpos, n)
           sel == Selections(caches.idx, tpos, n)
           packed == PackedRows(sel.sel)
           row(t) == [grams |-> emb[t], taps |-> CardTaps(caches.ple, rows, t),
                      sees |-> ToSet(ReadPacked(packed, t + 1))]
       IN /\ made' = made \o [i \in 1..n |-> row(i - 1)]
          /\ caches' = [caches EXCEPT !.ple = CardWindow(caches.ple, rows, n), !.idx = sel.idx]
          /\ tpos' = tpos + n
    /\ UNCHANGED <<device, text, like>>

(* The text is done: nothing is left to do for either.                     *)
TextDone == tpos = TextLen /\ UNCHANGED textVars

TextNext == (\E n \in 1..TextLen : OracleForward(n)) \/ CardStretch \/ TextDone

TextSpec == TextInit /\ [][TextNext]_textVars
------------------------------------------------------------------------------
(***************************************************************************)
(* What a position is made of when a text is taken as a whole.             *)
(***************************************************************************)
Whole(p) ==
    LET start == Cardinality({q \in 0..(p - 1) : \E e \in q..(p - 1) : text[e + 1] = Eos})
        blocks == 0..(((p + 1) \div Ratio) - 1)
        better(b) == {a \in blocks : like[a] > like[b] \/ (like[a] = like[b] /\ a < b)}
        seen(q) == LET b == q \div Ratio IN b \in blocks => Cardinality(better(b)) < BlockTopK
        last(n, step) ==
            [k \in 0..(n - 1) |-> LET q == p - step * (n - 1 - k) IN IF q < 0 THEN Blank ELSE q]
    IN [grams |-> [s \in 0..(NgramSize - 1) |-> IF p - s >= start THEN text[p - s + 1] ELSE Eos],
        taps |-> last(4, TapStep), conv |-> last(ConvK, 1),
        state |-> [i \in 1..(p + 1) |-> i - 1],
        sees |-> {q \in 0..p : seen(q)}]

(***************************************************************************)
(* However a text is cut into stretches, every position is made of what it *)
(* would be made of in one: no n-gram, tap, recurrence or selected row     *)
(* depends on where a stretch began (fn_oracle_equiv_real_model asserts it *)
(* of one cut of one text, where a model is at hand).                      *)
(***************************************************************************)
StretchFree == \A i \in DOMAIN made : \A f \in DOMAIN made[i] : made[i][f] = Whole(i - 1)[f]
=============================================================================
