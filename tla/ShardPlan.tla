----------------------------- MODULE ShardPlan ------------------------------
(***************************************************************************)
(* The dry run of a model on several cards (core/src/plan.rs): layer_split *)
(* sums the tensors of each layer in the order of the manifest, that of    *)
(* their names, in which layer 10 comes before layer 2; shard_plan cuts    *)
(* the layers into one block per card and says what each card needs.       *)
(***************************************************************************)
EXTENDS Integers, Sequences

CONSTANTS Cards,       \* number of cards
          LayerMax,    \* bound: layers of a model
          Tensor,      \* bytes of a tensor that stay resident (none of a row-sparse one)
          ItemMax,     \* bound: tensors of a manifest
          NonLayer,    \* bytes of what belongs to no layer
          KvBytes      \* bytes of the whole KV

ASSUME ShardPlanAssumption ==
    /\ Cards \in Nat \ {0} /\ {LayerMax, ItemMax, NonLayer, KvBytes} \subseteq Nat
    /\ Tensor \subseteq Nat

VARIABLES layers,   \* what layer_split has made of the items so far
          items     \* how many it has read

planVars == <<layers, items>>

NoLayer == [bytes |-> 0, full |-> FALSE]

\* An item of layer li: the list grows to it, with empty layers in between.
Scan(li, bytes, attn) ==
    LET grown == [i \in 1 .. (IF li > Len(layers) THEN li ELSE Len(layers)) |->
                     IF i <= Len(layers) THEN layers[i] ELSE NoLayer]
    IN  /\ items < ItemMax
        /\ layers' = [grown EXCEPT ![li] =
                         [bytes |-> @.bytes + bytes, full |-> @.full \/ attn]]
        /\ items' = items + 1

(* The first n of some numbers, added up.                                  *)
TotalOf(f, n) ==
    LET upto[i \in 0 .. n] == IF i = 0 THEN 0 ELSE upto[i - 1] + f[i]
    IN  upto[n]

BytesIn(ls) == [i \in 1 .. Len(ls) |-> ls[i].bytes]
FullIn(ls) == [i \in 1 .. Len(ls) |-> IF ls[i].full THEN 1 ELSE 0]
BytesOf(ls) == TotalOf(BytesIn(ls), Len(ls))
FullOf(ls) == TotalOf(FullIn(ls), Len(ls))
Target == (BytesOf(layers) + NonLayer) \div Cards

(***************************************************************************)
(* The layers in turn: a card that has some is left when the next layer    *)
(* would take it over its share, unless it is the last.                    *)
(***************************************************************************)
\* fault: the last card is left as the others are.
FullAnyCard(acc, l) == acc.sum > 0 /\ acc.sum + l.bytes > Target

Full(acc, l) ==
    Len(acc.blocks) + 1 < Cards /\ acc.sum > 0 /\ acc.sum + l.bytes > Target

Placed(acc, l) ==
    IF Full(acc, l)
    THEN [i |-> acc.i + 1, start |-> acc.i, sum |-> l.bytes,
          blocks |-> Append(acc.blocks, <<acc.start, acc.i>>)]
    ELSE [acc EXCEPT !.i = @ + 1, !.sum = @ + l.bytes]

\* Block <<m, n>> holds the layers m + 1 .. n; cards left over hold none.
LayerBlocks ==
    LET none == [i |-> 0, start |-> 0, sum |-> 0, blocks |-> <<>>]
        after[i \in 0 .. Len(layers)] == IF i = 0 THEN none ELSE Placed(after[i - 1], layers[i])
        end == after[Len(layers)]
        taken == Append(end.blocks, <<end.start, Len(layers)>>)
    IN  taken \o [c \in 1 .. Cards - Len(taken) |-> <<Len(layers), Len(layers)>>]

LayersIn(b) == SubSeq(layers, b[1] + 1, b[2])
Weights(c, b) == BytesOf(LayersIn(b)) + IF c = Cards THEN NonLayer ELSE 0
KvShare(b) ==
    (KvBytes * FullOf(LayersIn(b))) \div (IF FullOf(layers) = 0 THEN 1 ELSE FullOf(layers))

PlanInit == layers = <<>> /\ items = 0

PlanNext == \E li \in 1 .. LayerMax, bytes \in Tensor, attn \in BOOLEAN : Scan(li, bytes, attn)

PlanSpec == PlanInit /\ [][PlanNext]_planVars
-----------------------------------------------------------------------------
(***************************************************************************)
(* However uneven the layers, there is one block for each card, the blocks *)
(* are the layers in order, none missing and none twice; the weights of    *)
(* the cards add up to the model, and their KV to at most the whole and at *)
(* least all but a rounding per card.                                      *)
(***************************************************************************)
BlocksCover ==
    LET b == LayerBlocks
        weights == [c \in 1 .. Cards |-> Weights(c, b[c])]
        shares == [c \in 1 .. Cards |-> KvShare(b[c])]
    IN  layers # <<>> =>
        /\ Len(b) = Cards
        /\ b[1][1] = 0 /\ b[Cards][2] = Len(layers)
        /\ \A c \in 1 .. Cards : b[c][1] <= b[c][2] /\ (c > 1 => b[c - 1][2] = b[c][1])
        /\ TotalOf(weights, Cards) = BytesOf(layers) + NonLayer
        /\ FullOf(layers) > 0 => TotalOf(shares, Cards) \in KvBytes - Cards .. KvBytes
=============================================================================
