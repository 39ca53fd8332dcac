------------------------------ MODULE MCPasses ------------------------------
(***************************************************************************)
(* What a pass of the model finds on the device, as TLC checks it: the     *)
(* blocks of the rows a sliding layer attends to (KvSlots, with the Gemma  *)
(* engine) and every buffer, cache and state the kernels of a pass read,   *)
(* of Qwen (Forward), Gemma 4 (GemmaPass) and FN (FnPass); what a text of  *)
(* FN is made of that is taken in stretches (FnText); and the weights of   *)
(* the experts selected for a token (ExpertCache).  A behavior is one of   *)
(* one part or one net, the rest stays as it began.                        *)
(***************************************************************************)
EXTENDS KvSlots, DraftHead, GemmaPass, FnPass, FnText, ExpertCache

VARIABLE part

passesVars == <<part, slotVars, streamVars, atab, ple_init, textVars, expertVars>>

(***************************************************************************)
(* The nets a pass is checked for: without packed weights, with some, with *)
(* all (and two originals that stayed), over all layers or a shard's, and  *)
(* models of experts, held packed or not, resident or not.                 *)
(***************************************************************************)
Qwen(form) == form @@ [engine |-> "qwen", layers |-> 4, interval |-> 2, mtp |-> FALSE]

Dense(form, spec, from, to) ==
    Qwen(form @@ [plain |-> FALSE, resident |-> FALSE, moeMarlin |-> FALSE, fork |-> FALSE,
                  spec |-> spec, from |-> from, to |-> to])
Moe(resident, marlin, fork, from, to) ==
    Qwen(Consolidate({}, {}) @@ [plain |-> TRUE, resident |-> resident, moeMarlin |-> marlin,
                                 fork |-> fork, spec |-> FALSE, from |-> from, to |-> to])

(* Of Gemma: one layer that slides and one that makes its values of the    *)
(* keys, all with or without packed copies.                                *)
Gemma4(packed, marlin, splits) ==
    [engine |-> "gemma", mtp |-> FALSE, layers |-> 2, interval |-> 1, from |-> 0, to |-> 2,
     sliding |-> {0}, keqv |-> {1}, window |-> 2, splits |-> splits, packed |-> packed,
     plainRouter |-> ~marlin, moeMarlin |-> marlin]

(* Of FN: all layers in one decoder, without or with the indexer, and the  *)
(* two shards of a pair, of which the first has the embeddings.            *)
Fn(resident, fork, qsa, from, to) ==
    Consolidate({}, {}) @@
    [engine |-> "fn", mtp |-> FALSE, layers |-> 4, interval |-> 2, plain |-> TRUE, resident |-> resident,
     moeMarlin |-> resident, fork |-> fork, spec |-> FALSE, ple |-> 1, qsa |-> qsa,
     from |-> from, to |-> to]

(* Of Qwen with a draft head: with its graphs and the embeddings on the    *)
(* device, and without either on the layers of a shard.                    *)
Drafting(form, graphs, from) ==
    Qwen(form @@ [mtp |-> TRUE, layers |-> from + 2, from |-> from, to |-> from + 2,
                  plain |-> FALSE, resident |-> FALSE, moeMarlin |-> FALSE, fork |-> FALSE,
                  spec |-> TRUE, embed |-> graphs, capture |-> graphs])

SomeNets ==
    {Dense(Consolidate({}, {}), FALSE, 2, 4),
     Dense(Consolidate(Linear \ {"attn_v", "ffn_up", "ssm_out"}, {}), TRUE, 0, 4),
     Dense(Consolidate(Linear, {}), TRUE, 2, 4),
     Dense(Consolidate(Linear, {"ffn_down", "attn_q"}), FALSE, 0, 3),
     Moe(TRUE, TRUE, FALSE, 0, 4), Moe(FALSE, FALSE, FALSE, 2, 4), Moe(TRUE, FALSE, TRUE, 2, 4),
     Gemma4({}, FALSE, 1), Gemma4({"attn_q", "attn_output", "dense_up", "router"}, TRUE, 2),
     Fn(TRUE, FALSE, FALSE, 0, 4), Fn(FALSE, FALSE, TRUE, 0, 4),
     Fn(FALSE, TRUE, FALSE, 0, 2), Fn(FALSE, FALSE, FALSE, 2, 4),
     Drafting(Consolidate({"attn_q", "ffn_down"}, {}), TRUE, 0), Drafting(Consolidate({}, {}), FALSE, 2)}

PassesInit ==
    /\ part \in {"blocks", "passes", "text", "experts"}
    /\ SlotsInit /\ GemmaInit /\ FnInit /\ TextInit
    /\ part # "passes" => net = CHOOSE n \in Nets : TRUE
    /\ ExpertInit /\ (part # "experts" => K = Max(Ks))
    /\ part # "text" => /\ device = "oracle" /\ \A i \in DOMAIN text : text[i] = Eos
                       /\ \A b \in DOMAIN like : like[b] = 1

BlocksStep ==
    /\ part = "blocks"
    /\ SlotsNext /\ UNCHANGED <<part, streamVars, atab, ple_init, textVars, expertVars>>
QwenStep ==
    /\ part = "passes" /\ net.engine = "qwen" /\ ~net.mtp
    /\ ForwardNext /\ UNCHANGED <<part, slotVars, atab, ple_init, textVars, expertVars>>
DraftStep ==
    /\ part = "passes" /\ net.engine = "qwen" /\ net.mtp
    /\ DraftNext /\ UNCHANGED <<part, slotVars, atab, ple_init, textVars, expertVars>>
GemmaStep ==
    /\ part = "passes" /\ net.engine = "gemma"
    /\ GemmaNext /\ UNCHANGED <<part, slotVars, ple_init, textVars, expertVars>>
FnStep ==
    /\ part = "passes" /\ net.engine = "fn"
    /\ FnNext /\ UNCHANGED <<part, slotVars, atab, textVars, expertVars>>

TextStep ==
    part = "text" /\ TextNext /\ UNCHANGED <<part, slotVars, streamVars, atab, ple_init, expertVars>>

ExpertStep ==
    part = "experts" /\ ExpertNext /\ UNCHANGED <<part, slotVars, streamVars, atab, ple_init, textVars>>

PassesNext == BlocksStep \/ QwenStep \/ DraftStep \/ GemmaStep \/ FnStep \/ TextStep \/ ExpertStep

PassesSpec == PassesInit /\ [][PassesNext]_passesVars

Interchangeable == Permutations(Lane) \cup Permutations(Expert)
=============================================================================
