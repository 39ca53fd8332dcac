------------------------------ MODULE Streams ------------------------------
(***************************************************************************)
(* How a pass runs: the host puts its launches on the stream of the        *)
(* decoder and waits, the kernels of a second stream run beside it.  What  *)
(* the pass launches is said by Forward for Qwen, by GemmaPass for Gemma 4 *)
(* and by FnPass for FN.                                                   *)
(***************************************************************************)
EXTENDS Kernels, SequencesExt

CONSTANTS
  Nets,       \* the nets
  Stretch     \* kernels a stream that runs alone does in one step

ASSUME StreamAssumption ==
  /\ Stretch \in Nat \ {0}
  /\ \A n \in Nets : /\ n.layers \in Nat \ {0} /\ n.interval \in Nat \ {0}
                     /\ n.from \in 0..(n.layers - 1) /\ n.to \in (n.from + 1)..n.layers

VARIABLES
  dev,        \* the device
  hpos,       \* slot_pos: the position of each slot as the host counts it
  main, aux,  \* what is left of the two streams
  want        \* the values the pass is to return

streamVars == <<net, dev, hpos, main, aux, want>>

Final == net.to = Layers

StreamsInit ==
    /\ net \in Nets
    /\ dev = NewDevice /\ hpos = [s \in Lane |-> 0]
    /\ main = <<>> /\ aux = <<>> /\ want = <<>>

Quiet == main = <<>> /\ aux = <<>>

(* Buffers hold nothing of an earlier pass, dab_dev is all zeros. *)
Scratch == [b \in {"dab_dev"} |-> [r \in 1..TMax |-> Zero]]

Concat(parts) == FoldLeft(LAMBDA a, b : a \o b, <<>>, parts)
Window == [i \in 1..(net.to - net.from) |-> net.from + i - 1]

EmbedRow(slot, start) == Val("res", 2 * net.from, <<slot, start>>)
Values(of, at, rows) == [r \in DOMAIN rows |-> Val(of, at, rows[r])]

HeadGemv(x, y, t) == <<Kernel("output", 2 * Layers, <<x>>, {y}, t)>>
Argmax(x, y, t) == <<Kernel("argmax", 2 * Layers, <<x>>, {y}, t)>>

---------------------------------------------------------------------------
(* A pass is put on the streams, the host counts its slots on. *)
OnMain(launches) == SelectSeq(launches, LAMBDA o : o.op # "aux")
OnAux(launches) ==
    LET side == SelectSeq(launches, LAMBDA o : o.op = "aux")
    IN [i \in DOMAIN side |-> side[i].launch]

OnStreams(launches, moved, wanted) ==
    /\ Quiet /\ want = <<>>
    /\ dev' = [dev EXCEPT !.mem = Scratch]
    /\ main' = OnMain(launches) /\ aux' = OnAux(launches)
    /\ hpos' = [s \in Lane |-> IF s \in DOMAIN moved THEN moved[s] ELSE hpos[s]]
    /\ want' = wanted
    /\ UNCHANGED net

(* A stream waits for an event of the other; while the second one waits,   *)
(* the first runs on to the event it waits for.                            *)
Blocked(stream) ==
    stream # <<>> /\ Head(stream).op = "wait" /\ Head(stream).event \notin dev.events

Awaited ==
    IF aux = <<>> THEN Min({Stretch, Len(main)})
    ELSE CHOOSE i \in DOMAIN main : main[i] = Record(Head(aux).event)

RunMain ==
    /\ main # <<>> /\ ~Blocked(main)
    /\ LET n == IF aux = <<>> \/ Blocked(aux) THEN Awaited ELSE 1
       IN /\ dev' = FoldLeft(Exec, dev, SubSeq(main, 1, n))
          /\ main' = SubSeq(main, n + 1, Len(main))
    /\ UNCHANGED <<net, hpos, aux, want>>

RunAux ==
    /\ aux # <<>> /\ ~Blocked(aux)
    /\ dev' = Exec(dev, Head(aux)) /\ aux' = Tail(aux)
    /\ UNCHANGED <<net, hpos, main, want>>

(* The caller takes what was read; buffers are nobody's, and so are the    *)
(* tables but those of Gemma 4, which it keeps from pass to pass.  Nor are *)
(* keys and values from the position on anybody's: they may be of tokens   *)
(* that were rejected.  Nor is the cache of the draft head: what is left   *)
(* in it depends on which passes drafted, and drafts are verified.         *)
Kept(x) == x[2] # Attn(Layers) /\ x[3] < hpos[x[1]]

Done ==
    /\ Quiet /\ dev.got = want /\ want # <<>>
    /\ dev' = [dev EXCEPT !.mem = <<>>, !.events = {}, !.got = <<>>,
                          !.rows = IF net.engine = "gemma" THEN @ ELSE <<>>,
                          !.kv = [x \in DOMAIN @ |-> IF Kept(x) THEN @[x] ELSE Junk]]
    /\ want' = <<>>
    /\ UNCHANGED <<net, hpos, main, aux>>

StreamsNext == RunMain \/ RunAux \/ Done

---------------------------------------------------------------------------
(***************************************************************************)
(* When no pass is under way, what was read back is what the reference     *)
(* gives for the rows of the pass, and the caches, rings and states of     *)
(* every slot are exactly the reference's at the position the host counts: *)
(* whichever of the paths of chains.rs, prefill.rs, graphs.rs, g4.rs and   *)
(* fnchain.rs the passes took, in whatever order, no kernel of them read a *)
(* buffer another one had not filled or had already used again.            *)
(***************************************************************************)
ForwardExact ==
    Quiet =>
      /\ dev.got = want
      /\ \A slot \in Lane, il \in net.from..(net.to - 1) :
           IF Attends(il)
           THEN \A p \in 0..(hpos[slot] - 1) :
                  dev.kv[<<slot, Attn(il), p>>] = Val("kvrow", 2 * il, <<slot, p>>)
           ELSE \A kind \in {"ring", "st"} :
                  dev.reg[<<kind, slot, RecurrentBefore(il)>>] = hpos[slot]
=============================================================================
