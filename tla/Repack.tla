------------------------------- MODULE Repack -------------------------------
(***************************************************************************)
(* The conversion of a GPTQ model into the format the server loads         *)
(* (core/src/qwen4exp/repack.rs): one thread for each file of the output,  *)
(* then the index, the configuration and a check of the result, on a disk  *)
(* that keeps what an earlier attempt wrote.  And what a reader makes of   *)
(* such a directory (core/src/st.rs, core/src/w4a16.rs).                   *)
(*                                                                         *)
(* Files are counted in parts that are there as a whole: the header, then  *)
(* one tensor after the other.  The words of a projection are symbols that *)
(* say where in the source they come from.                                 *)
(***************************************************************************)
EXTENDS Integers, Sequences, SequencesExt, FiniteSets, Functions

CONSTANTS Proj, Plain,      \* projections of experts, other tensors
          NameOrder,        \* the source's tensors in the order of their names
          ModelFile,        \* shards model-i-of-n: built anew
          PleFile,          \* other shards: copied
          Sources,          \* see SourceType
          Expected,         \* how many projections there must be (48 * 512 * 3)
          Shape,            \* n and kw of a projection: rows, words of a row
          GroupWords,       \* words of a row that share a scale: 128 / 8
          OutGroupWords     \* the same in the output: 32 / 8

Nowhere == "nowhere"
File == ModelFile \cup PleFile
SourceTensor == (Proj \X {"qweight", "qzeros", "scales"}) \cup (Plain \X {"plain"})
SourceType == [home : [SourceTensor -> File \cup {Nowhere}],    \* the shard of a tensor
               zeros : [Proj -> BOOLEAN],      \* are all its zero points QZ_WORD?
               config : BOOLEAN]               \* has config.json a quantization_config?

ASSUME RepackAssumption ==
    /\ Sources \subseteq SourceType /\ Nowhere \notin File
    /\ NameOrder \in Seq(SourceTensor) /\ IsInjective(NameOrder) /\ ToSet(NameOrder) = SourceTensor
    /\ {GroupWords, OutGroupWords} \subseteq Nat \ {0} /\ GroupWords % OutGroupWords = 0
    /\ \A b \in Proj : {Shape[b].n, Shape[b].kw} \subseteq Nat \ {0} /\ Shape[b].kw % GroupWords = 0

VARIABLES source,
          parts,      \* of each file of the output: how many are there; -1: no such file
          index,      \* is model.safetensors.index.json there?
          config,     \* is config.json?
          at,         \* where the conversion is
          todo,       \* files whose thread has not ended
          failed      \* did one end with an error?

repackVars == <<source, parts, index, config, at, todo, failed>>
disk == <<parts, index, config>>

(***************************************************************************)
(* repack_triple: rows of words, and each scale for Rep of the groups.     *)
(* Arrays are functions from 0, as the slices of bytes they stand for.     *)
(***************************************************************************)
QWeight(b) == [i \in 0 .. Shape[b].kw * Shape[b].n - 1 |->
                  <<b, "word", i \div Shape[b].n, i % Shape[b].n>>]
Scales(b) == [i \in 0 .. (Shape[b].kw \div GroupWords) * Shape[b].n - 1 |->
                 <<b, "scale", i \div Shape[b].n, i % Shape[b].n>>]

Rep == GroupWords \div OutGroupWords

Packed(b) ==
    LET n == Shape[b].n   kw == Shape[b].kw
    IN  [d \in 0 .. n * kw - 1 |-> QWeight(b)[(d % kw) * n + d \div kw]]

ScaleTiled(b) ==     \* fault: the groups are repeated as a whole
    LET n == Shape[b].n   kg == Shape[b].kw \div GroupWords   kg32 == kg * Rep
    IN  [d \in 0 .. n * kg32 - 1 |-> Scales(b)[((d % kg32) % kg) * n + d \div kg32]]

Scale(b) ==
    LET n == Shape[b].n   kg32 == (Shape[b].kw \div GroupWords) * Rep
    IN  [d \in 0 .. n * kg32 - 1 |-> Scales(b)[((d % kg32) \div Rep) * n + d \div kg32]]

(***************************************************************************)
(* The plan: what each file of the output holds, in the order of names.    *)
(* A projection is where its qweight was, wherever its zeros and scales    *)
(* were (tbytes looks them up by name); its three tensors become three.    *)
(***************************************************************************)
InFile(f) ==
    LET upTo[k \in 0 .. Len(NameOrder)] ==
            IF k = 0 THEN <<>>
            ELSE IF source.home[NameOrder[k]] = f THEN Append(upTo[k - 1], NameOrder[k])
            ELSE upTo[k - 1]
    IN  upTo[Len(NameOrder)]

Outs(t) ==
    CASE t[2] = "qweight" -> [i \in 1 .. 3 |-> <<t[1], <<"packed", "scale", "shape">>[i]>>]
      [] t[2] \in {"qzeros", "scales"} -> <<>>
      [] OTHER -> <<t>>

Planned(f) ==
    IF f \in ModelFile
    THEN FlattenSeq([i \in DOMAIN InFile(f) |-> Outs(InFile(f)[i])])
    ELSE InFile(f)

Rebuilt == {b \in Proj : source.home[<<b, "qweight">>] \in ModelFile}
Given == {t \in SourceTensor : source.home[t] # Nowhere}
Shards == {f \in File : InFile(f) # <<>>}
NamesIn(f) == ToSet(Planned(f))
Entries == UNION {NamesIn(f) : f \in Shards}

\* Triples are complete, the projections are as many, and as many tensors come
\* out as went in.
PlanHolds ==
    /\ \A b \in Rebuilt : {<<b, "qzeros">>, <<b, "scales">>} \subseteq Given
    /\ Cardinality(Rebuilt) = Expected
    /\ FoldSet(LAMBDA f, k : Len(Planned(f)) + k, 0, File) = Cardinality(Given)

(***************************************************************************)
(* StArchive::open: with an index, every file it names has its header and  *)
(* every tensor is in one; without, the files that are there are taken.    *)
(* W4a16Model::open: config.json, and whole triples.  expert_at: the slice *)
(* of a tensor that the file does not reach is not there.                  *)
(***************************************************************************)
Headed(f) == parts[f] >= 1
Seen == {f \in File : IF index THEN Planned(f) # <<>> ELSE parts[f] >= 0}
Named == UNION {NamesIn(f) : f \in Seen}
Opens ==
    /\ config /\ Seen # {} /\ \A f \in Seen : Headed(f)
    /\ \E b \in Proj : <<b, "packed">> \in Named

There(t) == \E f \in Seen : \E i \in DOMAIN Planned(f) : Planned(f)[i] = t /\ i < parts[f]

\* A weight: its word, its zero point (QZ_WORD stands for 8) and its scale.
WeightOf(b, r, j) ==
    <<Packed(b)[r * Shape[b].kw + j], 8,
      Scale(b)[r * (Shape[b].kw \div OutGroupWords) + j \div OutGroupWords]>>

\* expert_row, which reads the source
WeightIn(b, r, j) ==
    <<QWeight(b)[j * Shape[b].n + r], IF source.zeros[b] THEN 8 ELSE <<b, "zero">>,
      Scales(b)[(j \div GroupWords) * Shape[b].n + r]>>

-----------------------------------------------------------------------------
(***************************************************************************)
(* repack, up to the threads: the plan is refused, or a file that it would *)
(* write is there already.                                                 *)
(***************************************************************************)
Refuses == ~PlanHolds \/ \E f \in Shards : parts[f] >= 0

StartRepack ==
    /\ at = "none"
    /\ IF Refuses
       THEN at' = "err" /\ UNCHANGED <<todo, failed>>
       ELSE at' = "write" /\ todo' = Shards /\ failed' = FALSE
    /\ UNCHANGED <<source, disk>>

(***************************************************************************)
(* write_shard and the copying of a file, part by part; each may fail, and *)
(* a projection with other zero points does.                               *)
(***************************************************************************)
Whole(f) == Len(Planned(f)) + 1
Unsound(f) ==
    /\ f \in ModelFile /\ parts[f] \in 1 .. Len(Planned(f))
    /\ Planned(f)[parts[f]][2] = "packed" /\ ~source.zeros[Planned(f)[parts[f]][1]]

WritePart(f) ==
    /\ at = "write" /\ f \in todo /\ parts[f] < Whole(f) /\ ~Unsound(f)
    /\ parts' = [parts EXCEPT ![f] = @ + 1]
    /\ UNCHANGED <<source, index, config, at, todo, failed>>

FileDone(f) ==
    /\ at = "write" /\ f \in todo /\ parts[f] = Whole(f)
    /\ todo' = todo \ {f}
    /\ UNCHANGED <<source, disk, at, failed>>

FileErr(f) ==
    /\ at = "write" /\ f \in todo
    /\ todo' = todo \ {f} /\ failed' = TRUE
    /\ UNCHANGED <<source, disk, at>>

(***************************************************************************)
(* All threads have ended: the index, then the configuration, then the     *)
(* other files, which no reader of tensors looks at, and the check.        *)
(***************************************************************************)
WriteIndexAnyway ==     \* fault: the errors of the threads are only shown
    /\ at = "write" /\ todo = {}
    /\ at' = "index" /\ index' = TRUE
    /\ UNCHANGED <<source, parts, config, todo, failed>>

WriteIndex ==
    /\ at = "write" /\ todo = {} /\ ~failed
    /\ at' = "index" /\ index' = TRUE
    /\ UNCHANGED <<source, parts, config, todo, failed>>

WriteConfigFirst ==     \* fault: the configuration is written with the files
    /\ at \in {"write", "index"} /\ source.config
    /\ config' = TRUE /\ at' = IF at = "index" THEN "config" ELSE at
    /\ UNCHANGED <<source, parts, index, todo, failed>>

WriteConfig ==
    /\ at = "index" /\ source.config
    /\ at' = "config" /\ config' = TRUE
    /\ UNCHANGED <<source, parts, index, todo, failed>>

SelfCheck ==
    /\ at = "config"
    /\ at' = IF /\ Opens /\ Cardinality(Named) = Cardinality(Given)
                /\ Cardinality({t \in Named : t[2] = "packed"}) = Expected
             THEN "ok" ELSE "err"
    /\ UNCHANGED <<source, disk, todo, failed>>

\* The error of a thread; a file that cannot be written; no quantization_config.
RepackErr ==
    /\ at \in {"write", "index", "config"} /\ (at = "write" => todo = {})
    /\ at' = "err"
    /\ UNCHANGED <<source, disk, todo, failed>>

(***************************************************************************)
(* The process ends at any time.  Before the next attempt files are        *)
(* deleted, as its error asks for, or the whole directory.                 *)
(***************************************************************************)
EndOfRepack ==
    /\ at' = "none" /\ todo' = {} /\ failed' = FALSE
    /\ UNCHANGED <<source, disk>>

DeleteFiles(S) ==
    /\ at = "none"
    /\ parts' = [f \in File |-> IF f \in S THEN -1 ELSE parts[f]]
    /\ UNCHANGED <<source, index, config, at, todo, failed>>

DeleteAll ==
    /\ at = "none"
    /\ parts' = [f \in File |-> -1] /\ index' = FALSE /\ config' = FALSE
    /\ UNCHANGED <<source, at, todo, failed>>

RepackInit ==
    /\ source \in Sources
    /\ parts = [f \in File |-> -1] /\ index = FALSE /\ config = FALSE
    /\ at = "none" /\ todo = {} /\ failed = FALSE

RepackNext ==
    \/ StartRepack \/ WriteIndex \/ WriteConfig \/ SelfCheck \/ RepackErr
    \/ \E f \in File : WritePart(f) \/ FileDone(f) \/ FileErr(f)
    \/ at # "none" /\ EndOfRepack
    \/ \E S \in SUBSET File : DeleteFiles(S)
    \/ DeleteAll

RepackSpec == RepackInit /\ [][RepackNext]_repackVars
-----------------------------------------------------------------------------
(***************************************************************************)
(* A conversion that reports success has converted the model: each tensor  *)
(* of the source can be read, and each weight is the source's, whatever    *)
(* was left by attempts before, in whatever order the threads ended, and   *)
(* wherever the source had the three tensors of a projection.              *)
(***************************************************************************)
RepackExact == at = "ok" =>
    /\ \A t \in Entries : There(t)
    /\ \A b \in Rebuilt : \A r \in 0 .. Shape[b].n - 1 : \A j \in 0 .. Shape[b].kw - 1 :
          WeightOf(b, r, j) = WeightIn(b, r, j)

(***************************************************************************)
(* What an interrupted conversion leaves is never opened as a smaller      *)
(* model: a directory a reader opens names every tensor of the source, so  *)
(* that what is missing is an error and not an expert less.                *)
(***************************************************************************)
NoLesserModel == Opens => Entries \subseteq Named
=============================================================================
