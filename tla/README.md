# LLM170 in TLA+

LLM170 is an inference server for Qwen (3.5, MoE) and Gemma 4 models on one or
several GPUs, written in Rust with CUDA kernels; a further model, FN, runs in its
tools. Connection threads accept
OpenAI- and Anthropic-style requests and send them over a bounded channel to one
scheduler thread, which owns the engine: it puts requests into slots, reads
their prompts chunk by chunk, decodes all slots together, and keeps the KV cache
of a finished conversation for the next request that continues it.

This directory models what makes that correct, from the lock a server takes
before it loads to the last frame a client is sent. Paths below are relative to
`src/crates/`; `w4a16_dec/` stands for `backend-gpu/src/rawcuda/w4a16_dec/`.

## 1. Inventory

| Part | State | Operations | What makes it correct |
|---|---|---|---|
| KV pool, `w4a16_dec/blocktable.rs` | two free stacks, a block map and a count per slot | `ensure`, `release`, `release_below` | a block has one owner, is in its own tier, is never lost or freed twice |
| KV growth, `w4a16_dec/upload.rs` | `kv_assigned`, `kv_floor` per slot, the table on the device | `kv_grow`, `kv_ensure`, `kv_release`, `kv_release_below` | the rows of the next pass have their blocks, also after a copy failed; growth never runs dry |
| Engines, `server/src/gpu_engine/{qwen,gemma}.rs` | `slot_pos` | prefill, decode, verify, `restore_prefix`, `reset_seq`, `maybe_trim` | position, rows and state belong to the same tokens |
| Recurrent state, `w4a16_dec/{spec,chains,prefill}.rs` | state per slot, ring of 4 checkpoints | `chain_t`, `checkpoint_gdn`, `restore_gdn`, `spec_rollback`, `reset_state` | the state is the one its own conversation leads to |
| Shards, `w4a16_dec/shard.rs`, `gpu_engine/pp.rs` | position, state, checkpoints and pool of each card | every call of the engine, twice | both cards stand at the same token of the same conversation |
| Decoding, `server/src/sched/{decode,spec}.rs`, `w4a16_dec/kstep.rs` | `next`, `tokens`, `generated` | single step, k-step, verify round, `slot_emit` | every round emits what single steps would |
| Draft economics, `sched/econ.rs` | counts and moving averages | `econ_plan`, `econ_spec_sample` | drafting is neither lost nor forced for ever; no effect on the output |
| Scheduler, `server/src/sched.rs`, `sched/{assign,prefill}.rs` | slots, pending list, channel | `slot_loop`, `slot_intake`, `assign_slot`, `finish_slot`, `reclaim_idle` | each request is answered once, nobody waits for ever |
| Admission, `server/src/sched/admit.rs` | threshold D, freeze, windows of waits | `binpack_order`, `predict_start_delay`, `decide`, `maybe_adapt` | large requests are not passed over |
| Front, `server/src/http.rs`, `oai/mod.rs` | connections, channel, one result and one progress channel per job | `serve`, `enqueue_job`, `run_job`, `run_and_emit` | connections are counted, streams whole, nobody waits for a dead engine |
| Tokenizer, `server/src/tokenize.rs` | vocabulary, merges | `encode_opts`, `partition_special`, `split_pre`, the merge heap | the tokens say the text, merged by rank |
| Schemas, `server/src/oai/schema.rs` | automaton, set of states | `compile`, `advance`, `allowed` | what the schema allows can be said, what it forbids cannot |
| Text stream, `oai/stream.rs`, `engine.rs` | bytes, text, what was sent | `push`, `flush`, `Detok::feed` | no part of a stop string is shown, characters are whole |
| Passes, `w4a16_dec/{chains,prefill,graphs,attn,gdn,kstep,g4,fnchain}.rs`, `moe/mod.rs`, `kernels/` | working buffers, row tables, rings, states and rows on the device, `slot_pos` | `forward_device`, `graph_replay`, `forward_device_argmax_batch`, `chain_t_sel`, `spec_verify`, `reset_state`; `g4_run_*`; `fn_chain_run` | each kernel reads what this pass wrote, of its own slot, position and layer |
| Graphs, `w4a16_dec/{graphs,buffers}.rs` | buffers, graph caches, pinned buffers | ensure, warm, capture, replay, invalidate | a replay reads and writes memory that is still there |
| Expert cache, `w4a16_dec/moe/moe_gemv.rs` | slots, ages, table of addresses | stage, insert, launch | a kernel reads the experts the gate chose |
| Weight upload, `w4a16_dec/mem.rs` | two pinned buffers, two events | `send`, `sync` | what arrives is what was read |
| Start, `server/src/{main,resource}.rs`, `core/src/plan.rs` | lock file, plan, allocations | lock, `preflight`, `plan`, load | what the plan found room for is there; the layers are cut without a gap |
| Model files, `core/src/qwen4exp/repack.rs`, `core/src/{st,w4a16}.rs` | the files of the output, index, configuration | plan, `write_shard` per thread, index, self-check; `open` | a conversion that reports success is the model; one that was interrupted is not opened as a smaller one |
| Draft head, `w4a16_dec/mtp.rs`, `gpu_engine/mtp.rs` | hidden rows kept, a cache of its own, graphs | `mtp_prefill_chunk`, `mtp_post_round`, `mtp_chain_round` | each token of a draft is made of the rows it should be |
| FN texts, `core/src/qwen4exp/`, `probes/w4a16/gpu.rs` | n-grams, convolution and indexer caches carried from stretch to stretch | a stretch of a text | a text is the same however it is cut |
| Sampler, `core/src/sampler.rs`, `sched/spec.rs` | the last tokens, the parameters of the request | `sample`, `prob_of`, the two rejections of a verify round | a draft is accepted as often as it would have been drawn |
| Reader, `server/src/http.rs` | buffer, line, head and body of the request that is read | `read_line_bounded`, `read_request_from`, `read_request` | requests are read as they were sent, however the network cuts them |
| Prefix trie, `tree.rs` | token boundaries per slot | `insert`, `rebuild`, `longest_prefix` | a hint, recounted by `assign_slot` |
| n-gram drafts, `core/src/spec.rs` | history | look-up | proposals only |
| Memory advice, cache registry, metrics, watchdog, the numbers of kernels, the JSON of model files, probes | | | |

Interactions: threads share only the channel, one result and one progress
channel per job, and atomic counters; processes share a lock file and the
memory. Everything else happens on the scheduler thread, so most hard behaviours
are not data races but sequences: the free count is read at one point and used
at another while slots are reset, reclaimed and filled; a conversation is
trimmed, kept, reused in part and trimmed again; state on the device outlives
the request it was computed for; a pass fails half way, in one copy or between
two cards, and is tried again; rounds emit several tokens where the checks look
at one; a graph keeps addresses of what has moved. The `hazards` of PROJECT.json
list them at their lines, each with the properties that would catch it.

## 2. Modules

```
BlockLedger   <=implements=  KvPool  <-  KvTable             blocks, and their table on the device
                             KvSlots                         a request's rows and blocks
RequestServer <=implements=  SlotSched                       the scheduler thread
                             GdnCheckpoint                   the recurrent state of a slot
                               A, B of Shards                the same on two cards
                             ShardPools                      the pools of two cards, seen as one
                             DecodeRounds, DraftEcon, Sampler
                                                             the tokens of one request
                             HttpReader, Tokenizer, Constrained, TextStream, Front
                                                             the way of a request and its answer
                             DeviceGraphs, ExpertCache       what lives on the device
Kernels <- Launches, Streams <- Forward <- DraftHead         a pass of Qwen, kernel by kernel
                             <- GemmaPass, FnPass            of Gemma 4, of FN
                             FnText                          a text of FN in stretches
                             PinnedRing                      the upload
                             LoadGate, ShardPlan             the start of servers
                             Repack                          the files they read
```

| Proofs | of | run of the same parts |
|---|---|---|
| `PassesProofs` | KvSlots, FnText | `MCPasses`, `MCCapacity` |
| `CapacityProofs` | Shards, ShardPools, LoadGate, Repack, ShardPlan | `MCCapacity` |
| `SlotSchedProofs` | SlotSched | `MCSlotSched` |
| `AnswerProofs` | Front, DecodeRounds, TextStream, Sampler | `MCAnswer` |
| `TokenizerProofs` | Tokenizer | `MCAnswer` |
| `ReaderProofs` | HttpReader | `MCAnswer` |
| `DeviceProofs` | KvPool, KvTable, GdnCheckpoint, DeviceGraphs, ExpertCache, PinnedRing | `MCDevice`, `MCPasses` |
| `DataLemmas` | minima and maxima, quotients, first parts and concatenations of sequences, what is computed step by step: facts the others need | |

Each component abstracts what another one establishes: `KvSlots` keeps only
whether an entry has a block (which block it is, and that nobody else has it, is
`KvPool`'s invariant); `SlotSched` keeps only the number of blocks a slot holds
(that an admitted request needs no more than its reservation, and that an idle
slot holds blocks exactly when it has a conversation, are `NeverExhausted` and
`Reclaimable` of `KvSlots`); `Front` has an engine that ends each job it takes
(`Drained` of `SlotSched`) unless it dies. A row is a block in `KvTable`, a column of
blocks in `ShardPools`.

Where parts interact they are composed: `KvTable` extends `KvPool`, `Shards`
instantiates `GdnCheckpoint` once for each card. Parts of one area that meet only
through the results above are checked in one run, side by side:
`MCCapacity`, `MCDevice`, `MCPasses` and `MCAnswer` have a variable `part`, and a behaviour is
one of that part.

### KvPool, BlockLedger, KvTable
`freeVram`/`freeHost` are `free_vram`/`free_host` as bags, `slotMap` is
`slot_map`, `used` is `used`. `Ensure`, `Release`, `ReleaseBelow` are the three
methods. `BlockLedger` is the promise: sets of held blocks, exclusive, VRAM first.
`KvTable` has the callers copy by copy: `Grow`, `GrowEntry`, `GrowDone` are `kv_grow`, of
which any copy may fail (`GrowErr`); `Trim*` is `kv_release_below`, which gives the
blocks back first and clears their entries afterwards. An admission that fails is
undone by a release, a pass that fails is repeated or given up.

### KvSlots
`mapped` is the set of entries of `slot_map` that have a block, `kvAssigned`,
`kvFloor`, `pos` are the fields of that name, `job` and `cached` are the slot's
(as lengths). `hollow` records which entries got their block after rows of theirs
had been written: such a block has none of those rows. `Admit` is `admit_ok` with
the whole of `assign_slot`; `Prefill` and `Decode` are one forward pass with its
`kv_grow`/`kv_ensure`, `maybe_trim` and `finish_slot`; `Fail` and `Reclaim` are
`reset_seq` and `reclaim_idle`. `Gemma` selects the engine: it trims, reuses on a
chunk grid and grows at each pass; Qwen restores checkpoints and grows when
`kv_assigned` is exceeded.

### SlotSched, RequestServer
One step is a turn of one of the loops in `slot_loop`; `phase` says where it
stands. Between any two steps clients send and hang up. `Decide` is the freeze,
`Take*` the first loop of `slot_intake`, `Recv*` the second, then `Decode`,
`Prefill*`, `Turn` and, when nothing is left, the blocking `recv` (`Woken*`). In a
turn without any work the loop skips its end (`AfterPrefill`), as the code does;
idle prefixes are given up in every turn with an idle slot (`Victims`), also when
nothing is pending (`sched.rs:554`). `RequestServer` is the promise: a request waits,
is served in one of so many lanes, leaves with one answer.

### GdnCheckpoint, Shards, ShardPools
`state` is the sequence of tokens the recurrent state consumed, so "the right
state" can be said: a prefix of the conversation. `ckpt` and `aged` are
`dchk`/`dchk_pos`/`dchk_saved` and the order of `dchk_use`. `Assign` is the reuse
in `assign_slot`, `Read`, `Decode`, `KStep` and `Verify` the passes. `Shards` has two of
them, for the halves of the layers; each of its actions is a call of `PpEngine`
with the steps of both shards, or of the first one only when the call fails in
between (`Torn`). `ShardPools` is admission over two pools of which the scheduler
sees minima.

### DecodeRounds, DraftEcon
The model is a function of the rows it is fed: fed its own output it continues
`truth`, fed anything else it may say anything, so a row too many or too few shows
in the output. `Emit` is `slot_emit` for all tokens of a round with the
`finish_slot` that follows. `PassErr`, `SampledErr` are rounds that fail behind the
pass; the job is tried again up to `ErrMax` times. `Astray` is what
follows when such a failure left rows ahead of the conversation. `DraftEcon` decides
which kind of round comes next from counts; of costs it keeps which is lower.

### Sampler
A row gives a logit to each token that has one; a weight is read off a table and a coin is
a number below the mass that is drawn from, so a draw is modelled by the mass each token has.
`Odds` is `sample`: the tokens near the largest, the bound for the others, `top_k`, `top_p` and
`min_p` on the sorted first ones, and the second pass over all when these do not suffice. `ProbOf`
is `prob_of`. `BeginVerify`, `AcceptCopied`, `RejectCopied`, `Correct` are the sampled verify round
of `sched/spec.rs`, on drafts copied from the conversation as `core/src/spec.rs` does.

### HttpReader, Tokenizer, Constrained, TextStream, Front
`HttpReader` is a `BufReader` that the network fills in pieces of any length: `TakePiece` is a turn
of `read_line_bounded`, `TakeBytes` of `read_exact`, `at` says which line or body of
`read_request_from` is next; ends of lines, headers and sizes are units, other text is a word.
`SpecialToken`, `NextWord`, `PopPair`, `WordDone` are the loops of `encode_opts` and
`merge_heap`; a pair in the heap is recognised as stale by lengths, as the code does.
`Merged` is the reference: merge by rank, one merge at a time. `Compile` builds the
automaton of `schema.rs` part by part, `Pick` follows it. `Push` and `Flush` are
`TextStream`'s, over bytes of which the role in UTF-8 is kept. In `Front` a thread of
`th` is a connection from `accept` to its end; `Take`, `SendFrame`, `FinishJob`,
`Panic` are the engine as its clients see it.

### Kernels, Launches, Streams, Forward
`Kernels` is what one launch does to the device. A buffer holds, row by row, a value
that says what it is (queries, a norm, logits), of which sublayer, slot and position.
`Rule` is the reference of `core/src/qwen35`: which value follows from which. A kernel
given exactly those makes the value, given anything else it makes `Junk`, so a missing
launch, two in the wrong order, a buffer taken again too soon, the wrong row table or
the state of another slot all end in a wrong result. Rows of keys and values, convolution
rings and recurrent states (`kv`, `reg`) outlive the pass. `Launches` has the launch lists of
the parts of a layer with their conditions: which product is taken for a weight that is
packed, held or gone and for how many rows, attention, the three forms of the delta rule,
the experts and the shared expert on its second stream. `Forward` puts them together as
`chain_device_body`, `batch_launch` and `chain_t_sel` do, one action per call
(`ForwardDirect`, `ForwardReplay`, `ForwardBatch`, `ForwardChain`, `SpecVerify`, `ResetState`).
`Streams` has the host, which puts a pass on the stream and waits, and the two streams
(`RunMain`, `RunAux`). One expert and one head stand for all, a buffer
that only a kernel itself uses is left out (the partial sums of a split product), shapes
are assumed to fit the packed products. Passes that fail are `DeviceGraphs`' and
`DecodeRounds`' matter, growth of the rows is `KvTable`'s, checkpoints are `GdnCheckpoint`'s.

### GemmaPass, FnPass, DraftHead, FnText
The same machine runs three other lists of launches. `GemmaPass` takes the slot and the
position of each row from tables on the device, which are written only when they differ
from the last ones (`atab` is `g4_atab`); `FnPass` has several residual streams and the
embeddings of the last tokens, whose convolution outlives the pass (`ple_init`).
`DraftHead` runs the MTP layer behind a pass of Qwen: which hidden rows it is given after
a prefill, a step, a k-step or a verify round, its own cache, the graph of `t` rows that
belongs to the slot it was captured for, and the chain of drafts on the device or through
the host. A wrong row shows as a draft that is not of its place; the reference allows
no other, except from a graph of another slot. `FnText` has, instead of kernels, what a
position of an FN text reaches back to (n-grams, two convolutions, the rows an indexer
selects) and the caches that carry it across a cut.

### DeviceGraphs, ExpertCache, PinnedRing
`cap` is the room of each working buffer, a graph is `fresh` while no buffer it has
the address of has moved; a call ensures its buffers, then runs, warms, captures or
replays, and may fail at each `?`. `ExpertCache` stages the selected experts one by
one; `found` is what the launch will read. `PinnedRing` has the two pinned buffers and
the event of each; the copy engine goes on by itself (`Arrive`).

### LoadGate, ShardPlan
A server goes from the lock through `preflight`, `plan` and the tiers of its KV to
its allocations, in the order of `main.rs`, while another one does the same.
`ShardPlan` cuts layers into blocks, one per card. Bytes are natural numbers: the sums
of the code saturate at 2^64, which no model reaches.

### Repack
The conversion of a GPTQ model. `source` says in which shard each tensor was; a file
of the output is the number of its parts (header, then tensors) that are there, so
that it can be cut anywhere; `todo` are the threads that still write. `Packed` and
`Scale` are the two transpositions of `repack_triple` on arrays whose elements are
named for where they come from. The process may end at any time, and of what it left
any files, or all, are deleted before the next attempt. `Opens` and `There` are what
`StArchive::open`, `W4a16Model::open` and `expert_at` make of such a directory.

## 3. Runs

| Run | Asks | Result |
|---|---|---|
| `capacity` | does a reservation cover every pass, are idle blocks reclaimable, also over two pools; do two shards stay in step; does what was planned fit; do the cuts cover the layers; are converted files the model, whatever was interrupted? | holds |
| `passes` | is every attended row there with a trimmed layer; does every kernel of a pass of Qwen, its draft head, Gemma 4 or FN read what that pass wrote, and its own experts; is an FN text the same in any stretches? | holds |
| `kv_slots_trimmed` | the same for a prompt that shares part of a trimmed conversation | violated |
| `sched` | is everybody answered once and nobody overtaken, everybody answered once arrivals end, and is it a `RequestServer`? | holds |
| `device` | are blocks conserved, counted and found through the table whatever copies fail, is the ledger implemented; is reuse by checkpoint lossless, does no graph outlive its buffers, is an upload exact? | holds |
| `gdn_fork`, `gdn_draft`, `gdn_kstep` | lossless reuse with prompts that part, with drafts across a checkpoint, with eos in a k-step | violated |
| `answer` | are requests read as they were made, do the tokens say the text, is the answer that of single steps, are drafts accepted as often as drawn, does the schema hold, is the stream the answer, does everybody get one? | holds |
| `schema_open` | is an answer that ended what the schema asks for, whole? | violated |
| `rounds_eos` | the answer with eos among accepted drafts | violated |
| `sampler_zero` | is a draft token accepted only if it could have been drawn, at temperature zero? | violated |

Each violated run is a `finding` in PROJECT.json with the line of the repository
that says otherwise. In short: partial reuse after trimming attends to rows that
were given back; checkpoints survive `reset_seq` and are taken before acceptance,
and a k-step runs on behind eos in the recurrent state; an answer held to a schema
may leave out or repeat its opening brace; multi-token rounds overlook a stop
token that is not their last; and `prob_of` says at temperature zero what it says at one, not
which token is the largest. The passing runs of the same module show that nothing
else is wrong there: `device` is lossless over every conversation that only grows,
`answer` over every draft without a stop token.

Two relatives of these have no run of their own. The warm-up of `slot_loop` reads
528 tokens in each slot, and with chunks of 512 leaves a checkpoint that
`reset_seq` keeps: `gdn_fork` with the warm-up as the first conversation. A k-step
ends at the engine's eos only, so with a `Stops` that holds another token the
`rounds_eos` violation needs no draft.

`NoOvertaking` holds partly because every turn reclaims idle prefixes: a pending
job fits as soon as any idle block is enough for it.

### Bounds
* Blocks (`device`): 2 interchangeable slots, a sliding layer of 3 blocks, 3 blocks
  in 2 tiers of which one is in VRAM: the pool runs empty, spills to the host
  tier, and a trim frees blocks for the other slot. Shards (`capacity`): two prompts of which
  one continues the other, a checkpoint every 2 tokens and 2 of them, up to 5
  tokens, drafts of 1, so that rings differ after a torn call.
* Passes: 4 layers of which every second attends (2 of Gemma), 2 interchangeable slots, a
  context of 4, passes of up to 4 rows where up to 2 are a small pass (8 in the code), 4
  are wide (16) and a packed product goes in tiles of 2 (64); Gemma's small products have
  up to 3 rows (16): every choice a launcher makes by the number of rows is made both ways.
  15 nets (`SomeNets`): of Qwen seven, quantised without, with some and with all packed
  copies (and two originals that could not be freed), models of experts with and without
  packed, resident and forked ones, whole or a shard's window, and two with a draft head
  (drafts of 3 tokens, 4 in the code; buffers of 3 rows, 64), one with its graphs and one
  without; two of Gemma and four of FN. The indexed net of FN takes one stretch (see 5). A
  stream that runs alone goes 20 launches a step (`Stretch`), which is sound because nothing
  else moves and a pass is judged at its end. Texts of FN: 7 tokens of which any may end
  a text, n-grams of 3, taps 2 apart (3 in the code), a convolution of 3, an indexer that
  takes 2 rows together and sees 2 such blocks, stretches of up to 3 (128), so that
  everything a position reaches back to lies before the last cut somewhere.
* Requests (`capacity`, `passes`, `kv_slots_trimmed`): blocks of 2 or 3 rows, a context of 12 to 14
  rows, a verify width of 3, pools that admit two small requests but not two large
  ones; a long request trims several times. `ModelMax` above and below the context is
  covered by the two engines. Two pools of 2 and 3 layers and 3 sequences, so that
  the smaller need and the smaller free list belong to different shards. Two servers
  with four kinds of models on a card of 24 units that holds any one of them but not
  all pairs; 3 cards and up to 4 layers of 0, 1 or 3 units. Files:
  two projections of different shapes, two shards and one that is copied, and seven
  sources: triples in one shard or spread over two, incomplete, with other zero
  points, without a quantization_config.
* `sched`: 2 slots, 4 blocks, a channel of 1, 4 clients with one request at a time
  (but again and again), prompts of up to 2 chunks, 2 tokens; 2 failures in a
  row fail a job (3 in the code). Jobs that fit alone but not together, and
  one that can never fit, all occur. An empty prompt does not: the front refuses it
  (`oai/mod.rs:451`, `:714`).
* Checkpoints (`device`, `gdn_*`): at multiples of 2 (512 in the code; 9, beyond the
  longest conversation, where `gdn_kstep` wants none); 2 entries (4), so the ring
  overflows; conversations of up to 7 or 8 tokens over an alphabet of 2; `saved`
  saturates at 2. A greedy verify pass runs eagerly the first time for a slot and a
  width and then replays a captured graph (a sampled one is always eager), at whose
  end no checkpoint is taken; `Eager` allows the former, and `device` has only the
  latter, because the former is what `gdn_draft` is about.
* Graphs: 2 slots, passes of 1 and 2 rows, 1 graph in each cache, one buffer for
  each way the code grows one (freed first, allocated first, needed by wide passes
  only). Experts (`passes`): 3 interchangeable ones, 2 per token, caches of 0 and 2, chunks of
  2 tokens; a cache of 1 is the counterexample of section 5. Upload: 5 chunks, so each buffer is used again twice.
* Answers: `n_predict` from 0 to 4, k-steps of up to 4, drafts of up to 2, over all
  continuations of 3 tokens, 2 failures; drafts have no stop token (`DraftTokens`),
  in `rounds_eos` they do. Texts of up to 5 tokens that begin and end in the middle
  of characters, 3 stop strings that overlap. Schemas with each kind of value, alone
  and as one of two fields, answers of 8 symbols. Prompts of up to 6 characters
  with merges that overlap on either side, special tokens that are prefixes of each
  other, four schemes. Draws: 4 tokens, rows with ties, with gaps and with no logit at all, weights that
  fall by powers of two at three temperatures, a cut of 3 (20 in the code) and 3 sorted candidates
  (4096), so that each way through `sample` is taken; drafts of 2. Two requests of a connection
  out of three kinds, with ends of lines in their bodies and every limit close enough to be met. 2 connections, which are `MaxConns`, and a channel of 1.

`SavedMax` stands for the saturation of `u32`; other widths do not matter here
because positions are bounded by the context. The periods of `DraftEcon` (64, 32, 4
rounds) are the code's, `MissPeriod` and `ProbeTokens` are small multiples of a
round as 256 and 512 are.

### Fairness
`SlotSched` assumes weak fairness of the scheduler thread's own step, which is a
`loop` without other exits, and nothing of clients: they may stop sending, hang up
or never send. The freeze is decided anew each turn, so under arrivals that never
end a waiting request has no bound; `Drained` is therefore stated for arrivals
that end. Passes may fail, but only `ErrMax` times in a row. `DecodeRounds` and
`DraftEcon` assume that the loop goes on with a slot that has a job. `Front` assumes
that a thread goes on wherever it does not wait for its client, and that the engine
takes and ends jobs (`Drained`) unless it panics, and then unwinds; nothing is
assumed of clients. Deadlock is checked where a part never ends; parts that end when
their answer is given or their servers are up (`answer`, `capacity`, `device`, whose
conversations are bounded) have it off.

## 4. Proofs

The proof modules prove their theorems for all values of the constants that the named
assumptions of the modules allow (`PoolAssumption`, `SlotsAssumption`,
`ShardsAssumption`, `GdnAssumption`, `GraphsAssumption`, `ExpertAssumption`,
`RingAssumption`, `RoundsAssumption`, `FrontAssumption`, `LoadGateAssumption`, ...), which
say of which kind a constant is; TLC evaluates them in the passing runs. A hypothesis
beyond these is named below, with the run that shows it is needed.

* Blocks (`DeviceProofs`): `PoolTypeCorrect`, `PoolConserves`.
  What `BlocksConserved` says of blocks (`EachOnce`) is inductive with the type invariant: a released entry's block is
  counted once because no two entries map it, hence goes to 1 in its stack from 0; a
  popped block was mapped nowhere. For the count (`UsedIsMapped`) the cardinality of the mapped entries is
  followed through each action. `PoolImplementsLedger`: each step of the pool is a
  `Grant`, a `Return` or a stutter under `Held`; the guard "VRAM first" needs that a VRAM
  block that is not free is held, which is conservation again. `TableTypeCorrect`,
  `TableKeepsOwner`, `TableImplementsPool`: the calls that go copy by copy use the pool
  only through its actions, so the ledger holds for them too, and an entry that a pass goes
  through has the address of the block mapped for it. `TableInv` says for each kind of
  call in progress which entries may still differ: those not yet reached by a grow,
  and below the floor those not yet cleared by a trim.
* Slots (`PassesProofs`): `SlotsTypeCorrect`, `SlotsKeepWindow`, `SlotsKeepReservation`,
  `SlotsNeverExhaust`, `SlotsWithinContext`, `SlotsReclaimable`. None of these is
  inductive alone. `SlotInv` joins them: a running slot holds all it reserved and
  its position is below the end of the reservation (`JobInv`), an idle slot holds
  blocks exactly when it has a conversation, and then all its attended rows
  (`IdleInv`), the floor lags the position by window and slack (`FloorInv`), no
  attended entry is hollow (`HollowInv`), and no grow ran dry. Growth then asks for
  nothing new (`WantMonotone`), trimming takes nothing wanted (`FloorBehind`,
  `TrimKeepsWanted`), and what admission counts is enough (`WantCount`). Hypothesis
  `WholeSharing`: with the Gemma engine a prompt shares all of a conversation or
  nothing; without it `WindowOwned` is false (`kv_slots_trimmed`).
* A text in stretches (`PassesProofs`): `StretchesAreFree`. `StretchInv` says that each cache
  is a function of the number of positions done, wherever stretches began: the window of
  the n-grams' convolution, the history and the state of a linear layer, the rows of keys
  and values, the index. The kernel that shifts its window in place ends with the
  reference's, because it reads only places it has not written yet (`ShiftGoesOn`); what a
  stretch does row by row is followed from its first value (`StepByStep`); blocks have one
  order, each at the number of those better than it, for numbers below v that grow are all
  of them (`Growing`), so the best ones are those with less than `BlockTopK` before them
  (`SelectOfIs`); and what the kernel reads of the packed rows is what the callback packed
  (`PackedReads`).
* Two cards. `BothShardsHaveRoom` (`CapacityProofs`): the two free lists differ only by what
  the layers make of the same columns (`PoolsInv`), so what fits the reported minimum fits
  both. `ShardsGoTogether`: without a failure between the shards they stand
  at one position, by the steps of the calls alone. `ShardsReadTheSame`: while nothing
  that `ShardsInStep` exempts has happened, the two states are equal, every checkpoint of
  either ring is what its position leads to in every prompt that is long enough
  (`RingOK`), an idle slot whose conversation is as long as its state has read just that
  (`AtRest`), and a served one has either read part of its prompt or all of the
  conversation but its last token (`Serving`). Hypothesis `Straight`: the prompts
  continue one another.
* The start (`CapacityProofs`): `NothingSpentTwice`, `ToldFitsFits`. `GateInv` accounts for
  what is free at each stage of each of the two servers: only the holder of the lock has a
  plan not yet loaded, and the other can at most take its own reserve.
* The scheduler (`SlotSchedProofs`): `SchedTypeCorrect`, `EachAnsweredOnce`, `NoneOvertakes`,
  `SchedulerServesOnce`. `SchedInv` has the places of the requests (channel, pending list
  and slots are disjoint, without repetition, and are together the open requests:
  `PlacesInv`), the sum of the blocks held, and what earlier phases of the turn have
  established for the later ones (`TurnInv`: when the channel is read, either the turn is
  frozen or nothing pending fits and no prefix is left to give up). That is what forbids
  overtaking through the third way in, and with `PlacesInv` each turn of a loop maps to a
  step of `RequestServer` or a stutter.
* Files (`CapacityProofs`): `NothingLesserOpens`, `ConvertsExactly`. `RepackInv` says what the
  order of the writes is for: while threads write, a file whose thread has ended without an
  error is whole, a packed projection is in a file only if its zero points were looked at
  (`SoundFile`), and the configuration is never there without the index, whatever of a
  directory is deleted. That each weight is then the source's is arithmetic on groups of
  which one divides the other (`WeightsAre`, from Euclid's theorem in `RowAndColumn`).
* The plan for several cards (`CapacityProofs`): `BlocksCoverTheModel`. The blocks a fold over
  the layers leaves are a chain from the first layer to the last (`ChainTo`, kept by every
  layer in `PlacedCuts`; padding the cards left over does not break it). What a block holds
  is a difference of two sums (`PartIs`), so the weights telescope; the shares of the KV up
  to a card are, times the attention layers, at most a rounding for each card below the due.
* Text (`AnswerProofs`): `TextTypeCorrect`, `CutsAtEarliest`, `StreamsTheAnswer`. `TextInv`: text
  and buffer are the tokens (`WholeText`), the client has the first of the text in whole
  characters (`ShownIs`), neither what it has nor the next search is past what is held back
  (`SearchedIs`), and no earlier text had a stop string (`NoneBefore`). A stop string new in
  the text ends behind the old text, so it begins where what is held back does or later
  (`NewOnes`): the search skips none (`SearchSkips`), and the cut is not before what was shown.
  Both ends of a stop string of whole characters are boundaries of the text (`StopIsWhole`).
* Tokens (`TokenizerProofs`): `CodeInvariant`, `TokensSpellTheText`. `EncodesText` is not
  inductive: it does not say what the heap holds. `CodeInv` adds that the symbols tile the word
  (`Tiles`), that the heap has every pair that can be merged now, with what its lengths were when
  it was pushed (`HeapOk`), and that each symbol can be written in tokens (`SaidAs`, which every
  merge keeps by what `TokenizerAssumption` says of the merges). A pair is stale exactly when it
  is not one of two neighbours (`FreshIs`), and the least of the heap, of one rank the leftmost,
  is then the pair that merging by definition takes (`LeastIsTaken`), because the texts of the
  symbols are in the order of their places (`PlacesRise`). That what is cut, split and written
  spells the text is shown piece by piece: special tokens (`PartitionIs`), words (`WordEnds`),
  units (`UnitsDo`), tokens (`AllIdsSay`).
* Rounds (`AnswerProofs`): `RowsAreTheConversation`, `SpeculationLossless`, `AnswersAreGreedy`.
  `RoundsInv` says the rows fed are all tokens emitted but the last, and these are a prefix
  of what single steps emit; every kind of round is shown to be one operator (`Round`) that
  keeps it. `AnswersAreGreedy` has the hypothesis `StopsSeen` (no draft token stops, no
  k-step has a stop token but eos), which `rounds_eos` shows is needed; the other two
  have none.
* Draws (`AnswerProofs`): `NucleusHasTheShare`, `OddsAreKept`. Places are a numbering of the
  candidates (`PlaceIs`, `RankedIs`), so the tokens near the largest are a first part of them
  (`NearIs`) and every mass is a sum of a first part (`CumIs`, `SumsRise`). What lies below the cut
  weighs at most its bound (`TailBound`), because weights fall with the distance and a temperature
  up to one only makes them fall faster: a nucleus that closes above the cut has the share of the
  whole row. `SamplerInv` has only the kinds of the variables and that a round that verifies
  has a token of its draft left: both properties speak of one state. Within the window of
  `repeat_last_n` both rows of `OddsKept` are penalised alike, and the first parts that `sample` and `prob_of` keep are the same but where
  the nucleus does not close above the cut (`PartsDiffer`). Its three conditions are needed:
  TLC finds odds that differ when any one of them is dropped.
* Connections (`AnswerProofs`): `ConnectionsCounted`, `StreamsWhole`. `FrontInv` ties the phase
  of each thread to what its two channels hold (`StreamInv`) and counts the live threads.
* Requests (`ReaderProofs`): `ReaderInvariant`, `RequestsAsMade`. `ReaderInv` says of each place
  of the parser (`Within`) that what it has taken of a line, of a chunk's end or of bytes,
  followed by the buffer, the network and what the client has not sent, is what the rest of
  the request and all later requests are sent as (`OnTrack`). A piece that ends anywhere only moves a part
  of this from one side to the other (`WaitsOn`, `BytesMeet`); the first end of a line in
  the buffer is that of the line expected, because no line has one within (`LineMeets`). The
  counts of the headers are those of the first ones that were sent (`HeadAt`), so that a
  refusal means a limit was passed (`Misfit`). A client that leaves lets at most one line be taken
  for a whole one (`PartRead`), and nothing comes after it (`Leaving`). `Formed` says
  what HTTP lets a client make; `ReaderAssumption` has it of all requests, and lines of
  three bytes, so that a size is within a line. A trailer that is too long is not `Formed`:
  what is left of it would be read as a request.
* The device (`DeviceProofs`). `ReuseIsLossless` is the one-card form of
  `ShardsReadTheSame`, with k-steps and verify rounds; hypothesis `Straight` has three
  parts, and `gdn_fork`, `gdn_draft` and `gdn_kstep` each drop one. `GraphsStayFresh`,
  `GraphsTyped`: `GraphsInv` says, for every step a call may be in and may fail in, that
  buffers that moved have taken their graphs with them. `ExpertsHaveTheirOwn`: the slots a
  call has found are the youngest of the cache (`Youngest`), so the oldest is free as long
  as there are more slots than experts found, by counting (`OldestIsFree`), and what is
  staged next overwrites nothing of this call; hypothesis `Roomy`, a cache is empty or
  holds the experts of a token. `RingExact`: a buffer holds the chunk its last copy was
  issued for until that copy has arrived, because it is filled again only behind its event.

Each invariant was first checked by TLC on the instance of its run, but for `SamplerInv`, which
says little more than of which kind the variables are, and `CodeInv` and `ReaderInv`, which range
over sets of sequences that TLC does not enumerate (the properties they imply, TLC does check).

What the proofs share is in `DataLemmas`: least and greatest elements from the well-founded
order of the naturals, quotients, first parts of sequences, sequences one behind the other
and what is computed step by step. It takes the place of induction over data: a counterexample, if there is one, has a least
one. For `FlattenSeq`, `Holdback` and the offsets in a file it is the least index at
which a recursive function would be undefined or wrong.

Only model-checked, and why:
* liveness (`Drained`, `RequestsAnswered`, `DraftsReturn`, `NobodyHangs`): ENABLED and fairness
  are out of the prover's reach;
* `NothingBarred`, `EndsWell`: Constrained uses recursive operators, which the prover does not
  take;
* `ForwardExact`: the launch lists of given nets are evaluated, which TLC does for each,
  and what a kernel makes is a value of a recursive reference.

## 5. Seen while modelling

Behaviours of the code that the models contain, or that stopped a stronger
property from being stated. None of them is a run of its own.

Scheduling and rounds
* `sched/econ.rs:120`: plain decoding is measured where `econ_rounds % 64 == 47`, but
  only rounds with a draft move `econ_rounds`: after 47 of them a slot drafts no more
  until the counts change. `DraftsReturn` is stated up to that point.
* `sched/spec.rs:28` asks for a multiple of 256 tokens, which k-steps of 4 may step over.
* `sched/admit.rs:138`: no freeze before a speed was measured; `sched/prefill.rs:55`
  prefers short prompts and may starve a long one; the pending list is not bounded
  (`sched.rs:572`); the loop spins in a turn without work (`sched.rs:413`);
  `queue_depth` may wrap for a moment (`oai/mod.rs:305`).
* A greedy MTP correction that fails after acceptance, a rollback or a late read that
  fails, leave rows ahead of the conversation (`Astray` of DecodeRounds). The sampled
  path emits before its correction and is repeated without loss. A prefill that fails
  midway is repeated without a reset (`sched/prefill.rs:125`).
* `qwen.rs:434`: a batch whose logits cannot be read falls back to single steps although
  it advanced the slots.

Shards
* `pp.rs:269` runs `forward_2shard_argmax` and then `forward_2shard` for the same token when
  the head is on the GPU: the token is fed twice, the scheduler counts one step. `Shards`
  has it (`MixedDecode`), and `ShardsInStep` is about the two shards, not the prompt.
* After a failure between the shards the retry reads the chunk again on the first one,
  whose checkpoints are then wrong while `restore_prefix` compares positions only.
* A verification of two shards always runs eagerly on the first: what `gdn_draft` shows
  does not end with the first capture there.

Sampling
* `apply_penalties_ext` (`sampler.rs:113`) looks at all recent tokens and all of the draft, `apply_penalties`
  at `repeat_last_n` of them after emission: with more tokens the rows differ.
* Above `CAND_N` candidates `prob_of` normalises by the sorted ones only and keeps them all where they
  do not close the nucleus, `sample` sorts the rest too.
* At a temperature above one the bound for what lies below the cut (`n * e^-20`) is none: logits are
  cut before they are scaled. `OddsKept` and `NucleusEnough` are stated for temperatures up to one.

Requests
* A trailer line that is too long, or a pause of two minutes within trailers, ends the request
  as if it were whole, and what follows is read as the next one (`http.rs`); the end of the
  connection in the middle of the headers ends them likewise.

Text
* An incomplete or invalid lead byte holds back all text behind it (`engine.rs:289`).
* An answer that is not streamed is cut at the first *listed* stop string, a stream at
  the earliest (`oai/mod.rs:547`); `StreamIsAnswer` is conditioned on texts with at most one
  stop string in them. A stop string ends the text only: the job runs on.
* The streaming path shows tokens before `finish_slot` cuts them.
* A top-level schema that is not an object never ends but by `n_predict`; a string takes
  two symbols after an escape.
* Gemma's decoder turns U+2581 of a text into a blank; wide units of a piece the
  vocabulary does not have are dropped (`tokenize.rs:591`), which `TokenizerAssumption`
  excludes.

Memory
* A start whose plan refuses still loads (only `max_kv` falls back to an estimate, which
  for a mixture of experts subtracts no weights); the reserve is counted once per start,
  so with three servers two may take from it while a third loads (`TwoServers`).
  `upload_moe`'s margin does not look at what is uploaded after it; the Vram tier does
  not check the embedding in host memory; `shard_plan` is a dry run only, `PpEngine` halves
  the layers.
* Fewer cache slots than a token has experts let a later one take an earlier one's slot
  before the launch (`moe_gemv.rs:155`): `ensure_moe_bufs` (`buffers.rs:519`) takes as many
  slots as free VRAM or `lru_cap` allows, one at least, and nothing compares that with
  `top_k`, as `moe_stage_t` does for a chunk (`moe_gemv.rs:308`). `ExpertSpec` with
  `Ks = {1}`, `TopK = 2` violates `ExpertsOwn` after three steps; the run and the theorem
  have caches that are empty or hold a token's experts (`Roomy`). A failed copy leaves its
  expert registered (`:256`, `torn`).
* Two conversions into one directory both pass the check for existing files
  (`repack.rs:298`) and then truncate each other's; `verify_sample` would see it, the
  self-check reads headers. `Repack` has one conversion at a time.
* `enable_spec` and `ensure_batch_bufs` leave null pointers when they fail half way
  (`gdn.rs:401`, `buffers.rs:702`); `fnchain.rs:74` leaves the old capacity.
  `PinnedRing` frees its buffers without a sync when it is dropped (`mem.rs:203`).

Passes
* The indexed attention of FN (`attn.rs:242`, `fnchain.rs:387`) never sets the position on the
  device, as `attn.rs:586` does: from a second stretch on it writes and reads keys and
  values from row 0. `FnChain` lets such a net take one stretch; without this guard
  `ForwardExact` is violated.
* A pass of Gemma that fails inside its graph is run again by the fallback (`g4.rs:849`) on the
  residual it has advanced; a failed upload of the tables leaves `g4_atab` at the older entry.
* `ple_init` is never reset: the tools of FN run one text per decoder. The tool recomputes the
  embeddings of the whole prompt for each stretch.
* The draft head: its graph of `t` rows is shared by all slots (`mtp.rs:309`); a pass in its
  graph that fails returns before the position is put back (`mtp.rs:274`), and the caller logs;
  after a prefill all hidden rows but the last lack the last branch (`prefill.rs:282`); k-steps
  leave rows of its cache unwritten and drafts survive a reset. All of it costs accepted
  drafts, not answers.
* A k-step ends at the engine's eos only, so other stop tokens inside it stay in the answer
  (`StopsSeen` of AnswerProofs).

## 6. Not modelled

See `components` in PROJECT.json for each part and its reason. What a kernel computes
(its numbers, quantisation) is arithmetic: `Kernels` knows which value
is made of which, not its digits, and `Sampler` has weights as a table of whole numbers. JSON is parsed once;
metrics, watchdog and memory advice are for display; probes and benchmarks are
development tools. Together they are most of the lines of the repository. The prefix
trie is a hint that `assign_slot` recounts (`SlotSched` lets it name any slot), `DecodeRounds` allows any drafts (which ones an n-gram look-up copies is in `Sampler`), which slot keeps drafts of the MTP head
up and where a draft waits is left open (`DraftHead`), Gemma's experts through the host
(`g4_moe_host`) are left out, and the registry of
caches never evicts in production: expert streaming and speculative decoding exclude
each other and its budget is what is free before the weights.

## 7. Plan

1. `Aging`: how D is adapted, and how long a head can be passed over.
2. Failures of the passes of the draft head, and which slots keep drafts up.
3. Constrained with recursive functions, then `NothingBarred` and `EndsWell` as theorems.
