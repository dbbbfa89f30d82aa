# A verification project for the GLM-5.3-Flash pipeline-parallel overlay

The repository is an overlay on vLLM that serves GLM-5.3-Flash on four sm_80
cards with pipeline parallelism, MTP speculative decoding and a 512k context.
Most of its 102 files are numeric kernels, launchers and measurement tools. Its
hard part is bookkeeping that runs ahead of what it knows: ranks that act on
tokens sampled steps ago, caches that are filled by tokens that may be rejected
later, state that is copied between blocks by kernels that decide on the GPU.
This project models that bookkeeping in TLA+, checks it with TLC and proves most
of its safety properties with TLAPS.

Paths below are relative to `src/`; `P` stands for `ported-files/vllm`.

## 1. Inventory

| component | state it keeps | operations | talks to | hard behaviour |
|---|---|---|---|---|
| **token relay**, `P/v1/worker/gpu/pp_utils.py` | FIFO of `PPSize` pending receives, generation counter per request slot, a communicator and stream of its own | `receive`, `get_prev_sampled_outputs`, `broadcast`, `broadcast_draft`, `on_req_idx_freed` | the model runner on every rank; the last rank's sampler and drafter | order and size of collectives; results applied `PPSize` steps late; slots reused meanwhile |
| **V2 model runner**, `P/v1/worker/gpu/model_runner.py` | request slots: `num_computed_tokens`, `last_sampled_tokens`, `draft_tokens`, block tables; `execute_model_state` between the two calls of a step | `execute_model`, `sample_tokens`, `finish_requests`, `add_requests`, `update_requests` | scheduler outputs, relay, model state, speculator | the CPU mirror is optimistic; every rank must build the same batch |
| **align-mode recurrent state**, `P/v1/worker/gpu/model_states/mamba_hybrid.py`, `P/v1/worker/mamba_utils.py` | running block and accepted count per slot; state blocks | `add_request`, `preprocess_state`, `postprocess_state` | runner (before the forward pass, after sampling, or with the relay) | decisions on the GPU, concurrent kernel programs, postprocessing steps late, block boundaries |
| **kpool index-key cache**, `P/models/glm5next/nvidia/ops/kpool_compress.py`, `P/model_executor/layers/sparse_attn_indexer_kpool.py` | pooled keys, one tail ring per request; the gather workspace and the top-k buffer | prefill compress and seed, decode update, slot mappings, top-k and its expansion to tokens | indexer metadata, KV cache manager, attention | pools that complete across batches, rejected drafts, tail blocks that change owner |
| **speculator**, `P/v1/worker/gpu/spec_decode/autoregressive/speculator.py` | draft inputs, positions, draft logits | `propose`, prefill step, multi-step and fused decode | runner on the last rank | positions after a partial acceptance, idle rows, the length limit |
| **GPU worker**, `P/v1/worker/gpu_worker.py` and its overlay `serve/morrowmake/overlay/v1/worker/gpu_worker.py` | transfers in flight, persistent input and output tensors; weight-update session, sleep state, saved buffers | `execute_model`; `start`/`update`/`finish_weight_update`, `sleep`/`wake_up`; memory sizing | next and previous stage, executor, trainer | the CPU runs ahead of the GPU; calls out of sequence; a call that fails on one rank |
| **indexer metadata**, `P/v1/attention/backends/mla/indexer.py` | persistent buffers of lengths and block tables | `build`: decode/prefill split, chunks and slices, three decode layouts | both indexers | buffers reused within and across steps, budgets, lengths in tokens and in pools |
| **model and MTP**, `P/models/glm5next/nvidia` | weights | `load_weights` of the target and of the drafter; forward pass | worker | tensors in any order, halves that wait for each other, other ranks' layers |
| **non-kpool indexer**, `P/model_executor/layers/sparse_attn_indexer.py` | top-k buffer | the same steps over single tokens | indexer metadata | as above |
| **sparse attention and logits kernels**, `P/v1/attention/backends/mla/*sparse.py`, `P/v1/attention/ops` | request of every token | positions to cache slots, softmax in one pass or in splits | top-k buffer, KV cache | tiles and splits that do not divide the row, empty splits |
| **Marlin weights** | none | one-shot repacking | model | numeric |
| **launchers, patches, tools**, `serve`, `patches`, `tools` | files | build the tree, start the server, measure | everything, from outside | single-threaded scripts |

What makes each of them correct:

* relay: all ranks post the same collectives in the same order; a relayed token
  reaches the request it was sampled for, before the request runs again;
* runner: at every step every rank computes from the same positions, tokens,
  drafts and accepted counts as the rank before it;
* align state: the forward pass starts from the state after exactly the tokens
  computed, and a full block holds the state at its end;
* kpool: a finished pool is compressed from the keys of its own tokens, none
  of which was rejected;
* speculator: draft positions follow the accepted tokens, and a finished or idle
  row writes nothing;
* worker: a stage computes with the activations of its own step; where the
  trainer got no error, every rank holds the weights it sent;
* indexer: a token attends to its own request, to nothing behind itself, to its
  best pools and to the whole unfinished pool;
* attention: the output is the softmax over exactly those positions;
* loading: every tensor ends in its own cell, in whatever order it came.

`PROJECT.json` lists the hazards, each at its line with the properties that cover
it.

## 2. Plan

Order of work, the most important first:

1. `PPRelay`: relay and runner, all ranks composed. *Done: checked; type
   invariant and collective agreement proved.* Next: a proof of `RelayedAgreement`.
2. `KpoolTail`: the tail ring and pooled keys. *Done: checked; type invariant
   proved, and `PoolsExact` for `MaxNextN <= 2`.*
3. `MambaAlign`: align-mode state on one rank. *Done: checked, all properties
   proved.*
4. `SpecDrafter`: one `propose` call per step over the drafter's buffers and KV
   cache. *Done: checked, all properties proved.*
5. `StageTransfer`: the hop between stages, implementing the abstract
   `StageChannel`. *Done: checked, refinement and liveness; type invariant and
   refinement proved.*
6. `WorkerWeights`: update sessions, sleep and wake-up. *Done: checked, all
   properties proved.* Next: discard, reset and reload.
7. `IndexerSelect`: metadata, chunks, decode layouts, selection and expansion.
   *Done: checked, all properties proved.* `SparseAttend` composes it with the
   attention. *Done: checked; `SlotsExact` proved.* Next: the masked lanes of a split for all sizes.
8. `WeightLoad`: `load_weights`. *Done: checked, `LoadExact` and `WrittenOnce`
   proved.*
9. A relay abstraction: every rank receives, at step t + PPSize, exactly the
   tokens of step t for the requests still in place; `PPRelay` refines it.

Configurations of one module that differ in what the launch fixes (speculation
depth, number of stages, form of the hop, kernels available) are values of a
variable `launch` (`hop` in `StageTransfer`), which `Init` chooses and no action
changes. One run then covers all of them, and a property holds for each.

## 3. PPRelay: the relay and the runner

All `PPSize` ranks are modelled. A scheduler emits a sequence `sched` of outputs
(removed requests, new requests, rows); each rank executes them in order, at its
own pace, each in two actions as in the code:

| action | code |
|---|---|
| `Execute(p)`, `ExecuteEmpty(p)` | `execute_model`: `update_pp_decode_requests` (pop the FIFO, wait for the event, mask the rows whose slot was freed, apply), `finish_requests`, `add_requests`, build the inputs, receive the hidden states of the rank before, send its own |
| `Receive(p)` | `sample_tokens` on ranks that do not sample: `PPHandler.receive`, the optimistic token count, the reset of accepted counts |
| `Sample` | `sample_tokens` on the last rank: sample, `broadcast`, `postprocess_sampled`, propose, `broadcast_draft` |
| `Schedule`, `ProcessOutput` | the scheduler, outside this repository |

Tokens are named by the step that produced them: `data` records what each
collective of the last rank carries, and a receiver reads its entry at the index
it posted. Slots are reused freely; the scheduler may abort and preempt requests
at any time (`MaxAborts`) and re-add them.

The scheduler is external. It is modelled by what the runner relies on: a request
that samples is scheduled again `PPSize` steps later at the earliest, with the drafts
of its latest run counted as computed as long as the result of that run is not
processed; a chunk that does not end the prompt may be followed at once;
`MaxInFlight` steps at most are unprocessed. `FINDINGS.md:177-178` gives that depth
under pipeline parallelism: `pp_size + 1`. The runs use it.

Properties:

* `CollectivesMatch`: the k-th collective of each receiver has the kind and the
  element count of the k-th collective of the sampler.
* `RelayedAgreement`: what a rank builds for a request (positions, input token,
  drafts, accepted counts) is what the rank before it built, if every sample of
  the request was relayed so far.
* `StepsComplete`: again and again every rank has caught up with the schedule.
* `OutputsRelayed` (a finding): a request that runs again had each of its samples
  relayed.
* `TypeOK`: among others, the FIFO has exactly `PPSize` entries at all times.

| run | instance | what it shows |
|---|---|---|
| `relay_live` | 2 stages, 3 steps in flight, 2 requests, 1 slot, 2 drafts, 7 steps, 1 abort | all properties while the only slot changes hands with relays in flight and requests run on near their length limit |
| `relay_three` | 3 stages, 4 steps in flight, 2 requests, 2 slots, 2 drafts, 5 steps | two receivers at different distances, batches of which only some rows are relayed |
| `relay_depth` | 2 stages, 3 steps in flight, 1 request, 7 steps | `OutputsRelayed` fails |

**Finding** (`relay_depth`). `compute_need_sampled_mask` promises a mask "marking
requests with outputs that might be needed in a subsequent (decode) step" and
excludes "requests that we know are finished". It takes the CPU mirror of
`num_computed_tokens` for the known length, and under asynchronous scheduling the
mirror counts drafts that may be rejected. With `PPSize + 1` steps in flight a
request runs on before its latest result is processed: near the length limit it
counts as finishing, is not relayed, loses its drafts and runs again. The other
ranks then go on from the position, token and drafts of the step before. With
`PPSize` steps in flight the result is always processed first, and the property
holds. `RelayedAgreement` says what is left: nobody else is harmed, in particular not
the request that gets the slot next.

Bounds. A relay lives for `PPSize` steps. Between a request's arrival and the use
of its first relay lie `PPSize + 1` steps. On two stages 7 steps hold three relays of
one request, or the removal and return of a request between two; on three 5 steps
hold the first relays and their use on both receivers. `MaxLen = 5` lets requests
end inside a run, and lets one count as finishing that is not; `Plens = {1, 2}`
gives `relay_three` prompts of one and of two chunks.

Fairness (`FairSpec`): weak fairness of `Execute`, `ExecuteEmpty`, `Receive`,
`Sample` and `ProcessOutput`. Each rank is a worker process that loops over the
calls it is handed, and the engine keeps processing results. `Schedule` has no
fairness: the property speaks of the steps that were scheduled. The runs end at
`MaxSteps`, therefore `relay_live` does not check deadlock (a rank that waits for
ever fails `StepsComplete`); `relay_three` checks it, with `Finished` as the only
self-loop.

### What is proved

`PPRelay_proofs`, for every value of the constants that `RelayAssumption` allows
and any number of steps in flight:

* `TypeCorrect`: `Spec => []TypeOK`;
* `CollectivesAgree`: `Spec => []CollectivesMatch`.

`CollectivesMatch` is not inductive: that the logs agree so far does not say what
a rank will post next. The inductive invariant `IInv` ties each log to the
schedule. The history variable `opEnd` cuts the collectives that the schedule
calls for into steps (`Cuts`: `opEnd[t + 1] - opEnd[t]` collectives belong to
step t), and `Logged` says that a rank which has completed n steps has posted
exactly the collectives of the first n cuts. `RecvsAreSends` is the heart of
it: for every batch, what a receiver posts equals what the sampler sends,
because the sampler pads to the width the receivers know and the draft flag
comes from the configuration. `NextInv` shows that every action keeps `IInv`;
`LogKept` covers a step scheduled behind a log, `LogNext` a rank that posts its
next step. Two logs that are prefixes of one sequence agree where both are
defined. `Typed` and `Fifos` restate `TypeOK` over fixed sets, as the library's
sequence theorems need it.

The assumption `RelayAssumption` asks for at least two stages and for K > 0 when
speculation is on. `RelayedAgreement` is model-checked only, and so is
`StepsComplete`, which is liveness and out of the prover's reach.

## 4. KpoolTail: pooled index keys and the tail ring

A key is `<<request, position, accepted>>`. Whether the token at a position
stays is chosen when its batch starts and not used by any action: it only marks
the keys.

| action | code |
|---|---|
| `Prefill` | `_kpool_compress_insert` and `_kpool_tail_seed_kernel` over a batch of one or two chunks; gathering and seeding look at neighbouring rows of the batch, whichever request they belong to |
| `StartVerify`, `StartExtend`, `Token` | `_kpool_decode_update_batched_kernel`: one program per request, one `Token` per loop iteration; programs of different requests interleave |
| `Admit`, `Release` | the KV cache manager (external): one tail block for each request, not cleared |

`PoolsExact` says that a pool all of whose tokens are final holds the keys of
exactly those tokens. Run `kpool_decode`: two requests, two blocks, pools of
two, one draft. Positions reach 5, so that a request fills two pools and begins
a third, and blocks change owner with an old ring in them.

Chunks of a prefill start at pool boundaries; `_kpool_compress_insert` relies on
that ("Assumes pool-aligned chunk starts"), and the block-aligned scheduler
provides it.

**Finding.** With batches of three or more tokens the invariant fails (run
`kpool_verify`). The ring has as many entries as a pool, and every token of a
batch is stashed, accepted or not. Take pools of 4 and a request with 2 tokens,
whose next batch covers positions 2, 3 and 4 and keeps only position 2. The
stash of position 4 lands in entry 0 and replaces the key of position 0. Pool 0
is not finished: position 3 was rejected. The next batch recomputes position 3
and compresses pool 0 from the rejected key of position 4. The kernel's
docstring claims correctness for any `NEXT_N` (`kpool_compress.py:577`); the
launcher's default of three drafts gives `NEXT_N = 4`
(`serve/run-glm53flash-pp4.sh:112`). The effect is on which pools the indexer
selects, not on memory safety. With one draft (`MaxNextN <= 2`) a rejected key
can only land at the position that is computed next.

### What is proved

`KpoolTail_proofs`, for every number of requests and blocks, every pool size and
every length:

* `TypeCorrect`: `Spec => []TypeOK`, for batches of any width;
* `PoolsStayExact`: `Spec => []PoolsExact` where `MaxNextN <= 2`. The hypothesis
  is the condition the finding shows to be needed.

`PoolsExact` speaks of finished pools only and is not inductive: the pool
finished next is compressed from the ring. `IInv` counts the tokens written
for a request (`Final`: those computed, and those the program of its decode batch
has walked over) and says that all pools up to there are exact (`PoolsWritten`)
and that the ring holds the keys of the unfinished one (`TailKept`). Two running
requests have different blocks (`OwnersApart`), so that one request's stash does
not disturb another's. The first token of a decode batch is always kept; with at
most two tokens a rejected one is the last of its batch, its key lies behind
`Final` and is overwritten by the token that is computed next (`WorkOK` bounds
where a program stands).

## 5. MambaAlign: recurrent state across blocks

One rank, sampling (`IsLast`, of the launch) or not. A state is `<<slot, tokens>>`; a batch with
rejected drafts leaves `Junk` behind them.

| action | code |
|---|---|
| `Admit`, `Release` | `add_request` (accepted count 1, running column from the cached prefix), `_remove_request` |
| `Run(batch)` | `preprocess_mamba_align_fused_kernel`, `precopy_mamba_align_fused_kernel`, the forward pass (external), and the part of `sample_tokens` that does not wait: optimistic count, reset of accepted counts, entry into the FIFO |
| `Consume` | `postprocess_sampled`: corrected counts, scattered accepted counts, snapshot. On the last rank it follows its own step; elsewhere the step `PPSize - 1` steps later |
| `Program(i, kind)` | one program of `postprocess_mamba_fused_kernel` |

Preprocess and pre-copy are one action with the forward pass: the programs of a
step touch disjoint blocks. The programs of the postprocess interleave, because one of
them writes the count that all decide from.

The forward pass is external. The kernels are taken to find the initial state by
the accepted count, as the comment in the pre-copy kernel says ("kernels
locate the initial state in-block via num_accepted"), and to keep a state for each
token of a verify row. Masking of freed slots is stated here as its effect
(`Masked`); that the generation counters achieve it is `RelayedAgreement`'s
subject. Rows that end their request are not relayed and are left out.

* `RunningExact`: where column and accepted count point, between steps, lies the
  state after exactly the computed tokens, for both kinds of state.
* `CheckpointsExact`: a full block that ends at or behind the prompt's end holds
  the state at its end.

On a rank that does not sample the copy into a checkpoint happens when the relay
arrives. `CheckpointsExact` therefore speaks of requests without a pending
relay; that no other request hits the block before is up to the scheduler and
not checked.

Run `align`:

| launch | instance | what it shows |
|---|---|---|
| `Narrow(TRUE, 5)` | sampling rank, 2 slots, blocks of 2, 1 draft, 5 tokens | interleaved copy programs, batches in both orders |
| `Narrow(FALSE, 4)` | other rank of 2 stages, 4 tokens, else the same | postprocessing late, with slots freed and other batches run |
| `Wide` | other rank of 3 stages, 1 slot, blocks of 3, 2 drafts, 10 tokens | every acceptance against every position of a boundary |

With `K < BS` (assumed) a batch passes one boundary at most; four or five tokens
in blocks of two, and ten in blocks of three, pass boundaries at every offset.
`Wide` has the long requests whose postprocessing is late.

### What is proved

`MambaAlign_proofs`, for every launch `AlignAssumption` allows: any number of
stages and slots, any number of drafts below the block size, any length.

* `TypeCorrect`: `Spec => []TypeOK`;
* `RunningStaysExact`: `Spec => []RunningExact`;
* `CheckpointsStayExact`: `Spec => []CheckpointsExact`.

The two properties speak of requests that no step holds; what makes them
inductive is what is true in between. A row waits in the relay, then in the
postprocess, and `IInv` follows it:

* `RelaysOK`: for a row on its way, the states after its last accepted tokens lie
  side by side from the running column on (`Left`), the full blocks in front of
  them hold the states at their ends (`Saved`), and the batch does not reach past
  the running column (`Reach`). What the relay will say of the row is already fixed,
  although the counters are still optimistic (`Stays`);
* `RelaysApart`: a slot is in one place of one step, so nothing else touches it;
* `TodoOK`: the same as `RelaysOK` for a kernel program that has not run, about the
  kind of state it copies and the snapshot it reads;
* `IdleOK`: a slot is exact in each kind of state whose program has run, under
  the count that all its programs together leave (`Settles`).

`WindowEnd` and `LastBlock` do the arithmetic of blocks for every block size.
`RunRow` is the heart: the pre-copy and the reset of the count find the same state
that column and count named before the step (`PrecopyFound`), the forward pass
therefore leaves the right states (`ForwardConvFound`, `ForwardTemporalFound`), and
writes nothing in front of the running column. `K < BS` is used where a program
of the postprocess reads ahead: the state it saves and the state it must keep are
never the same column.

## 6. SpecDrafter: the drafter's buffers and cache

The last rank, one `propose` after each step of the target. Tokens and hidden
states are symbols that say what they are (`T`, `H`, `D`, `G`); an answer of the
drafter is a draft of the sequence only if every cache entry it attends to, its
length and its sampling position are right (`Answers`), and `Junk` otherwise.

| action | code |
|---|---|
| `Target(rows)` | the target's step as far as `propose` sees it: positions, accepted tokens, `postprocess_sampled`, `next_prefill_tokens` |
| `PreparePrefill` | `_prepare_prefill_inputs_kernel` and the copy of the hidden states: the batch shifted by one, rejected places left as they were |
| `Prefill` | `_prefill`: entries for all tokens of the batch, draft 0, compaction of positions and hidden states |
| `PrepareDecode` | `_prepare_decode_inputs_kernel` and the first metadata of the fused loop |
| `Draft` | `_generate_draft`, `_update_draft_inputs_kernel`, and the metadata: refreshed behind a step (`_generate_fused_drafts`) or rebuilt in front of it (`_multi_step_decode`) |
| `Store` | the drafts go to the request slots |

Everything runs on one stream, so the actions of a step do not interleave; what
varies is the batch: which requests, in which order, how many tokens, how many
stay. The buffers are never cleared and hold what earlier steps left.

* `KvExact`: between steps the cache holds, for every computed token, the entry
  of the target's hidden state and of the next token.
* `DraftsSound`: the drafts of a request continue its computed tokens, up to the
  length limit.

Run `drafter`:

| launch | instance | what it shows |
|---|---|---|
| `FusedPair` | 2 requests, 3 drafts, 5 places, length 5, fused | mixed batches in both orders, drafts beyond the limit |
| `RebuiltLong` | 1 request, 3 drafts, length 9, rebuilding | full verify rows, every acceptance at every distance from the limit |

Three drafts are the least with which a draft step follows another one, where
the metadata matters; five places let two rows lie at different offsets from one
step to the next. The scheduler (external) keeps a batch below the last position,
as upstream's does; with a batch up to the last position the clamped draft would
replace that token's entry. A run ends when all requests are at the limit, so
deadlock is not checked. Slots are not reused here: the kernels read nothing of a
request but what this step or its own earlier steps wrote; reuse is
`PPRelay`'s subject.

### What is proved

`SpecDrafter_proofs`, for every launch that `DrafterAssumption` allows (any number
of requests, drafts and places, any length limit, fused or not):

* `TypeCorrect`: `Spec => []TypeOK`;
* `KvStaysExact`: `Spec => []KvExact`;
* `DraftsStaySound`: `Spec => []DraftsSound`.

Where a row lies in the buffers is a prefix sum over the queries in front of it,
and most of the argument needs that the rows do not overlap. `Spread` proves it
by induction over the rows. The library's induction theorems cannot be used (they
take an operator), but its least element of a well-founded relation can:
`NatMin` gives the least natural number of a set, `Induct` induction for a set of
natural numbers, and `SumExists`, `SumUnique` and `SumGrows` what is needed of
recursively defined sums.

`IInv` has one part for each phase of `propose`. In each the cache of a row's
request is exact up to some token (`KvUpTo`): up to the start of the batch before
the prefill (behind it lie the entries of earlier drafts, and nobody may attend
to them), up to the last true token after it. `ReadyToPrefill` says that the
places of the true tokens, and `lastIdx`, were written for this row; nothing is
said of rejected places. `ReadyToDraft` gives position, length and metadata as the
clamped functions of the step (`Capped`), and the input and the provisional entries
as long as the position is below the limit. That a clamped draft never overwrites
the entry of a computed token rests on the scheduler's limit (`Offered`): a batch
ends below the last position. The drafts so far continue the computed tokens
(`Continues`).

## 7. StageTransfer: the hop between stages

The CPU thread of a rank runs ahead of its GPU. What it does in a call of
`execute_model` is to post operations: on the rank's compute stream, which runs
them in order, and on the channel to each neighbour. Only the metadata of a
receive blocks it. The tensors a forward writes are persistent (graph replay), so
the next forward overwrites what a slow send may still be reading; the tensors a
receive fills are the receive's own until they are copied into the persistent
input buffers. Which handles of a send are kept is modelled as the overlay has it;
the ported `gpu_worker.py:1136-1140` keeps all of them.

| action | code |
|---|---|
| `ExecuteModel(p)` | one call: wait for the sends of the call before, post the receive (`irecv_tensor_dict`), post copy and forward, post the send and keep its handles in `_pp_send_work`; a step without tokens only waits |
| `Run(p)` | the GPU's next operation: a wait (`Handle.wait`, on the stream), the copy of the received tensors, the forward |
| `Transfer(p)` | NCCL (external): the oldest send of a rank meets the oldest receive of the next, per pair of ranks in posted order |

`StageChannel` is the promise: every stage forwards the scheduled steps in order,
each once, and consumes the activations that the stage before it produced for
that very step. `Refines` says that `StageTransfer` implements it; `PassesThrough` is
its fairness: every scheduled step passes through all stages. The history `fed`
records the steps that were handed to the first stage, which the channel calls
its input. A mixture of tensors of two steps maps to 0, which no step of the
channel can produce.

Run `transfer`: 3 stages, 4 steps of which any may be without tokens, 3 in flight,
and both forms of the hop: two tensors behind their metadata
(`isend_tensor_dict`, of whose handles the first is dropped), and one packed
tensor without metadata (`VLLM_PP_HOP_NO_METADATA`), where the sender may be ahead
of the receiver's call. The middle stage both receives and sends; with 3 steps in
flight a send can be two forwards behind.

Fairness: weak, of each rank's calls (the engine hands out what it has
scheduled), of each GPU's stream, and of each transfer both sides are ready for.
Deadlock is checked; the run ends in `Finished`.

### What is proved

`StageTransfer_proofs`, for every number of stages and steps, any number of
steps in flight, and every hop that `TransferAssumption` allows (the tensors of
a hop have different names; a packed hop sends one):

* `TypeCorrect`: `Spec => []TypeOK`;
* `RefinesPipe`: `Spec => Refines`.

The calls a rank has made determine what its CPU has posted. From there `IInv`
describes what is left of it:

* `StreamOK`: a compute stream holds the last of the posted operations, in order;
* `QueuesOK`: so do the two sides of a channel, step by step and tensor by tensor;
* `LinkOK`: as far as both ranks have made their calls, both sides of a channel
  wait for the same transfers, so the oldest send meets the receive of the same
  step and tensor, although nothing on the wire says so (`HeadsMeet`);
* `WaitsOK`: a send that is not transferred has its wait in the stream in front of the
  next step's operations, a receive has its wait in front of the copy, and a
  send is transferred only when its forward is over;
* `DataOK`: therefore each buffer holds the step it is read for: the output
  tensors the newest forward's, the input buffer the copied step's, a
  receive's tensors what has arrived for it;
* `SeenOK`, `PrefixOK`: what a stage ran are the steps whose forward is over, in
  order, and a prefix of what the stage before it ran.

`PipeStep` maps each action: the first stage's call with tokens is `Schedule`, a
forward is the channel's `Forward`, everything else is a stutter. The transfer of
a step runs only while its forward is the newest on the sender, and that is
where `DataOK` of the sender meets `DataOK` of the receiver.

## 8. WorkerWeights: weight updates, sleep and wake-up

A call (`start_weight_update`, `update_weights`, `sleep`, ...) goes to all ranks and
returns an error to the client if it raised on one of them; the others have done
their part by then. A call is one action on all ranks: calls are sent one after
the other, and what matters of a rank's part is how far it got, which the set `F`
of ranks whose transfer engine fails chooses. `expected` is what the client may
conclude from the answers it got, `Unknown` after an error.

* `ClientView`: what the client knows of an item is what every rank holds. This
  spans sessions to the base and to the draft model, chunks out of sequence,
  sleep at level 2, tags woken one by one, and shared parameters.
* `IdleTargetsBase`: outside sessions the engine's target is the base model; a
  base session relies on it instead of setting it.
* `RanksAgree`: as long as the client was not told that a sleep failed, every rank
  has given up exactly the memory the executor takes to be asleep.

Run `weights`: two ranks as two stages (only the last has a draft model, which shares a
parameter with the base; with and without a retention pattern that only the last
stage has parameters for) and as two shards, two sessions, one failing call, one
or two sleeps. Two sessions let the second go to another model than the first.

What the model assumes of the caller: it sends chunks only while the weights are
mapped, sleeps only between sessions and not again after a sleep that failed once a
rank was suspended, and the executor (external) refuses to put to sleep what
sleeps. Such a failed sleep is where the system stops (the executor takes nothing
to be asleep, so nothing wakes), and the run does not check deadlock. Two things
a reader should know:

* With a draft model on the last stage only, a draft session fails on the other
  stages at `start`, so draft updates do not work under pipeline parallelism; the
  model shows that they fail cleanly.
* A sleep fails on a rank before its suspend, where a retention pattern matches
  none of the rank's parameters (`draft.*` is exempt), or behind it, where the
  assertion `freed_bytes >= 0` finds less free memory than before (`grown`). The other
  ranks are suspended all the same. A pattern that names the layers of one stage
  therefore leaves the stages apart for good; the client knows, since the call
  raised, and `RanksAgree` says that it never happens without that.

### What is proved

`WorkerWeights_proofs`, for any ranks, items, launches, sessions and faults:

* `TypeCorrect`, `ClientViewHolds`, `IdleTargets`: `TypeOK`, `ClientView` and
  `IdleTargetsBase` are invariants;
* `RanksSleepTogether`: so is `RanksAgree`, whatever the retention patterns match.
  Its invariant `AgreeInv` adds what a failed sleep leaves: nothing asleep for the
  executor, nothing known to the client and a rank without memory (`HalfAsleep`),
  from which no call leads on to known contents.

`WeightsAssumption` says what a launch is: parameters and buffers differ, LoRA
adapters are neither, and a parameter that base and draft share is shared on each
rank that holds it (the draft model takes the module object of the base).

`ClientView` is about mapped memory, and a sleep of level 2 unmaps it with the
contents. `IInv` looks through the saved copies: `View` is the copy where there
is one and the content elsewhere, and `ViewsAgree` says that the client's
knowledge is the view on every rank. `SavedOK` keeps the copies in range,
`Awake` says that weights the executor takes to be awake are mapped on every
rank or the client was told of a failure, and `SessionsAgree` that a session
the client knows of is open on every rank, with the engine and its `is_draft` flag
pointing at that session's model; chunks are written where the client meant
them.

## 9. IndexerSelect: what a token attends to

A step is a build and then the indexer over the batch. Requests, pages and tokens
are small numbers; scores are left out: of two pools the later one scores higher, so
that the choice of the top k is known and a comparison with foreign keys is
seen. `topk` keeps, for each row, the positions and the keys it was compared with.

| action | code |
|---|---|
| `Build(b)` | `DeepseekV32IndexerMetadataBuilder.build`: the split of decodes and prefills, the chunks and their slices, and one of three decode layouts (flattened uniform, flattened variable, native), each with its persistent buffers |
| `Start` | clear the rows of the batch; a batch whose prefills are all short gets all its positions without comparing |
| `PrefillChunk` | the next chunk: gather the pooled keys into the workspace or share the gather of the slice before, compare, choose, expand |
| `Decode` | group the tokens by request for the write, by reshape or by scatter; compare each row with its context, choose, expand, append the tail |
| `DecodeRaises` | the shape error of the tail slots, with padding; the step ends there |
| `PlainStart`, `PlainChunk`, `PlainDecode` | the same over single tokens (`sparse_attn_indexer.py`) |

The whole indexer is an eager operator between captured graphs, so its data-dependent
branches are taken in each step. Buffers are never cleared; a
scatter entry that the kernel does not write holds an arbitrary cell (`stale`).

* `RowsExact`: every token attends to positions of its own request, none behind
  itself: its best complete pools and its unfinished pool; and it chose them by
  its own request's keys.
* `WriteGrouped`: the decode write puts token j of request r at place (r, j), and
  nothing else over it; and no batch without padding raises on the way there.
* `ChunksFit`: the chunks cover every prefill row once, fit the workspace, and
  keep within the logits budget where a single row does.

Runs: `select` checks these together with section 10. Bounds: pools of 3, pages
of 6 tokens in two kernel blocks, at most 14 tokens and 3 requests in a batch, two
steps, so that the second finds the buffers of the first. Sequences end at every
offset in a pool; there are chunks of several requests, requests in several
chunks, chunks in several slices, a workspace that one long prefill overfills
when joined with another, and decode rows of equal and of different lengths.

**Finding** (`select_depth1`). With one draft (`GLM53_SPEC=1`) and without DeepGEMM, which sm_80
does not have, `build` hands down context lengths of shape (B, 2), and the Triton
kernel reads them as (B): a request gets a length of its neighbour, and the
kernel takes the offset of the token off a length from which it was taken
already. A token's last complete pool is not compared.

**A padded batch.** In a full graph that is larger than its batch the metadata has
the padded token count and requests of length 0, so the write is not a reshape. The
tail slots then combine the owners, repeated by the real lengths, with one position
per token, padding included (`P/model_executor/layers/sparse_attn_indexer_kpool.py:904-908`):
the shapes differ and the step raises (`DecodeRaises`), before anything is
scattered. Only a batch of a single real token passes, since its owner is broadcast,
and its scatter leaves the entries of the padding unwritten; one of them may land on
the real token's place. `WriteGrouped` holds for the other padded batches, and
`select` runs one of them; the hypothesis `Packed` leaves that one out.

**A prompt without a chunk.** A chunk without a single pooled key is dropped
(`P/v1/attention/backends/mla/indexer.py:1156`, "Skip when total_seq_lens is 0
(i.e., no compressed token)."). A prompt shorter than a pool that is batched
beside a long prefill is then in no chunk and attends to nothing, whereas
`kpool_compress.py:882` says that "index_kpool_always_select_tail keeps the
(incomplete) trailing pool so the most recent tokens are always attended to."
It takes a prompt of fewer than `KPool` tokens that is yet longer than the decode
threshold, which three drafts exclude and none or one do not. The launches
of `select` have no such batch; `IndexerSelect_unkeyed.cfg` has one, and there
TLC finds `RowsExact` violated.

### What is proved

`SparseAttend_proofs` proves the three properties of `IndexerSelect`, which hold of
`SparseAttend` as well (its steps are steps of the indexer or leave it alone), and
one of the latter alone: for any launches and batches, any page and pool size, budgets, speculation depth, number of steps, and
whatever the buffers hold from the steps before.

* `ChunksAlwaysFit`: `ChunksFit`, without a hypothesis;
* `RowsAlwaysExact`: `RowsExact` under `RowsAssumed`;
* `WriteAlwaysGrouped`: `WriteGrouped` under `WriteAssumed`;
* `SlotsAlwaysExact`: `SlotsExact` of section 10 under `RowsAssumed`.

Two assumptions on the constants. `SelectAssumption`: sizes divide as the page and
pool sizes do. `BatchAssumption` is what the scheduler and the runner promise: each
request runs at least one token and not more than its length, which its pages
hold, the host's length is a bound of the device's, the keys of one request fit the workspace (40 times the
longest sequence, `get_max_prefill_buffer_size`), and only a full graph of
equally long decodes is padded.

The hypotheses leave out what the text above shows to go wrong. They are a little
wider than that: `Keyed` excludes a prompt without a pooled key also where it shares
a chunk with others, and `Packed` every padded batch of a single token.
`MCSparseAttend` has TLC check that the launches of `select` meet them.

| hypothesis | excludes | shown by |
|---|---|---|
| `OneLength` | one draft on the Triton fallback | `select_depth1` |
| `Packed` | padding behind a single token, in the pooled indexer | the text above |
| `Keyed` | a chunk that is dropped although its rows are not short | `IndexerSelect_unkeyed.cfg` |

The argument follows the step. Prefix sums of positive lengths cut the tokens
into requests (`LocSpread`, `LocPlace`), so that `RowOf` is a function. Each of the
decode layouts gives every decoded token the context and the table of its own
request (`NativeLaid`, `FlatLaid`), with the division by the row width where rows
are reshaped (`EvenRows`). Slices lie behind one another from the first prefill
to the last (`SlicesRight`, `SpecsRight`, by induction from the last request
backwards), a slice that does not start its chunk has the requests of the one
before, and the gather puts key p of request i where `ks` of its rows says
(`GatherRight`).

`RowsExact` speaks of finished steps. `RowInv`, its inductive invariant, says what
is true in between: after the build the decode layout is right for every decode
(`DecodeIs`) and every prefill row is short or in a chunk (`StartIs`); between
chunks every prefill row is exact already or in a chunk still to come, and a next
chunk that skips its gather finds its own keys in the workspace (`LoopIs`, where a
skipped or foreign gather would show). `WriteInv` keeps the lengths for the write
(`Stash`) across the chunks and the flattened layout. TLC has checked both, with
bounded quantifiers, on the states of `select`.

## 10. SparseAttend: attention over the selected rows

`SparseAttend` extends `IndexerSelect`: `BuildBoth` builds both metadata,
`Indexer` runs the actions above, `Attend` turns the positions of each row into
cache slots through the request of the token and its block table, and computes the
attention as the kernels do: tile by tile with a running maximum, in one pass or
in splits of the row, which a second kernel merges.

An output is kept unevaluated: what each column contributes, and the sum. Logits
are levels 0 to 2 and weights powers of two, counted in quarters so that
rescaling is exact; `Masked` is a very low level, as `NEG_LARGE` in the code, and
not minus infinity. Masked lanes of an empty tile therefore do count until the
first valid column rescales them, as in the code.

`SlotsExact`: when the kernels start, the columns of a token's row are the slots of
exactly the positions it is to attend to, in the blocks of its own request, each
slot in one column, and -1. It depends on the width of the buffer, on the order
of pools and tail in a row, on the block tables and on the buffer of request ids,
which still holds the batch before unless it is refilled.

`AttendExact`: the output of each token is the softmax over exactly the cache
slots of its own positions, each once. The row of 8 columns is split where the
batch is small, with tiles of 4 that stick out of a split of fewer columns, and taken in
one pass where it is large; rows shorter than a split leave splits empty. Deadlock
is not checked in `select`, whose behaviours end after two steps.

`SlotsAlwaysExact` proves `SlotsExact` for all constants (`SparseAttend_proofs`). Its
invariant `SlotInv` adds to `RowInv` of section 9 that the request ids are those of
the batch once a step was built. The positions of a row are one interval that ends
at the token (`PosInterval`); sorted, cut at the tail and filled up with -1, it
fits the `BufferWidth` columns and has each position once (`FilledPositions`,
`RowHolds`); and a position is one slot of its request's pages however many kernel
blocks a page has (`SlotIs`).

Rounding, autotuning and warm-up are left out. One fact about them: the heuristic
may ask for 32 splits at the model's 2176 columns, and the candidates that are
compiled in advance stop at 16.

## 11. WeightLoad: what load_weights makes of a checkpoint

One loader: a stage, or the drafter of the last rank. Tensors come in any order,
which is how files and shards may present them; each is one action (`Ignore`,
`Hold`, `Dequantise`, `Skip`, `LoadWeight`), and `Return` ends a call. A weight
update calls `load_weights` several times, with chunks of its choice.

* `LoadExact`: a loader that is done has every tensor of its layers in the cell of
  its shard and expert, dequantised with its own scale where the model holds it
  in BF16.
* `WrittenOnce`: no cell is written twice.
* `LoadEnds`: a loader comes to an end, never with a `KeyError`, and with the error
  of a missing layer if and only if it is a drafter one of whose calls was given
  nothing of one of its layers. `given` and `lacked` record that from what was read,
  the code decides it from the names it has loaded. Fairness: weak, of `Next`; the loader is
  one thread in a loop over a finite list.

Run `load` has four launches: block FP8 on one stage, with padding and a
projection that stays in FP8; BF16 on two stages, with experts and the fused
projections of a linear-attention layer; a model without the fused projection of
the query and with a draft layer missing; an update in up to three calls. The
tensors of a launch share layers and projections, so that a mistake in any part
of a cell's name makes two of them meet. A loader that is done stops, so
deadlock is not checked; `LoadEnds` covers a loader that is stuck.

Assumptions: the halves of an FP8 pair are in one call (`_pending_wk_fp8` is
local to it); FP8 launches have a single stage, because the FP8 paths
look up the parameter before the check for layers of other stages
(`P/models/glm5next/nvidia/model.py:1244`), which raises a `KeyError` there; the
checkpoint ships no embedding of its own for the draft layers; a model without
the fused projection of the query has no FP8 `q_a` or `kv_a`, which always go to the
fused one (`model.py:1218`, `1244`: again a `KeyError`, modelled in `Dequantise` and
in none of the launches). The check for missing draft layers runs in every call, so
an update in several calls fails unless each brings something for each draft layer:
the update of the run has calls of both kinds.

### What is proved

`WeightLoad_proofs`, for every checkpoint and launch the two assumptions allow:

* `LoadIsExact`: `Spec => []LoadExact`;
* `LoadWritesOnce`: `Spec => WrittenOnce`;
* `MissingIsLacking`: the safety half of `LoadEnds`, `status = "missing"` exactly if
  a call lacked a layer.

`LoadAssumption` gives the shape of a launch. `CheckpointAssumption` says what the
loader takes for granted of a checkpoint: a module has one weight (BF16 or FP8)
and at most one scale; FP8 weights come with their scales, and only for projections
the loader knows how to treat; only the experts' projections have experts; names
that only the model has (`gate_up_proj`, `fused_qkv_a_proj`, `wk_weights_proj`,
`in_proj_qkvbfg_a`) are not in a checkpoint; and a padded model has no draft `kv_a`
in BF16, which the drafter's loader does not pad.

`IInv`: a cell is blank while its tensor is unread or waits for its other half,
and exact from then on (`CellsExact`); the halves of a pair are consumed together
and never wait together (`PairsTogether`); a parameter that counts as loaded has a
tensor of its layer behind it (`LoadedOK`), the layers that count as loaded are
those the call was given something of, but for the halves that wait (`GivenOK`), and
a drafter that is done was given something for each of its layers (`DraftOK`). `CellOf` is injective on the tensors
that have cells, apart from the two halves of a pair: that is where a shared
projection or expert index would show.

## 12. What is not modelled, and why

* The arithmetic of kernels (rounding, Hadamard and fp8 conversion, Marlin
  repacking, mHC, mamba scans): TLC has nothing to say about floating point.
  Values are named by what they were computed from.
* The forward pass of the model: layer wiring without state between calls.
* CUDA graph capture, LoRA, pooling models, encoder inputs, KV connectors,
  profiling and dummy runs of the runner: they do not touch the state of the
  modelled protocol. Graphs appear where they matter: persistent buffers
  (`StageTransfer`), padded batches (`IndexerSelect`).
* The indexer under context parallelism, the SM100 path of variable length and
  the fp4 cache: other hardware than the overlay's.
* In the worker: start-up and memory profiling, the layout of the packed hop and
  its all-gather under tensor parallelism; discard, reset and reload of weights
  are next on the plan.
* The V1 functions of `mamba_utils.py`: the V2 runner does not call them.
* The scheduler, the KV cache manager, the executor, the trainer and NCCL are not
  in the repository. They are modelled from what the code relies on and marked
  external in `PROJECT.json`.
* Launchers, patches and measurement tools are scripts.

Only model-checked, not proved:

* liveness, which is out of the prover's reach: `StepsComplete`, `LoadEnds`,
  `PassesThrough`;
* `RelayedAgreement`, whose invariant has to follow the tables of every slot through
  the relays in flight;
* `AttendExact`. `SlotsAlwaysExact` gives it the right columns; what is left is that
  tiles, splits and the merge compute one sum over them. That is induction over
  the columns with folds (`MapThenSumSet`) and powers of two, which the installed
  provers do not reach.

## 13. Running it

```
tlc -workers 2 -config PPRelay_live.cfg MCPPRelay
tlc -workers 2 -config PPRelay_three.cfg MCPPRelay
tlc -workers 2 -config KpoolTail_decode.cfg MCKpoolTail
tlc -workers 2 -config MambaAlign.cfg MCMambaAlign
tlc -workers 2 -config SpecDrafter.cfg MCSpecDrafter
tlc -workers 2 -config StageTransfer.cfg MCStageTransfer
tlc -workers 2 -config WorkerWeights.cfg MCWorkerWeights
tlc -workers 2 -config SparseAttend.cfg MCSparseAttend
tlc -workers 2 -config WeightLoad.cfg MCWeightLoad
tlapm PPRelay_proofs.tla
tlapm KpoolTail_proofs.tla
tlapm MambaAlign_proofs.tla
tlapm SpecDrafter_proofs.tla
tlapm StageTransfer_proofs.tla
tlapm WorkerWeights_proofs.tla
tlapm WeightLoad_proofs.tla
tlapm SparseAttend_proofs.tla
```

The proofs of `PPRelay`, `StageTransfer` and `SparseAttend` take some minutes, the
others less than one or two each.

`PPRelay_depth.cfg` (MCPPRelay), `KpoolTail_verify.cfg` (MCKpoolTail) and
`IndexerSelect_depth1.cfg` (MCIndexerSelect) are the findings: TLC reports a
violation. So it does for `IndexerSelect_unkeyed.cfg` (MCIndexerSelect), the prompt
without a chunk of section 9.

The definitions named `<Operator>_<Word>` that precede an operator are mutants:
plausible bugs in the code the operator models. Substituting one for the operator
must make the property listed with it in `PROJECT.json` fail; this guards the
properties against holding for want of content.
