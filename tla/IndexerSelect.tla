---------------------------- MODULE IndexerSelect ----------------------------
(***************************************************************************)
(* What each token of a batch attends to: the indexer's metadata builder   *)
(* lays the batch out as prefill chunks and decode rows, the kpool indexer *)
(* compares every row with the pooled keys the layout gives it, and the    *)
(* selected pools are expanded to positions together with the unfinished   *)
(* pool at the end.  A step is a build, the prefill chunks in order over   *)
(* one gather workspace, the decode write's grouping and the decode rows.  *)
(* (mla/indexer.py, sparse_attn_indexer_kpool.py, mqa_logits_triton.py)    *)
(*                                                                         *)
(* Scores are left out: of two pools the later one scores higher.          *)
(* Indices of tokens, rows and requests of a batch start at 0.             *)
(***************************************************************************)
EXTENDS Integers, Sequences, FiniteSetsExt, Functions

CONSTANTS
  Launches,      \* the launches that are looked at
  Batches(_),    \* the batches the scheduler may form on a launch
  PageTokens,    \* tokens of an indexer page
  Pages,         \* pages of a request
  MaxTokens,     \* max_num_batched_tokens
  MaxSteps       \* bound: steps

ASSUME SelectAssumption ==
  /\ {PageTokens, Pages, MaxTokens} \subseteq Nat \ {0} /\ MaxSteps \in Nat
  /\ \A l \in Launches :
       /\ {l.kpool, l.workspace, l.maxLogits, l.factor} \subseteq Nat \ {0}
       /\ l.spec \in Nat /\ l.deepGemm \in BOOLEAN
       /\ l.topk \in Nat /\ l.topk % l.kpool = 0
       /\ PageTokens % l.kpool = 0 /\ PageTokens % l.factor = 0
       /\ l.kpool = 1 => l.factor = 1

VARIABLES
  launch,    \* what the launch fixes
  steps,     \* steps built
  pc,        \* "build", "start" or "prefill": the next part; "failed" for good
  batch,     \* the batch of the step
  lens,      \* decode_lens_buffer
  perReq,    \* per_req_decode_lens_buffer
  seqs,      \* decode_seq_lens_buffer
  tables,    \* expanded_block_table_buffer
  meta,      \* DeepseekV32IndexerMetadata
  gathered,  \* k_quant_full: the workspace of gathered keys
  grid,      \* the decode write's [request][index] -> token
  topk       \* topk_indices_buffer, with the keys each row was compared with

vars == <<launch, steps, pc, batch, lens, perReq, seqs, tables, meta, gathered, grid, topk>>

KPool     == launch.kpool      \* index_kpool: the compress_ratio of the indexer's cache
NumSpec   == launch.spec       \* num_speculative_tokens
DeepGemm  == launch.deepGemm   \* is_deep_gemm_supported(): else the Triton fallback
TopK      == launch.topk       \* topk_tokens
Workspace == launch.workspace  \* max_prefill_buffer_size, in pooled keys
MaxLogits == launch.maxLogits  \* max_logits_bytes // 4
Factor    == launch.factor     \* kernel blocks of the shared table per indexer page
PageKeys  == PageTokens \div KPool
Plain     == KPool = 1         \* the indexer without pools

NoKey   == <<0, 0>>
NoToken == -1
Slots   == 0..(MaxTokens - 1)
NextN   == NumSpec + 1
SelectK == TopK \div KPool
Below(n) == 0..(n - 1)

\* A buffer after rows 0..n-1 were overwritten.
Over(buf, n, f(_)) == [i \in DOMAIN buf |-> IF i < n THEN f(i) ELSE buf[i]]

-----------------------------------------------------------------------------
(* A batch b has requests b.reqs, each with an identity, the tokens it runs *)
(* (q), its length after them (seq) and the host's bound of that length    *)
(* (ub); and b.pads rows without tokens that fill it up to the size of a   *)
(* full graph, b.tokens being the padded token count.                      *)

Rows(b)  == Len(b.reqs) + b.pads
Q(b, i)  == IF i < Len(b.reqs) THEN b.reqs[i + 1].q ELSE 0
Seq_(b, i) == IF i < Len(b.reqs) THEN b.reqs[i + 1].seq ELSE 0
Ub(b, i) == IF i < Len(b.reqs) THEN b.reqs[i + 1].ub ELSE 0

\* What the prefix sums of the code hold: f[0] + ... + f[n - 1].
SumTo(f, n) ==
  LET sum[k \in 0..n] == IF k = 0 THEN 0 ELSE sum[k - 1] + f[k - 1] IN sum[n]

\* query_start_loc: the first token of row i.
Loc(b, i) == SumTo([k \in Below(Rows(b)) |-> Q(b, k)], i)
RowOf(b, t) == CHOOSE i \in Below(Len(b.reqs)) : Loc(b, i) <= t /\ t < Loc(b, i + 1)
Position(b, t) ==
  LET i == RowOf(b, t) IN Seq_(b, i) - Q(b, i) + t - Loc(b, i)

\* What the scheduler and the runner promise of a batch: every request runs
\* at least one token, the host's bound is one, a request fits its pages and
\* its keys the workspace, and only a full graph, all of whose requests run
\* as many tokens, has padding.
WellFormed(l, b) ==
  /\ Len(b.reqs) \in Nat \ {0} /\ b.pads \in Nat
  /\ \A i \in 1..Len(b.reqs) :
       LET r == b.reqs[i]
       IN /\ r.id \in Nat /\ r.q \in Nat \ {0} /\ r.seq \in Nat /\ r.ub \in Nat
          /\ r.seq <= Pages * PageTokens
          /\ r.q <= r.seq /\ r.seq <= r.ub /\ r.ub \div l.kpool <= l.workspace
          /\ b.pads > 0 => r.q = b.reqs[1].q /\ r.q <= l.spec + 1
  /\ b.tokens <= MaxTokens
  /\ b.tokens = IF b.pads = 0 THEN Loc(b, Len(b.reqs)) ELSE Rows(b) * b.reqs[1].q

ASSUME BatchAssumption == \A l \in Launches : \A b \in Batches(l) : WellFormed(l, b)

\* The shared table: the row of a request, Factor kernel blocks per page.
RawRow(b, i) ==
  [c \in Below(Pages * Factor) |->
     IF i < Len(b.reqs)
     THEN (b.reqs[i + 1].id * Pages + (c \div Factor)) * Factor + (c % Factor)
     ELSE 0]

Translate(row) == [c \in Below(Pages) |-> row[c * Factor] \div Factor]

KeyAt(row, pool) == <<row[pool \div PageKeys], pool % PageKeys>>

-----------------------------------------------------------------------------
(* Splitting the batch.                                                    *)

UseFlattening == NextN \notin {1, 2}

\* split_decodes_and_prefills: the leading rows that are decodes.
DecodeRow(b, i) ==
  IF UseFlattening \/ NextN = 1 THEN Q(b, i) <= NextN ELSE Q(b, i) = Q(b, 0)

NumDecodes(b) ==
  CASE \A i \in Below(Rows(b)) :
         \/ (UseFlattening \/ NextN = 1) /\ Q(b, i) <= NextN
         \/ Q(b, 0) <= NextN /\ Q(b, i) \in {0, Q(b, 0)} -> Rows(b)
    [] Q(b, 0) > NextN -> 0
    [] OTHER -> CHOOSE n \in 0..Rows(b) :
                  /\ \A i \in Below(n) : DecodeRow(b, i)
                  /\ n < Rows(b) => ~DecodeRow(b, n)

DecodeTokens(b) ==
  IF NumDecodes(b) = Rows(b) THEN b.tokens ELSE Loc(b, NumDecodes(b))

-----------------------------------------------------------------------------
(* Prefill chunks: consecutive requests while the pooled keys fit the       *)
(* workspace and rows times keys the logits budget; a request that does not *)
(* fit alone is cut into slices of its rows.                                *)

Pooled(n) == n \div KPool

\* The keys in front of row i: as the host bounds them, on the device.
HostKeys(b, i)   == SumTo([k \in Below(Rows(b)) |-> Pooled(Ub(b, k))], i)
DeviceKeys(b, i) == SumTo([k \in Below(Rows(b)) |-> Pooled(Seq_(b, k))], i)

ChunkRows(b, s, e) == Loc(b, e + 1) - Loc(b, s)
ChunkKeys(b, s, e) == HostKeys(b, e + 1) - HostKeys(b, s)

Fits(b, s, e) ==
  /\ ChunkKeys(b, s, e) <= Workspace
  /\ ChunkRows(b, s, e) * ChunkKeys(b, s, e) <= MaxLogits

\* The last request of the chunk that starts with request s.
ChunkEnd(b, s) ==
  Max({s} \cup {e \in s..(Rows(b) - 1) : \A i \in s..e : Fits(b, s, i)})

\* Mutant: the rows per slice are rounded up.
SliceRows_RoundUp(b, s, e) ==
  LET keys == ChunkKeys(b, s, e)
  IN IF keys > 0 THEN (MaxLogits + keys - 1) \div keys
     ELSE Max({1, ChunkRows(b, s, e)})

SliceRows(b, s, e) ==
  LET keys == ChunkKeys(b, s, e)
  IN IF keys > 0 THEN Max({1, MaxLogits \div keys})
     ELSE Max({1, ChunkRows(b, s, e)})

\* The slices of the chunk of requests s..e: rows from..to of its tokens.
Slices(b, s, e) ==
  LET rows == ChunkRows(b, s, e)
      n == SliceRows(b, s, e)
  IN [k \in 1..((rows + n - 1) \div n) |->
        [first |-> s, last |-> e, from |-> (k - 1) * n,
         to |-> Min({k * n, rows}) - 1]]

ChunkSpecs(b) ==
  LET from[s \in 0..Rows(b)] ==
        IF s = Rows(b) THEN <<>>
        ELSE LET e == ChunkEnd(b, s) IN Slices(b, s, e) \o from[e + 1]
  IN from[NumDecodes(b)]

\* Only the first slice of a chunk gathers its keys.
\* Mutant: the start of the request slice is taken for that of the rows.
SkipsGather_Request(c) == c.first > 0

SkipsGather(c) == c.from > 0

\* build_prefill_chunk_metadata.  ks and ke bound the keys of a row in the
\* workspace; the lengths are the device's, the total the host's bound.
Chunk(b, c) ==
  LET start(i) == DeviceKeys(b, i) - DeviceKeys(b, c.first)
      token(row) == Loc(b, c.first) + c.from + row
  IN [first |-> c.first, last |-> c.last,
      token |-> token(0), rows |-> c.to - c.from + 1,
      total |-> ChunkKeys(b, c.first, c.last),
      ks |-> [row \in Below(c.to - c.from + 1) |-> start(RowOf(b, token(row)))],
      ke |-> [row \in Below(c.to - c.from + 1) |->
                start(RowOf(b, token(row))) + Pooled(Position(b, token(row)) + 1)],
      skip |-> SkipsGather(c)]

\* A chunk without pooled keys is left out.
Chunks(b) ==
  LET specs == ChunkSpecs(b)
      upTo[k \in 0..Len(specs)] ==
        IF k = 0 THEN <<>>
        ELSE IF Chunk(b, specs[k]).total = 0 THEN upTo[k - 1]
        ELSE Append(upTo[k - 1], Chunk(b, specs[k]))
  IN upTo[Len(specs)]

MaxPrefillLen(b) == Max({Ub(b, i) : i \in NumDecodes(b)..(Rows(b) - 1)})

-----------------------------------------------------------------------------
(* Decode rows.  A layout has rows of the query reshaped to               *)
(* [rows][width], the lengths that group tokens into rows, and for each    *)
(* row its context lengths (one, or one per token) and its table.          *)

DecodeLens(b) == [i \in Below(NumDecodes(b)) |-> Q(b, i)]
MaxLen(b) == Max(Range(DecodeLens(b)))
MinLen(b) == Min(Range(DecodeLens(b)))

UseNative(b) == ~UseFlattening /\ MaxLen(b) <= NextN

\* Variable lengths flattened: the request of row t and its context.
FlatRows(b) == Loc(b, NumDecodes(b))

Uniform(b) ==
  MinLen(b) = MaxLen(b) /\ NumDecodes(b) * MaxLen(b) = DecodeTokens(b)

\* _prepare_uniform_decode_kernel: the context of row t.
UniformSeq(b, t) == Seq_(b, t \div MaxLen(b)) - MaxLen(b) + (t % MaxLen(b)) + 1

\* The repeat_interleave form of the same.
\* Mutant: the start of the row's request is not taken off.
FlatSeq_NoStart(b, t) ==
  LET i == RowOf(b, t) IN Seq_(b, i) - Q(b, i) + t + 1

FlatSeq(b, t) ==
  LET i == RowOf(b, t) IN Seq_(b, i) - Q(b, i) - Loc(b, i) + t + 1

\* decode_seq_lens_buffer after _prepare_decode_tensors.
NewSeqs(b) ==
  CASE UseNative(b) /\ NextN = 1 -> seqs
    [] UseNative(b) /\ NextN > 1 ->
         Over(seqs, NumDecodes(b) * MaxLen(b), LAMBDA t : UniformSeq(b, t))
    [] ~UseNative(b) /\ Uniform(b) ->
         [t \in Slots |-> IF t < DecodeTokens(b) THEN UniformSeq(b, t) ELSE 0]
    [] OTHER ->
         [t \in Slots |-> IF t < FlatRows(b) THEN FlatSeq(b, t) ELSE 0]

\* expanded_block_table_buffer: each flattened row has its request's row.
NewTables(b) ==
  CASE UseNative(b) -> tables
    [] ~UseNative(b) /\ Uniform(b) ->
         Over(tables, DecodeTokens(b), LAMBDA t : RawRow(b, t \div MaxLen(b)))
    [] OTHER ->
         [t \in Slots |->
            IF t < FlatRows(b) THEN RawRow(b, RowOf(b, t))
            ELSE IF t < DecodeTokens(b) THEN [tables[t] EXCEPT ![0] = 0]
            ELSE tables[t]]

\* The lengths are kept for the write before the rows are flattened.
\* Mutant: they are read back after.
Stashed_Late(b) ==
  Over(perReq, NumDecodes(b), LAMBDA i : IF UseNative(b) THEN Q(b, i) ELSE 1)

Stashed(b) == Over(perReq, NumDecodes(b), LAMBDA i : Q(b, i))

NewLens(b) ==
  LET diff == Over(lens, NumDecodes(b), LAMBDA i : Q(b, i))
  IN IF UseNative(b) THEN diff ELSE Over(diff, DecodeTokens(b), LAMBDA t : 1)

\* The context lengths in pooled keys, as the rows of a flat tensor.
Contexts(b) ==
  LET new == NewSeqs(b) IN
  CASE UseNative(b) /\ NextN > 1 ->
         [t \in Below(NumDecodes(b) * MaxLen(b)) |-> Pooled(new[t])]
    [] UseNative(b) /\ NextN = 1 ->
         [t \in Below(DecodeTokens(b)) |->
            IF t < NumDecodes(b) THEN Pooled(Seq_(b, t)) ELSE 0]
    [] OTHER -> [t \in Below(DecodeTokens(b)) |-> Pooled(new[t])]

\* The table is translated after the rows were copied.
\* Mutant: the rows of a flattened batch are taken for translated ones.
DecodeTable_Raw(b) ==
  IF UseNative(b) THEN [i \in Below(NumDecodes(b)) |-> Translate(RawRow(b, i))]
  ELSE [t \in Below(DecodeTokens(b)) |-> NewTables(b)[t]]

DecodeTable(b) ==
  IF UseNative(b) THEN [i \in Below(NumDecodes(b)) |-> Translate(RawRow(b, i))]
  ELSE LET new == NewTables(b)
       IN [t \in Below(DecodeTokens(b)) |-> Translate(new[t])]

NoDecode == [rows |-> 0]

DecodeMeta(b) ==
  [rows    |-> IF UseNative(b) THEN NumDecodes(b) ELSE DecodeTokens(b),
   context |-> Contexts(b),
   perRow  |-> IF UseNative(b) /\ NextN > 1 THEN MaxLen(b) ELSE 1,
   table   |-> DecodeTable(b),
   padding |-> UseNative(b) /\ MinLen(b) # MaxLen(b),
   uniform |-> MinLen(b) = MaxLen(b),
   longest |-> MaxLen(b)]

-----------------------------------------------------------------------------
(* Selection.  pools are the pools a row may choose, key what each was     *)
(* compared with; the later SelectK are chosen and expanded, and the       *)
(* unfinished pool at the end of the row's sequence is added.              *)

Chosen(n) == {p \in Below(n) : p >= n - SelectK}

EmptyRow == [pos |-> {}, seen |-> {}]

\* Mutant: the tail starts after the pool that holds the last token.
TailOf_PastLast(len) == {p \in Below(len) : p >= Pooled(len + KPool - 1) * KPool}

TailOf(len) == {p \in Below(len) : p >= Pooled(len) * KPool}

\* expand_pools_and_append_tail on the choice among n pools with these keys.
Expanded(n, len, key) ==
  [pos  |-> {p \in Below(n * KPool) : p \div KPool \in Chosen(n)} \cup TailOf(len),
   seen |-> {<<p, key[p]>> : p \in Chosen(n)}]

-----------------------------------------------------------------------------
(* The build of a step.                                                    *)

PrefillMeta(b) ==
  IF NumDecodes(b) < Rows(b)
  THEN [chunks |-> Chunks(b), short |-> MaxPrefillLen(b) <= TopK]
  ELSE [chunks |-> <<>>, short |-> FALSE]

Build(b) ==
  /\ pc = "build" /\ steps < MaxSteps
  /\ steps' = steps + 1
  /\ batch' = b
  /\ IF NumDecodes(b) > 0
     THEN /\ perReq' = Stashed(b)
          /\ lens' = NewLens(b)
          /\ seqs' = NewSeqs(b)
          /\ tables' = NewTables(b)
     ELSE UNCHANGED <<perReq, lens, seqs, tables>>
  /\ meta' = [chunks |-> PrefillMeta(b).chunks,
              short  |-> PrefillMeta(b).short,
              decode |-> IF NumDecodes(b) > 0 THEN DecodeMeta(b) ELSE NoDecode]
  /\ pc' = "start"
  /\ UNCHANGED <<launch, gathered, grid, topk>>

\* The rows of the step start empty; when no prefill row is longer than
\* TopK, every row takes all the positions up to its own.
StartRows(b) ==
  [t \in Slots |->
     IF meta.short /\ DecodeTokens(b) <= t /\ t < Loc(b, Len(b.reqs))
     THEN [pos |-> 0..Position(b, t), seen |-> {}]
     ELSE IF t < b.tokens THEN EmptyRow ELSE topk[t]]

Start ==
  /\ pc = "start" /\ ~Plain
  /\ topk' = StartRows(batch)
  /\ meta' = [meta EXCEPT !.chunks = IF meta.short THEN <<>> ELSE @]
  /\ pc' = "prefill"
  /\ UNCHANGED <<launch, steps, batch, lens, perReq, seqs, tables, gathered, grid>>

\* The workspace after the keys of the chunk's requests are gathered: as
\* many of each as the device's length gives.
Gathered(b, c) ==
  LET start(i) == DeviceKeys(b, i) - DeviceKeys(b, c.first)
      n == start(c.last + 1)
      req(x) == CHOOSE i \in c.first..c.last : start(i) <= x /\ x < start(i + 1)
  IN Over(gathered, n,
          LAMBDA x : KeyAt(Translate(RawRow(b, req(x))), x - start(req(x))))

\* fp8_mqa_logits: a row is compared with the keys ks..ke - 1 of the
\* workspace, and its choice counts from ks.
RowKeys(c, row, work) ==
  [p \in Below(c.ke[row] - c.ks[row]) |-> work[c.ks[row] + p]]

PrefillChunk ==
  /\ pc = "prefill" /\ ~Plain /\ meta.chunks # <<>>
  /\ LET c == Head(meta.chunks)
         work == IF c.skip THEN gathered ELSE Gathered(batch, c)
     IN /\ gathered' = work
        /\ topk' = [t \in Slots |->
             IF c.token <= t /\ t < c.token + c.rows
             THEN LET row == t - c.token
                  IN Expanded(c.ke[row] - c.ks[row], Position(batch, t) + 1,
                              RowKeys(c, row, work))
             ELSE topk[t]]
  /\ meta' = [meta EXCEPT !.chunks = Tail(@)]
  /\ UNCHANGED <<launch, steps, pc, batch, lens, perReq, seqs, tables, grid>>

-----------------------------------------------------------------------------
(* The decode part.                                                        *)

\* Tokens are grouped by request for the write: a reshape when all requests
\* have as many, else a scatter by the kept lengths.  The scatter's indices
\* are allocated for DecodeTokens and written for the sum of the lengths:
\* those of padding tokens are whatever the memory held.
Cells(b) == Below(NumDecodes(b)) \X Below(meta.decode.longest)

\* Without padding tokens there is nothing to choose.
Stale(b) == IF FlatRows(b) < DecodeTokens(b) THEN Cells(b) ELSE {<<0, 0>>}

Scattered(b, stale) ==
  LET start(i) == SumTo(perReq, i)
      real == start(NumDecodes(b))
  IN [cell \in Cells(b) |->
        IF real < DecodeTokens(b) /\ cell = stale THEN real
        ELSE IF cell[2] < perReq[cell[1]] THEN start(cell[1]) + cell[2]
        ELSE NoToken]

\* use_uniform.
Reshaped(b) ==
  meta.decode.uniform /\ DecodeTokens(b) = NumDecodes(b) * meta.decode.longest

Grouped(b, stale) ==
  IF Reshaped(b)
  THEN [cell \in Cells(b) |-> cell[1] * meta.decode.longest + cell[2]]
  ELSE Scattered(b, stale)

\* The write's slots in the tail cache: the own block of each request is
\* repeated by the kept lengths and meets one position per token.  With padding
\* tokens the shapes differ, and the step raises, unless a single block is
\* there to be broadcast.  (A reshape takes one block per row.)
TailShapes(b) ==
  LET real == SumTo(perReq, NumDecodes(b))
  IN Reshaped(b) \/ Min({real, DecodeTokens(b)}) \in {1, DecodeTokens(b)}

\* The layout of the query rows: packed by the lengths when they differ, a
\* reshape of the tokens otherwise.
Width(b) ==
  IF meta.decode.padding THEN meta.decode.longest
  ELSE DecodeTokens(b) \div meta.decode.rows

PlaceOf(b, t) ==
  IF meta.decode.padding THEN <<RowOf(b, t), t - Loc(b, RowOf(b, t))>>
  ELSE <<t \div Width(b), t % Width(b)>>

\* Context of a place: a row has one length, or one for each of its tokens.
ContextAt(p) ==
  meta.decode.context[p[1] * meta.decode.perRow
                      + IF meta.decode.perRow > 1 THEN p[2] ELSE 0]

\* fp8_paged_mqa_logits: which of the pools of a place are compared.  The
\* Triton kernel reads one context length per row of the query.
Compared(b, p, pool) ==
  IF DeepGemm THEN pool < ContextAt(p)
  ELSE LET n == meta.decode.context[p[1]]
       IN pool < n /\ pool <= n - Width(b) + p[2]

\* The length a row is expanded for follows its token's position; packed
\* positions are scattered like the write, padding tokens included.
RowLen(b, t, stale) ==
  IF meta.decode.padding /\ FlatRows(b) < DecodeTokens(b) /\ PlaceOf(b, t) = stale
  THEN 0 ELSE Position(b, t) + 1

DecodeKeys(b, p) ==
  [pool \in Below(ContextAt(p)) |->
     IF Compared(b, p, pool) THEN KeyAt(meta.decode.table[p[1]], pool) ELSE NoKey]

DecodeRowAt(b, t, stale) ==
  LET p == PlaceOf(b, t)
  IN Expanded(ContextAt(p), RowLen(b, t, stale), DecodeKeys(b, p))

\* The operator raises on the tail slots: before the write and the rows.
DecodeRaises ==
  /\ pc = "prefill" /\ ~Plain /\ meta.chunks = <<>>
  /\ NumDecodes(batch) > 0 /\ ~TailShapes(batch)
  /\ pc' = "failed"
  /\ UNCHANGED <<launch, steps, batch, lens, perReq, seqs, tables, meta, gathered,
                 grid, topk>>

\* Rows of padding tokens are written too; what they hold is not used.
Decode ==
  /\ pc = "prefill" /\ ~Plain /\ meta.chunks = <<>>
  /\ NumDecodes(batch) > 0 => TailShapes(batch)
  /\ IF NumDecodes(batch) > 0
     THEN \E stale \in Stale(batch) :
            /\ grid' = Grouped(batch, stale)
            /\ topk' = [t \in Slots |->
                 IF t < FlatRows(batch) THEN DecodeRowAt(batch, t, stale)
                 ELSE topk[t]]
     ELSE grid' = <<>> /\ UNCHANGED topk
  /\ pc' = "build"
  /\ UNCHANGED <<launch, steps, batch, lens, perReq, seqs, tables, meta, gathered>>

-----------------------------------------------------------------------------
(* The indexer without pools (sparse_attn_indexer.py): the same metadata    *)
(* with one key per token, no short path, no tail and no grouping of the    *)
(* write.                                                                  *)

\* top_k_per_row_prefill, top_k_per_row_decode.
PlainRow(n, key) ==
  [pos |-> Chosen(n), seen |-> {<<p, key[p]>> : p \in Chosen(n)}]

PlainStart ==
  /\ pc = "start" /\ Plain
  /\ topk' = [t \in Slots |-> IF t < batch.tokens THEN EmptyRow ELSE topk[t]]
  /\ pc' = "prefill"
  /\ UNCHANGED <<launch, steps, batch, lens, perReq, seqs, tables, meta, gathered, grid>>

PlainChunk ==
  /\ pc = "prefill" /\ Plain /\ meta.chunks # <<>>
  /\ LET c == Head(meta.chunks)
         work == IF c.skip THEN gathered ELSE Gathered(batch, c)
     IN /\ gathered' = work
        /\ topk' = [t \in Slots |->
             IF c.token <= t /\ t < c.token + c.rows
             THEN PlainRow(c.ke[t - c.token] - c.ks[t - c.token],
                           RowKeys(c, t - c.token, work))
             ELSE topk[t]]
  /\ meta' = [meta EXCEPT !.chunks = Tail(@)]
  /\ UNCHANGED <<launch, steps, pc, batch, lens, perReq, seqs, tables, grid>>

\* Rows of padding tokens are written too; what they hold is not used.
PlainDecode ==
  /\ pc = "prefill" /\ Plain /\ meta.chunks = <<>>
  /\ topk' = IF NumDecodes(batch) = 0 THEN topk
             ELSE [t \in Slots |->
                IF t < FlatRows(batch)
                THEN LET p == PlaceOf(batch, t)
                     IN PlainRow(ContextAt(p), DecodeKeys(batch, p))
                ELSE topk[t]]
  /\ grid' = <<>>
  /\ pc' = "build"
  /\ UNCHANGED <<launch, steps, batch, lens, perReq, seqs, tables, meta, gathered>>

-----------------------------------------------------------------------------
Init ==
  /\ launch \in Launches
  /\ steps = 0 /\ pc = "build"
  /\ batch = [reqs |-> <<>>, pads |-> 0, tokens |-> 0]
  /\ lens = [t \in Slots |-> 0] /\ perReq = lens /\ seqs = lens
  /\ tables = [t \in Slots |-> [c \in Below(Pages * Factor) |-> 0]]
  /\ meta = [chunks |-> <<>>, short |-> FALSE, decode |-> NoDecode]
  /\ gathered = [x \in Below(Workspace) |-> NoKey]
  /\ grid = <<>>
  /\ topk = [t \in Slots |-> EmptyRow]

Next ==
  \/ \E b \in Batches(launch) : Build(b)
  \/ Start \/ PrefillChunk \/ DecodeRaises \/ Decode
  \/ PlainStart \/ PlainChunk \/ PlainDecode

Spec == Init /\ [][Next]_vars

-----------------------------------------------------------------------------
(* Launches and batches on which the rows and the grouping come out right.  *)

\* The fallback kernel reads one length per row, which is wrong where a row
\* has two tokens; packing by the lengths is wrong with padding, of which the
\* write lets a batch of a single token pass.
OneLength(l) == l.deepGemm \/ l.spec # 1
Packed(l, b) == l.kpool > 1 /\ b.pads > 0 => Loc(b, Len(b.reqs)) > 1

\* Request i is one of the leading ones that decode.
Leading(l, b, i) ==
  \A j \in 1..i :
    b.reqs[j].q <= l.spec + 1 /\ (l.spec = 1 => b.reqs[j].q = b.reqs[1].q)

\* No prefill chunk is without a pooled key, unless the prefills are short:
\* the rows of such a chunk are left empty.
Keyed(l, b) ==
  \/ \A i \in 1..Len(b.reqs) : Leading(l, b, i) \/ b.reqs[i].ub <= l.topk
  \/ \A i \in 1..Len(b.reqs) : Leading(l, b, i) \/ b.reqs[i].ub >= l.kpool

RowsAssumed ==
  \A l \in Launches :
    OneLength(l) /\ \A b \in Batches(l) : Packed(l, b) /\ Keyed(l, b)

WriteAssumed == \A l \in Launches : \A b \in Batches(l) : Packed(l, b)

-----------------------------------------------------------------------------
(* Properties.                                                             *)

Done == pc = "build"

\* What the token at position p of request r must attend to: of its own
\* pools that end at or before p the best, and the tokens after them.
OwnRow(b, t) ==
  LET n == Pooled(Position(b, t) + 1)
      own == Translate(RawRow(b, RowOf(b, t)))
  IN Expanded(n, Position(b, t) + 1, [pool \in Below(n) |-> KeyAt(own, pool)])

\* Every token of a step attends to its own request's positions only, to
\* none after its own, and chose the pools by its own request's keys; a row
\* of the short prefill path takes everything without comparing.  (The
\* layouts of build(), the chunk loop and the decode resolve.)
RowsExact ==
  Done => \A t \in Below(Loc(batch, Len(batch.reqs))) :
            /\ topk[t].pos = OwnRow(batch, t).pos
            /\ topk[t].seen \in {OwnRow(batch, t).seen} \cup
                 (IF Position(batch, t) < TopK THEN {{}} ELSE {})

\* The decode write sees each request's tokens in its own row and in order:
\* a key stashed or a pool completed for another request cannot happen; and
\* only a batch with padding tokens raises on the way to it.
\* (sparse_attn_indexer_kpool.py:241: "request r's tokens at row r in
\* order; short requests padded")
WriteGrouped ==
  /\ pc = "failed" => FlatRows(batch) < DecodeTokens(batch)
  /\ Done /\ grid # <<>> =>
    \A i \in Below(Min({Len(batch.reqs), NumDecodes(batch)})) :
      \A k \in Below(Q(batch, i)) : grid[<<i, k>>] = Loc(batch, i) + k

\* The slices of the prefill cover its rows once and in order, and no chunk
\* exceeds the workspace or, unless it is a single row, the logits budget.
ChunksFit ==
  pc = "start" /\ NumDecodes(batch) < Rows(batch) =>
    LET specs == ChunkSpecs(batch)
        tokenOf(c, row) == Loc(batch, c.first) + row
    IN /\ \A k \in DOMAIN specs :
            LET c == specs[k]
                keys == ChunkKeys(batch, c.first, c.last)
            IN /\ keys <= Workspace
               /\ c.to > c.from => (c.to - c.from + 1) * keys <= MaxLogits
               /\ c.from <= c.to
               /\ tokenOf(c, c.from) =
                    IF k = 1 THEN DecodeTokens(batch)
                    ELSE tokenOf(specs[k - 1], specs[k - 1].to) + 1
       /\ LET c == specs[Len(specs)]
          IN tokenOf(c, c.to) = batch.tokens - 1
=============================================================================
