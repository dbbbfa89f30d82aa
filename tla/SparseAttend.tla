----------------------------- MODULE SparseAttend -----------------------------
(***************************************************************************)
(* Sparse attention over the rows the indexer left (module IndexerSelect): *)
(* the backend's metadata names the request of every token, the positions  *)
(* of a row become slots of the KV cache, and the kernel computes a        *)
(* softmax over them, tile by tile, either in one pass or in splits of the *)
(* topk axis that a second kernel merges.  (backends/mla/                  *)
(* xpu_mla_sparse.py, triton_mla_sparse.py, ops/triton_mla_sparse_kernel)  *)
(*                                                                         *)
(* An output is kept unevaluated: what each column of the row contributes  *)
(* and the sum it is divided by.  The logit of a slot is one of the levels *)
(* 0, 1, 2, its weight 2 to that power; weights count in quarters, so that *)
(* scaling to another maximum is exact.                                    *)
(***************************************************************************)
EXTENDS IndexerSelect

CONSTANTS
  TileColumns,   \* sparse_topk_block_n: the buffer's width is a multiple
  FinalTile,     \* BLOCK_N of the single-pass kernel
  SplitTile,     \* BLOCK_N of the split kernel
  PerSplit,      \* _MIN_TOPK_PER_SPLIT
  HeadGroups,    \* num_head_groups
  Occupancy,     \* _SPLIT_MAX_OCCUPANCY
  Units          \* sm_count

ASSUME AttendAssumption ==
  /\ {TileColumns, FinalTile, SplitTile, PerSplit, HeadGroups, Occupancy, Units}
       \subseteq Nat \ {0}
  /\ TileColumns % FinalTile = 0

VARIABLES
  reqIds,    \* req_id_per_token_buffer
  attended,  \* steps whose attention ran
  out        \* [tokens of the batch -> the attention output]

attendVars == <<launch, steps, pc, batch, lens, perReq, seqs, tables, meta, gathered,
                grid, topk, reqIds, attended, out>>

RoundUp(n, k) == ((n + k - 1) \div k) * k

\* Columns of topk_indices_buffer.
BufferWidth == RoundUp(TopK + KPool - 1, TileColumns)
Columns     == Below(BufferWidth)

-----------------------------------------------------------------------------
(* From a row to slots of the KV cache.                                    *)

\* The row of token t as the indexer wrote it: the chosen pools from the
\* left, the tail behind the columns of TopK, -1 elsewhere.  The row of a
\* short prefill has the position in its column.
RowColumns(b, t) ==
  LET short == meta.short /\ t >= DecodeTokens(b)
      tail  == IF short THEN {} ELSE topk[t].pos \cap TailOf(Position(b, t) + 1)
      gap(n) == [c \in 1..n |-> -1]
      sorted(S) == [n \in 1..Cardinality(S) |->
                      CHOOSE x \in S : Cardinality({y \in S : y < x}) = n - 1]
      left  == sorted(topk[t].pos \ tail)
      head  == left \o gap(TopK - Len(left)) \o sorted(tail)
  IN head \o gap(BufferWidth - Len(head))

\* Mutant: the first token of a request is counted to the request before.
TokenRequests_Late(b) ==
  [t \in Slots |-> IF t \in 1..Loc(b, Len(b.reqs)) THEN RowOf(b, t - 1) ELSE 0]

\* req_id_per_token_buffer: filled with 0, then the row of every token.
TokenRequests(b) ==
  [t \in Slots |-> IF t < Loc(b, Len(b.reqs)) THEN RowOf(b, t) ELSE 0]

BlockTokens == PageTokens \div Factor

\* triton_convert_req_index_to_global_index.
GlobalSlot(b, req, pos) ==
  IF pos < 0 THEN -1
  ELSE RawRow(b, req)[pos \div BlockTokens] * BlockTokens + (pos % BlockTokens)

Indices(b, t) ==
  LET row == RowColumns(b, t) IN [c \in Columns |-> GlobalSlot(b, reqIds[t], row[c + 1])]

-----------------------------------------------------------------------------
(* The kernels.                                                            *)

Level(slot) == slot % 3

Masked == -1000   \* NEG_LARGE
Quarters == 4     \* what a weight of 1 counts for

\* x times exp2(d), d never positive: nothing is left across the sentinel.
Scaled(x, d) == IF d < -4 THEN 0 ELSE x \div (2 ^ (-d))

Empty == [max |-> Masked, sum |-> 0, acc |-> [c \in Columns |-> 0]]

\* One tile of the loop: lanes from first, those from `end` on are masked
\* like a column of -1.  A masked lane adds exp2(NEG_LARGE - max) to the sum
\* and nothing to the values: 1 while the maximum is the sentinel itself.
Tile(st, idx, first, size, end) ==
  LET lanes == {c \in first..(first + size - 1) : c < end /\ idx[c] >= 0}
      m     == Max({st.max} \cup {Level(idx[c]) : c \in lanes})
      p(c)  == Scaled(Quarters, Level(idx[c]) - m)
  IN [max |-> m,
      sum |-> Scaled(st.sum, st.max - m) + MapThenSumSet(p, lanes)
                + (size - Cardinality(lanes)) * Scaled(Quarters, Masked - m),
      acc |-> [c \in Columns |->
                 Scaled(st.acc[c], st.max - m) + (IF c \in lanes THEN p(c) ELSE 0)]]

\* _sparse_mla_compute_tile over the columns start..end - 1.
ComputeTile(idx, start, end, size) ==
  LET n == RoundUp(end - start, size) \div size
      after[k \in 0..n] ==
        IF k = 0 THEN Empty ELSE Tile(after[k - 1], idx, start + (k - 1) * size, size, end)
  IN after[n]

\* acc / e_sum, guarded against a sum of 0.
Normalised(acc, sum) == [acc |-> acc, sum |-> IF sum > 0 THEN sum ELSE 1]

\* _sparse_mla_kernel_final.
SinglePass(idx) ==
  LET st == ComputeTile(idx, 0, BufferWidth, FinalTile) IN Normalised(st.acc, st.sum)

\* Mutant: the tiles of a split run on to the end of the row.
SplitEnd_Row(k, width) == BufferWidth

SplitEnd(k, width) == Min({k * width + width, BufferWidth})

\* _sparse_mla_kernel_split: the partial output and its log-sum-exp, kept as
\* the maximum and the sum.
Partial(idx, splits, k) ==
  LET width == RoundUp(BufferWidth, splits) \div splits
  IN ComputeTile(idx, k * width, SplitEnd(k, width), SplitTile)

\* exp(lse - max) of a split in the merge.
Share(part, top) == Scaled(part.sum * Quarters, part.max - top)

\* _sparse_mla_merge_kernel.
Merged(idx, splits) ==
  LET part == [k \in Below(splits) |-> Partial(idx, splits, k)]
      top  == Max({part[k].max : k \in Below(splits)})
  IN Normalised(
       [c \in Columns |-> MapThenSumSet(LAMBDA k :
          (Share(part[k], top) * part[k].acc[c]) \div Max({1, part[k].sum}), Below(splits))],
       MapThenSumSet(LAMBDA k : Share(part[k], top), Below(splits)))

Powers == {1, 2, 4, 8, 16, 32}

\* _choose_num_kv_splits: a power of two that divides the width.
NumSplits(tokens) ==
  LET baseline == tokens * HeadGroups
      ideal == Min({p \in Powers : p >= Max({1, BufferWidth \div PerSplit})})
      most  == Max({p \in Powers : p <= Max({1, Units \div baseline})})
  IN IF baseline = 0 \/ baseline * Occupancy >= Units THEN 1
     ELSE Max({p \in Powers : p <= Min({ideal, most}) /\ BufferWidth % p = 0})

\* triton_mla_sparse_attention.
Attention(idx, tokens) ==
  IF NumSplits(tokens) = 1 THEN SinglePass(idx) ELSE Merged(idx, NumSplits(tokens))

-----------------------------------------------------------------------------
(* A step: the builds, the indexer, the attention.                         *)

BuildBoth(b) ==
  /\ attended = steps
  /\ Build(b)
  /\ reqIds' = TokenRequests(b)
  /\ UNCHANGED <<attended, out>>

Indexer ==
  /\ Start \/ PrefillChunk \/ DecodeRaises \/ Decode \/ PlainStart \/ PlainChunk \/ PlainDecode
  /\ UNCHANGED <<reqIds, attended, out>>

\* forward_mqa over the tokens of the batch; the rows of padding tokens run
\* too, and what they give is not used.
Attend ==
  /\ pc = "build" /\ attended < steps
  /\ out' = [t \in Below(Loc(batch, Len(batch.reqs))) |->
               Attention(Indices(batch, t), batch.tokens)]
  /\ attended' = steps
  /\ UNCHANGED <<vars, reqIds>>

AttendInit ==
  /\ Init
  /\ reqIds = [t \in Slots |-> 0] /\ attended = 0 /\ out = <<>>

AttendNext ==
  \/ \E b \in Batches(launch) : BuildBoth(b)
  \/ Indexer
  \/ Attend

AttendSpec == AttendInit /\ [][AttendNext]_attendVars

-----------------------------------------------------------------------------
\* The slot of a position: the model gives the pages of a request in order.
HomeSlot(b, i, pos) == b.reqs[i + 1].id * Pages * PageTokens + pos

\* What the kernels will be given: the columns of a token's row are the slots of
\* exactly the positions it is to attend to, in the blocks of its own request,
\* each in one column, and -1; whatever the buffer of request ids held of an
\* earlier batch.  (forward_mqa: triton_convert_req_index_to_global_index)
SlotsExact ==
  Done /\ attended < steps => \A t \in Below(Loc(batch, Len(batch.reqs))) :
    LET idx == Indices(batch, t)
        own == {HomeSlot(batch, RowOf(batch, t), pos) : pos \in OwnRow(batch, t).pos}
    IN /\ {idx[c] : c \in Columns} \ {-1} = own
       /\ \A c, d \in Columns : idx[c] = idx[d] /\ idx[c] # -1 => c = d

\* The slots that hold the keys of a request.
OwnSlots(b, t) ==
  {GlobalSlot(b, RowOf(b, t), pos) : pos \in OwnRow(b, t).pos}

\* The output of every token is the softmax over the slots of exactly the
\* positions it is to attend to, each counted once, in its own request's
\* blocks: however the axis was split, whichever tiles were empty, and
\* without a share for the lanes that were masked (forward_mqa).
AttendExact ==
  attended = steps => \A t \in DOMAIN out :
    LET own    == OwnSlots(batch, t)
        weight == [x \in own |-> 2 ^ Level(x)]
        total  == MapThenSumSet(LAMBDA x : weight[x], own)
        idx    == Indices(batch, t)
        given(x) == MapThenSumSet(LAMBDA c : out[t].acc[c], {c \in Columns : idx[c] = x})
    IN \A x \in own \cup {idx[c] : c \in Columns} :
         given(x) * total = out[t].sum * (IF x \in own THEN weight[x] ELSE 0)
=============================================================================
