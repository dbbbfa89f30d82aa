------------------------------ MODULE MambaAlign ------------------------------
(***************************************************************************)
(* The recurrent state of hybrid models in "align" mode on one rank        *)
(* (model_states/mamba_hybrid.py, v1/worker/mamba_utils.py).               *)
(*                                                                         *)
(* A request's state lives in one block at a time: column col of its block *)
(* table, the block its next tokens fall into.  A verify batch leaves the  *)
(* state after its i-th token in column col + i - 1 (temporal state) or at *)
(* offset i - 1 of block col (convolution window); the number of accepted  *)
(* tokens selects which of them is the state of the sequence.  When the    *)
(* batch begins to fall into another block the state is copied there first *)
(* (preprocess), and when it has passed a block boundary the state at the  *)
(* boundary is copied into the block that ends there (postprocess), from   *)
(* where the prefix cache serves it.                                       *)
(*                                                                         *)
(* The last rank postprocesses a step when it has sampled; the others when *)
(* the relay of the step arrives, PPSize steps later (module PPRelay).     *)
(* A state is <<slot, tokens>>: of which request, after how many tokens.   *)
(***************************************************************************)
EXTENDS Integers, Sequences, FiniteSets

CONSTANT Launches   \* the launches, and on each the rank, that are looked at

ASSUME AlignAssumption ==
  \A l \in Launches :
    /\ l.pp \in Nat \ {0, 1} /\ l.last \in BOOLEAN
    /\ l.reqs \in Nat \ {0}
    /\ l.k \in Nat \ {0} /\ l.bs \in Nat /\ l.k < l.bs
    /\ l.maxPos \in Nat

VARIABLES
  launch,    \* what the launch fixes
  plen,      \* [Slots -> prefill length; 0: the slot is free]
  computed,  \* num_computed_tokens on the GPU
  acc,       \* num_accepted_tokens_gpu
  col,       \* _mamba_state_idx_gpu
  conv,      \* [Slots -> [Cols -> Seq(State)]]: the state a reader finds at an offset
  temporal,  \* [Slots -> [Cols -> State]]
  queue,     \* the steps whose rows are not postprocessed yet
  entry,     \* the rows being postprocessed
  snap,      \* num_accepted_tokens_snapshot
  todo       \* the kernel programs <<row, kind>> that have not run

slotVars == <<plen, computed, acc, col>>
vars == <<launch, slotVars, conv, temporal, queue, entry, snap, todo>>

PPSize  == launch.pp      \* pipeline stages
IsLast  == launch.last    \* the rank samples: is_last_pp_rank
MaxReqs == launch.reqs    \* request slots: max_num_reqs
K       == launch.k       \* num_speculative_tokens
BS      == launch.bs      \* mamba block size
MaxPos  == launch.maxPos  \* bound: tokens of a request

Slots == 1..MaxReqs
Cols  == 0..(MaxPos \div BS + K)
After(s, n) == <<s, n>>
Junk  == <<0, 0>>
State == {Junk} \cup {After(s, n) : s \in Slots, n \in 0..MaxPos}

\* What the blocks of a request hold when it gets them from the pool.
JunkConv     == [c \in Cols |-> <<>>]
JunkTemporal == [c \in Cols |-> Junk]

\* Steps on their way before the oldest is postprocessed.
Depth == IF IsLast THEN 1 ELSE PPSize

Pending(s) == \E i \in DOMAIN queue : \E j \in DOMAIN queue[i] : queue[i][j].s = s

\* Between two steps, nothing due for postprocessing.
Ready == todo = {} /\ Len(queue) < Depth

-----------------------------------------------------------------------------
(* Copies.  bias tokens of the window, or bias columns, lie between the     *)
(* state that the source column names and the one to be copied.             *)

At(window, bias) == IF bias < Len(window) THEN window[bias + 1] ELSE Junk

CopyConv(blocks, src, dst, bias) ==
  [blocks EXCEPT ![dst] = SubSeq(blocks[src], bias + 1, Len(blocks[src]))]

CopyTemporal(blocks, src, dst, bias) == [blocks EXCEPT ![dst] = blocks[src + bias]]

\* Mutant: the row of the batch indexes the block tables.
TableRow_Batch(i, s) == i

\* bt_row_idx: the block tables are those of the request slots.
TableRow(i, s) == s

-----------------------------------------------------------------------------
(* add_request and remove_request.  A request starts behind `hits` cached   *)
(* blocks, of which the last holds the state it goes on from.               *)

Admit(s, hits, len) ==
  /\ Ready /\ plen[s] = 0
  /\ hits * BS < len
  /\ plen' = [plen EXCEPT ![s] = len]
  /\ computed' = [computed EXCEPT ![s] = hits * BS]
  /\ acc' = [acc EXCEPT ![s] = 1]
  /\ col' = [col EXCEPT ![s] = (hits * BS - 1) \div BS]
  /\ conv' = [conv EXCEPT ![s] = [c \in Cols |->
       IF c = hits - 1 THEN <<After(s, hits * BS)>> ELSE <<>>]]
  /\ temporal' = [temporal EXCEPT ![s] = [c \in Cols |->
       IF c = hits - 1 THEN After(s, hits * BS) ELSE Junk]]
  /\ UNCHANGED <<launch, queue, entry, snap, todo>>

\* A freed slot is masked in every relay on its way (PPRelay: Fresh): its place
\* in idx_mapping becomes -1, the other rows keep theirs.
Masked(rows, s) == [i \in {j \in DOMAIN rows : rows[j].s # s} |-> rows[i]]

Release(s) ==
  /\ Ready /\ plen[s] # 0
  /\ plen' = [plen EXCEPT ![s] = 0]
  /\ computed' = [computed EXCEPT ![s] = 0]
  /\ conv' = [conv EXCEPT ![s] = JunkConv]
  /\ temporal' = [temporal EXCEPT ![s] = JunkTemporal]
  /\ queue' = [i \in DOMAIN queue |-> Masked(queue[i], s)]
  /\ UNCHANGED <<launch, acc, col, entry, snap, todo>>

-----------------------------------------------------------------------------
(* One step: preprocess, precopy, forward pass, and what sample_tokens does *)
(* at once.                                                                 *)

\* new_state_idx: the block the last token of the batch falls into.
Window(c, n) == (c + n + BS - 1) \div BS - 1

New(row) == Window(computed[row.s], row.n)

\* should_reset, and the condition of the pre-copy: src_col is the column
\* before the step.
Crosses(row) == col[row.s] >= 0 /\ col[row.s] # New(row)

\* Mutant: no reset at a block boundary.
Bias_Kept(row) == acc[row.s] - 1

\* Where the forward pass finds its initial state, relative to its window.
Bias(row) == IF Crosses(row) THEN 0 ELSE acc[row.s] - 1

SrcOff(row) == IF acc[row.s] > 1 THEN acc[row.s] - 1 ELSE 0

\* preprocess_mamba_align_fused_kernel and precopy_mamba_align_fused_kernel: the
\* rows whose program copies within the blocks of slot x (one at most).
Moving(batch, x) ==
  {batch[i] : i \in {k \in DOMAIN batch : TableRow(k, batch[k].s) = x /\ Crosses(batch[k])}}

PrecopiedConv(batch, x) ==
  IF Moving(batch, x) = {} THEN conv[x]
  ELSE LET row == CHOOSE r \in Moving(batch, x) : TRUE
       IN CopyConv(conv[x], col[row.s], New(row), SrcOff(row))

PrecopiedTemporal(batch, x) ==
  IF Moving(batch, x) = {} THEN temporal[x]
  ELSE LET row == CHOOSE r \in Moving(batch, x) : TRUE
       IN CopyTemporal(temporal[x], col[row.s], New(row), SrcOff(row))

\* The state after i tokens of the row, computed from `init`.
Step(row, init, i) ==
  LET s == row.s IN
  IF init = After(s, computed[s]) /\ i <= row.keep THEN After(s, computed[s] + i) ELSE Junk

\* A request without computed tokens has no initial state to load.
InitConv(row, blocks) ==
  IF computed[row.s] = 0 THEN After(row.s, 0) ELSE At(blocks[New(row)], Bias(row))
InitTemporal(row, blocks) ==
  IF computed[row.s] = 0 THEN After(row.s, 0) ELSE blocks[New(row) + Bias(row)]

\* The kernels keep the state after each token of a verify row, and only the
\* last one of any other row.
Kept(row) == IF row.d > 0 THEN [i \in 1..row.n |-> i] ELSE <<row.n>>

ForwardConv(row, blocks) ==
  [blocks EXCEPT ![New(row)] =
     [i \in DOMAIN Kept(row) |-> Step(row, InitConv(row, blocks), Kept(row)[i])]]

ForwardTemporal(row, blocks) ==
  [c \in Cols |-> LET i == c - New(row) + 1 IN
     IF i \in DOMAIN Kept(row) THEN Step(row, InitTemporal(row, blocks), Kept(row)[i])
     ELSE blocks[c]]

\* Rows a slot may be given: a chunk that ends at a block boundary or with the
\* prompt, a plain decode step, or K drafts to verify.  keep: the tokens of the
\* row that stay; sampled: num_sampled.
Chunks(s) == {n \in 1..(plen[s] - computed[s]) :
                (computed[s] + n) % BS = 0 \/ computed[s] + n = plen[s]}

Offers(s) ==
  IF computed[s] < plen[s]
  THEN {[s |-> s, n |-> n, d |-> 0, keep |-> n,
         sampled |-> IF computed[s] + n >= plen[s] THEN 1 ELSE 0] : n \in Chunks(s)}
  ELSE {[s |-> s, n |-> d + 1, d |-> d, keep |-> k, sampled |-> k] :
          d \in {0, K}, k \in 1..(K + 1)}

\* No batch beyond MaxPos.
Offered(row) == row.keep <= row.n /\ computed[row.s] + row.n <= MaxPos

\* A request whose sample is on its way waits for it.
Runnable == {s \in Slots : plen[s] # 0 /\ ~Pending(s)}

\* A step may be empty: the relay of an earlier one is consumed all the same.
Batches ==
  {batch \in UNION {[1..k -> UNION {Offers(s) : s \in Runnable}] : k \in 0..MaxReqs} :
     /\ \A i \in DOMAIN batch : Offered(batch[i])
     /\ \A i, j \in DOMAIN batch : i # j => batch[i].s # batch[j].s}

Rejected(row) == IF row.sampled = 0 THEN 0 ELSE row.d + 1 - row.sampled

\* The rows whose postprocessing is still to come: all of them on the last
\* rank, elsewhere those that are relayed.
Later(batch) == [i \in {j \in DOMAIN batch : IsLast \/ batch[j].sampled > 0} |-> batch[i]]

RowOf(batch, s) == batch[CHOOSE i \in DOMAIN batch : batch[i].s = s]

Run(batch) ==
  /\ Ready
  /\ LET In(s)  == \E i \in DOMAIN batch : batch[i].s = s
         Row(s) == RowOf(batch, s)
         Fill   == DOMAIN Later(batch) # DOMAIN batch
     IN /\ col' = [s \in Slots |-> IF In(s) THEN New(Row(s)) ELSE col[s]]
        /\ acc' = [s \in Slots |-> IF In(s) /\ (Fill \/ Crosses(Row(s))) THEN 1 ELSE acc[s]]
        /\ computed' = [s \in Slots |-> IF In(s) THEN computed[s] + Row(s).n ELSE computed[s]]
        /\ conv' = [s \in Slots |-> LET pre == PrecopiedConv(batch, s)
                                    IN IF In(s) THEN ForwardConv(Row(s), pre) ELSE pre]
        /\ temporal' = [s \in Slots |-> LET pre == PrecopiedTemporal(batch, s)
                                        IN IF In(s) THEN ForwardTemporal(Row(s), pre) ELSE pre]
  /\ queue' = Append(queue, Later(batch))
  /\ UNCHANGED <<launch, plen, entry, snap, todo>>

-----------------------------------------------------------------------------
(* postprocess_sampled: correct the counts, scatter num_accepted, then one  *)
(* kernel program for each row and state.                                   *)

Kinds == {"conv", "temporal"}

\* Mutant: a chunk that samples nothing leaves a count of zero.
Accepted_Raw(sampled) == sampled

\* _scatter_num_accepted_kernel: 1 is the neutral count.
Accepted(sampled) == IF sampled > 1 THEN sampled ELSE 1

Consume ==
  /\ todo = {} /\ Len(queue) = Depth
  /\ LET rows == Head(queue)
         In(s) == \E i \in DOMAIN rows : rows[i].s = s
         Row(s) == RowOf(rows, s)
     IN /\ computed' = [s \in Slots |-> IF In(s) THEN computed[s] - Rejected(Row(s))
                                        ELSE computed[s]]
        /\ acc' = [s \in Slots |-> IF In(s) THEN Accepted(Row(s).sampled) ELSE acc[s]]
        /\ snap' = acc'
        /\ entry' = rows
        /\ todo' = (DOMAIN rows) \X Kinds
  /\ queue' = Tail(queue)
  /\ UNCHANGED <<launch, plen, col, conv, temporal>>

\* Mutant: the programs read the buffer that one of them writes.
Decision_Live(s) == acc[s]

\* run_fused_postprocess_align: the programs read the snapshot.
Decision(s) == snap[s]

RunningTokens(s) == computed[s] - Decision(s) + 1
Aligned(s) == (computed[s] \div BS) * BS
Dest(s)    == Aligned(s) \div BS - 1

\* Mutant: only a state ahead of the window's first is saved.
NeedsCopy_Strict(s) == Aligned(s) > RunningTokens(s)

\* needs_copy: the boundary lies among the tokens the batch has left states of.
NeedsCopy(s) == Aligned(s) >= RunningTokens(s)

\* postprocess_mamba_fused_kernel: the program of row i for one kind of state.
Program(i, kind) ==
  /\ <<i, kind>> \in todo
  /\ todo' = todo \ {<<i, kind>>}
  /\ LET s    == entry[i].s
         x    == TableRow(i, s)
         bias == Aligned(s) - RunningTokens(s)
         copy == NeedsCopy(s) /\ ~(col[s] = Dest(s) /\ bias = 0)
     IN /\ acc' = IF NeedsCopy(s) /\ col[s] = Dest(s) /\ kind = "conv"
                  THEN [acc EXCEPT ![s] = 1] ELSE acc
        /\ conv' = IF copy /\ kind = "conv"
                   THEN [conv EXCEPT ![x] = CopyConv(@, col[s], Dest(s), bias)] ELSE conv
        /\ temporal' = IF copy /\ kind = "temporal"
                       THEN [temporal EXCEPT ![x] = CopyTemporal(@, col[s], Dest(s), bias)]
                       ELSE temporal
  /\ UNCHANGED <<launch, plen, computed, col, queue, entry, snap>>

-----------------------------------------------------------------------------
Init ==
  /\ launch \in Launches
  /\ plen = [s \in Slots |-> 0] /\ computed = [s \in Slots |-> 0]
  /\ acc = [s \in Slots |-> 1] /\ col = [s \in Slots |-> 0]
  /\ conv = [s \in Slots |-> JunkConv] /\ temporal = [s \in Slots |-> JunkTemporal]
  /\ queue = [i \in 1..(Depth - 1) |-> <<>>]
  /\ entry = <<>> /\ snap = [s \in Slots |-> 1] /\ todo = {}

Next ==
  \/ \E s \in Slots, hits, len \in 0..MaxPos : Admit(s, hits, len)
  \/ \E s \in Slots : Release(s)
  \/ Ready /\ \E batch \in Batches : Run(batch)
  \/ Consume
  \/ \E i \in DOMAIN entry, kind \in Kinds : Program(i, kind)

Spec == Init /\ [][Next]_vars

-----------------------------------------------------------------------------
Rows == [s : Slots, n : 1..MaxPos, d : {0, K}, keep : 1..MaxPos, sampled : 0..(K + 1)]
IsEntry(rows) == DOMAIN rows \subseteq 1..MaxReqs /\ rows \in [DOMAIN rows -> Rows]

(* Every variable keeps its shape: in particular a window and a copy stay   *)
(* within the block table, and the relay keeps its depth.                   *)
TypeOK ==
  /\ launch \in Launches
  /\ plen \in [Slots -> 0..MaxPos] /\ computed \in [Slots -> 0..MaxPos]
  /\ acc \in [Slots -> 1..(K + 1)] /\ snap \in [Slots -> 1..(K + 1)]
  /\ col \in [Slots -> -1..(MaxPos \div BS)]
  /\ conv \in [Slots -> [Cols -> UNION {[1..k -> State] : k \in 0..(K + 1)}]]
  /\ temporal \in [Slots -> [Cols -> State]]
  /\ Len(queue) \in (Depth - 1)..Depth
  /\ \A i \in DOMAIN queue : IsEntry(queue[i])
  /\ IsEntry(entry)
  /\ todo \subseteq (DOMAIN entry) \X Kinds

\* A request whose state the next step may read.
Settled(s) == Ready /\ plen[s] # 0 /\ ~Pending(s)

(* Between two steps, the place that col and num_accepted select holds the  *)
(* state of the request after exactly the tokens computed for it, in both   *)
(* kinds of state.                                                          *)
RunningExact ==
  \A s \in Slots : Settled(s) /\ computed[s] > 0 =>
    /\ At(conv[s][col[s]], acc[s] - 1) = After(s, computed[s])
    /\ temporal[s][col[s] + acc[s] - 1] = After(s, computed[s])

(* A block that ends at or behind the end of the prompt and is full holds   *)
(* the state at its end, where a request that hits it starts reading.       *)
CheckpointsExact ==
  \A s \in Slots : Settled(s) => \A c \in Cols :
    LET end == (c + 1) * BS IN plen[s] <= end /\ end <= computed[s] =>
      At(conv[s][c], 0) = After(s, end) /\ temporal[s][c] = After(s, end)
=============================================================================
