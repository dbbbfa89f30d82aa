------------------------------ MODULE SpecDrafter ------------------------------
(***************************************************************************)
(* The MTP drafter of the last pipeline rank                               *)
(* (spec_decode/autoregressive/speculator.py): after each step of the      *)
(* target it reads the step's batch again, shifted by one token, then      *)
(* drafts K - 1 more tokens one at a time.                                 *)
(*                                                                         *)
(* The batch is not compacted: a row keeps the places of its rejected      *)
(* tokens, its last true token is found by index, and the buffers hold     *)
(* what earlier steps left at every place a kernel does not write.  Draft  *)
(* steps overwrite the first places of the same buffers and put entries of *)
(* unverified tokens into the drafter's KV cache, which the next prefill   *)
(* has to replace.                                                         *)
(*                                                                         *)
(* Tokens and hidden states are symbols <<kind, s, p, k>>:                 *)
(*   T: token p of request s        H: the target's hidden state of token p *)
(*   D: the k-th draft behind p     G: the drafter's hidden state with it   *)
(***************************************************************************)
EXTENDS Integers, Sequences, FiniteSets

CONSTANT Launches   \* the launches that are looked at

ASSUME DrafterAssumption ==
  \A l \in Launches :
    /\ l.reqs \in Nat \ {0} /\ l.k \in Nat \ {0}
    /\ l.maxModelLen \in Nat \ {0, 1}
    /\ l.maxTokens \in Nat /\ l.maxTokens >= l.reqs
    /\ l.fused \in BOOLEAN

VARIABLES
  launch,    \* what the launch fixes
  plen,      \* [Slots -> prefill length; 0: no request]
  computed,  \* num_computed_tokens
  last,      \* last_sampled_tokens
  chunk,     \* next_prefill_tokens
  proposed,  \* req_states.draft_tokens
  batch,     \* the rows of the step: InputBatch
  ids, pos, hid,  \* input_ids, positions, hidden_states at each place
  lastIdx,   \* last_token_indices
  seq,       \* seq_lens of the drafter
  meta,      \* slot mapping and attention metadata: <<slot, seq_len>> of each row
  drafts,    \* draft_tokens, by row
  kv,        \* [Slots -> [Positions -> entry of the drafter's KV cache]]
  step,      \* current_draft_step
  phase      \* what propose does next

reqVars == <<plen, computed, last, chunk, proposed>>
buffers == <<ids, pos, hid, lastIdx, seq, meta, drafts>>
vars == <<launch, reqVars, batch, buffers, kv, step, phase>>

MaxReqs     == launch.reqs         \* request slots
K           == launch.k            \* num_speculative_steps
MaxModelLen == launch.maxModelLen  \* max_model_len
MaxTokens   == launch.maxTokens    \* max_num_tokens: places of the buffers
Fused       == launch.fused        \* use_fused_multi_step_decode: the backends allow it

Slots     == 1..MaxReqs
Rows      == 1..MaxReqs
Positions == 0..(MaxModelLen - 1)
Places    == 1..MaxTokens

T(s, p)    == <<"T", s, p, 0>>
H(s, p)    == <<"H", s, p, 0>>
D(s, p, k) == <<"D", s, p, k>>
G(s, p, k) == <<"G", s, p, k>>
Junk       == <<"junk", 0, 0, 0>>

\* A KV entry: the token and the hidden state it comes from, and its position.
Exact(s, p)          == <<T(s, p + 1), H(s, p), p>>
Provisional(s, p, k) == <<D(s, p, k - 1), G(s, p, k - 1), p + k>>
JunkEntry            == <<Junk, Junk, 0>>

-----------------------------------------------------------------------------
(* Rows.  A row schedules n tokens from position c, of which d are drafts   *)
(* to verify and `keep` stay.                                               *)

Rejected(row) == IF row.sampled = 0 THEN 0 ELSE row.d + 1 - row.sampled

\* query_start_loc.
Start(i) == LET f[j \in 1..i] == IF j = 1 THEN 1 ELSE f[j - 1] + batch[j - 1].n IN f[i]

\* Mutant: the padded length.
TrueLen_Padded(i) == batch[i].n

\* query_len without the rejected tokens.
TrueLen(i) == batch[i].n - Rejected(batch[i])

Spans(i, len, x) == Start(i) <= x /\ x < Start(i) + len
RowAt(x)         == CHOOSE i \in DOMAIN batch : Spans(i, batch[i].n, x)
Local(x)         == x - Start(RowAt(x))

TokenCount(rows) == LET f[j \in 0..Len(rows)] == IF j = 0 THEN 0 ELSE f[j - 1] + rows[j].n
                    IN f[Len(rows)]

\* What the target has read and computed at token j of a row.
TargetId(row, j)     == IF j < row.keep THEN T(row.s, row.c + j) ELSE Junk
TargetHidden(row, j) == IF j < row.keep THEN H(row.s, row.c + j) ELSE Junk

-----------------------------------------------------------------------------
(* The target's part of a step.                                             *)

Admit(s, len) ==
  /\ phase = "target" /\ plen[s] = 0
  /\ plen' = [plen EXCEPT ![s] = len]
  /\ UNCHANGED <<launch, computed, last, chunk, proposed, batch, buffers, kv, step, phase>>

\* A chunk of the prompt, or the last token with up to K drafts.
Offers(s) ==
  IF computed[s] < plen[s]
  THEN {[s |-> s, c |-> computed[s], n |-> n, d |-> 0, keep |-> n,
         sampled |-> IF computed[s] + n >= plen[s] THEN 1 ELSE 0] :
          n \in 1..(plen[s] - computed[s])}
  ELSE {[s |-> s, c |-> computed[s], n |-> d + 1, d |-> d, keep |-> k, sampled |-> k] :
          d \in 0..K, k \in 1..(K + 1)}

\* The scheduler keeps a batch below the last position.
Offered(row) == row.keep <= row.n /\ row.c + row.n <= MaxModelLen - 1

Batches ==
  {rows \in UNION {[1..k -> UNION {Offers(s) : s \in {x \in Slots : plen[x] # 0}}] : k \in Rows} :
     /\ \A i \in DOMAIN rows : Offered(rows[i])
     /\ \A i, j \in DOMAIN rows : i # j => rows[i].s # rows[j].s
     /\ TokenCount(rows) <= MaxTokens}

\* prepare_inputs (the prompt token behind a chunk), sample and postprocess_sampled.
Target(rows) ==
  /\ phase = "target"
  /\ batch' = rows
  /\ LET In(s)  == \E i \in DOMAIN rows : rows[i].s = s
         Row(s) == rows[CHOOSE i \in DOMAIN rows : rows[i].s = s]
         End(s) == Row(s).c + Row(s).n
     IN /\ computed' = [s \in Slots |-> IF In(s) THEN End(s) - Rejected(Row(s)) ELSE computed[s]]
        /\ last' = [s \in Slots |-> IF In(s) /\ Row(s).sampled > 0
                                    THEN T(s, Row(s).c + Row(s).keep) ELSE last[s]]
        /\ chunk' = [s \in Slots |-> IF In(s) /\ End(s) < plen[s] THEN T(s, End(s)) ELSE chunk[s]]
  /\ phase' = "prepare"
  /\ UNCHANGED <<launch, plen, proposed, buffers, kv, step>>

-----------------------------------------------------------------------------
(* Draft 0: the batch of the target, shifted by one.                        *)

\* Mutant: the row samples even when its prompt goes on.
NextToken_Sampled(row) == last[row.s]

\* What follows the row's last true token.
NextToken(row) == IF row.sampled > 0 THEN last[row.s] ELSE chunk[row.s]

\* propose and _prepare_prefill_inputs_kernel: the places behind a row's true
\* length keep their ids and positions.
PreparePrefill ==
  /\ phase = "prepare"
  /\ LET True(x) == \E i \in DOMAIN batch : Spans(i, TrueLen(i), x)
         Used(x) == \E i \in DOMAIN batch : Spans(i, batch[i].n, x)
         row(x)  == batch[RowAt(x)]
     IN /\ ids' = [x \in Places |->
               IF ~True(x) THEN ids[x]
               ELSE IF Local(x) = TrueLen(RowAt(x)) - 1 THEN NextToken(row(x))
               ELSE TargetId(row(x), Local(x) + 1)]
        /\ pos' = [x \in Places |-> IF True(x) THEN row(x).c + Local(x) ELSE pos[x]]
        /\ hid' = [x \in Places |-> IF Used(x) THEN TargetHidden(row(x), Local(x)) ELSE hid[x]]
  /\ lastIdx' = [i \in Rows |-> IF i \in DOMAIN batch THEN Start(i) + TrueLen(i) - 1 ELSE 1]
  /\ seq' = [i \in Rows |-> IF i \in DOMAIN batch THEN batch[i].c + batch[i].n ELSE 0]
  /\ step' = 0
  /\ phase' = "prefill"
  /\ UNCHANGED <<launch, reqVars, batch, meta, drafts, kv>>

\* The drafter's answer behind position p after k drafts.  It is that of the
\* sequence if the entries it attends to are, and it is sampled at its position.
Answers(s, entries, p, k, len, at) ==
  /\ len = p + k + 1 /\ at = p + k
  /\ \A q \in 0..p : entries[q] = Exact(s, q)
  /\ \A j \in 1..k : entries[p + j] = Provisional(s, p, j)

\* The forward pass writes an entry for every token of the batch, the rejected
\* ones included, into the target's slots.
Prefilled(s) ==
  [q \in Positions |->
     LET At == {x \in Places : \E i \in DOMAIN batch :
                  Spans(i, batch[i].n, x) /\ batch[i].s = s /\ batch[i].c + Local(x) = q}
     IN IF At = {} THEN kv[s][q]
        ELSE LET x == CHOOSE y \in At : TRUE IN <<ids[x], hid[x], pos[x]>>]

\* _prefill: each row samples at its last true token, then moves to place i.
Prefill ==
  /\ phase = "prefill"
  /\ kv' = [s \in Slots |-> Prefilled(s)]
  /\ LET p(i)   == batch[RowAt(lastIdx[i])].c + Local(lastIdx[i])
         s(i)   == batch[RowAt(lastIdx[i])].s
         Ok(i)  == Answers(s(i), Prefilled(s(i)), p(i), 0, p(i) + 1, pos[lastIdx[i]])
     IN /\ drafts' = [i \in Rows |-> IF i \in DOMAIN batch
              THEN [drafts[i] EXCEPT ![0] = IF Ok(i) THEN D(s(i), p(i), 0) ELSE Junk]
              ELSE drafts[i]]
        /\ hid' = [x \in Places |-> IF x \in DOMAIN batch
              THEN IF Ok(x) THEN G(s(x), p(x), 0) ELSE Junk
              ELSE hid[x]]
        /\ pos' = [x \in Places |-> IF x \in DOMAIN batch THEN pos[lastIdx[x]] ELSE pos[x]]
  /\ phase' = IF K = 1 THEN "store" ELSE "decode"
  /\ UNCHANGED <<launch, reqVars, batch, ids, lastIdx, seq, meta, step>>

-----------------------------------------------------------------------------
(* Drafts 1 to K - 1: one token of each row.                                *)

\* Mutant: no clamp at the model length.
Advanced_Unclamped(x, limit) == x + 1

Advanced(x, limit) == IF x + 1 < limit THEN x + 1 ELSE limit

\* compute_slot_mappings and the metadata of the draft decode.
Metadata(positions, lens) == [i \in Rows |-> <<positions[i], lens[i]>>]

\* Mutant: the target's length, rejected tokens included.
SeqLen_Padded(row) == row.c + row.n

SeqLen(row) == row.c + row.n - Rejected(row)

\* _prepare_decode_inputs_kernel; the fused loop is given its first metadata.
PrepareDecode ==
  /\ phase = "decode"
  /\ ids' = [x \in Places |-> IF x \in DOMAIN batch THEN drafts[x][0] ELSE ids[x]]
  /\ pos' = [x \in Places |-> IF x \in DOMAIN batch THEN Advanced(pos[x], MaxModelLen - 1)
                              ELSE pos[x]]
  /\ seq' = [i \in Rows |-> IF i \in DOMAIN batch
        THEN Advanced(SeqLen(batch[i]), MaxModelLen) ELSE 0]
  /\ meta' = IF Fused THEN Metadata(pos', seq') ELSE meta
  /\ step' = 1
  /\ phase' = "draft"
  /\ UNCHANGED <<launch, reqVars, batch, hid, lastIdx, drafts, kv>>

\* Is there another draft step behind this one?
More == step < K - 1

\* _multi_step_decode builds the metadata in front of each step.
Current == IF Fused THEN meta ELSE Metadata(pos, seq)

\* Mutant: the metadata of the first draft step serves the others.
Refreshed_Never(positions, lens) == Current

\* _generate_fused_drafts refreshes it behind each step but the last.
Refreshed(positions, lens) ==
  IF Fused /\ More THEN Metadata(positions, lens) ELSE Current

\* _update_draft_inputs_kernel: the last step leaves the inputs alone.
UpdateDraftInputs(tokens, hiddens) ==
  LET Moves(x) == x \in DOMAIN batch /\ More
  IN /\ drafts' = [i \in Rows |-> IF i \in DOMAIN batch
                   THEN [drafts[i] EXCEPT ![step] = tokens[i]] ELSE drafts[i]]
     /\ ids' = [x \in Places |-> IF Moves(x) THEN tokens[x] ELSE ids[x]]
     /\ hid' = [x \in Places |-> IF Moves(x) THEN hiddens[x] ELSE hid[x]]
     /\ pos' = [x \in Places |-> IF Moves(x) THEN Advanced(pos[x], MaxModelLen - 1) ELSE pos[x]]
     /\ seq' = [i \in Rows |-> IF Moves(i) THEN Advanced(seq[i], MaxModelLen) ELSE seq[i]]

\* _generate_draft: one entry for each row, then its answer.
Draft ==
  /\ phase = "draft"
  /\ LET s(i)     == batch[i].s
         base(i)  == batch[i].c + batch[i].keep - 1
         after(i) == [kv[s(i)] EXCEPT ![Current[i][1]] = <<ids[i], hid[i], pos[i]>>]
         Ok(i)    == base(i) + step <= MaxModelLen - 1
                     /\ Answers(s(i), after(i), base(i), step, Current[i][2], pos[i])
     IN /\ kv' = [t \in Slots |-> IF \E i \in DOMAIN batch : s(i) = t
                  THEN after(CHOOSE i \in DOMAIN batch : s(i) = t) ELSE kv[t]]
        /\ UpdateDraftInputs(
             [i \in DOMAIN batch |-> IF Ok(i) THEN D(s(i), base(i), step) ELSE Junk],
             [i \in DOMAIN batch |-> IF Ok(i) THEN G(s(i), base(i), step) ELSE Junk])
  /\ meta' = Refreshed(pos', seq')
  /\ step' = IF More THEN step + 1 ELSE step
  /\ phase' = IF More THEN "draft" ELSE "store"
  /\ UNCHANGED <<launch, reqVars, batch, lastIdx>>

\* sample_tokens: req_states.draft_tokens[idx_mapping] = draft_tokens.
Store ==
  /\ phase = "store"
  /\ proposed' = [s \in Slots |-> IF \E i \in DOMAIN batch : batch[i].s = s
                  THEN drafts[CHOOSE i \in DOMAIN batch : batch[i].s = s] ELSE proposed[s]]
  /\ phase' = "target"
  /\ UNCHANGED <<launch, plen, computed, last, chunk, batch, buffers, kv, step>>

-----------------------------------------------------------------------------
NoDrafts == [k \in 0..(K - 1) |-> Junk]

Init ==
  /\ launch \in Launches
  /\ plen = [s \in Slots |-> 0] /\ computed = [s \in Slots |-> 0]
  /\ last = [s \in Slots |-> Junk] /\ chunk = [s \in Slots |-> Junk]
  /\ proposed = [s \in Slots |-> NoDrafts]
  /\ batch = <<>>
  /\ ids = [x \in Places |-> Junk] /\ pos = [x \in Places |-> 0] /\ hid = [x \in Places |-> Junk]
  /\ lastIdx = [i \in Rows |-> 1] /\ seq = [i \in Rows |-> 0]
  /\ meta = [i \in Rows |-> <<0, 0>>] /\ drafts = [i \in Rows |-> NoDrafts]
  /\ kv = [s \in Slots |-> [q \in Positions |-> JunkEntry]]
  /\ step = 0 /\ phase = "target"

Next ==
  \/ \E s \in Slots, len \in 1..(MaxModelLen - 1) : Admit(s, len)
  \/ phase = "target" /\ \E rows \in Batches : Target(rows)
  \/ PreparePrefill
  \/ Prefill
  \/ PrepareDecode
  \/ Draft
  \/ Store

Spec == Init /\ [][Next]_vars

-----------------------------------------------------------------------------
Symbol == {Junk} \cup ({"T", "H", "D", "G"} \X Slots \X (0..MaxModelLen) \X (0..K))

(* Every variable keeps its shape: in particular positions, slots and       *)
(* sequence lengths stay within the model length.                           *)
TypeOK ==
  /\ launch \in Launches
  /\ plen \in [Slots -> 0..(MaxModelLen - 1)] /\ computed \in [Slots -> Positions]
  /\ last \in [Slots -> Symbol] /\ chunk \in [Slots -> Symbol]
  /\ proposed \in [Slots -> [0..(K - 1) -> Symbol]]
  /\ ids \in [Places -> Symbol] /\ pos \in [Places -> Positions] /\ hid \in [Places -> Symbol]
  /\ lastIdx \in [Rows -> Places] /\ seq \in [Rows -> 0..MaxModelLen]
  /\ meta \in [Rows -> Positions \X (0..MaxModelLen)]
  /\ drafts \in [Rows -> [0..(K - 1) -> Symbol]]
  /\ kv \in [Slots -> [Positions -> Symbol \X Symbol \X Positions]]
  /\ step \in 0..K
  /\ phase \in {"target", "prepare", "prefill", "decode", "draft", "store"}

(* Between two steps the drafter's cache holds, for every computed token,   *)
(* the entry made of the target's hidden state and of the token that        *)
(* followed: no entry of a rejected token or of a draft is left there.      *)
KvExact ==
  phase = "target" => \A s \in Slots : \A p \in 0..(computed[s] - 1) : kv[s][p] = Exact(s, p)

(* The drafts a request carries into its next step continue exactly its     *)
(* computed tokens, each drafted from the sequence before it, up to the     *)
(* model length.                                                            *)
DraftsSound ==
  phase = "target" => \A s \in Slots : computed[s] > 0 =>
    \A k \in 0..(K - 1) : computed[s] - 1 + k <= MaxModelLen - 1 =>
      proposed[s][k] = D(s, computed[s] - 1, k)
=============================================================================
