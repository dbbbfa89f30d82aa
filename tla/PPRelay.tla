------------------------------- MODULE PPRelay -------------------------------
(***************************************************************************)
(* The pipeline-parallel relay of sampled and draft tokens                 *)
(* (v1/worker/gpu/pp_utils.py) together with the parts of the V2 model     *)
(* runner that drive it (v1/worker/gpu/model_runner.py).                   *)
(*                                                                         *)
(* Every rank executes the same sequence of scheduler outputs.  Rank       *)
(* PPSize samples; the other ranks learn what was sampled from broadcasts  *)
(* on a communicator of their own and apply it when they begin the step    *)
(* PPSize steps later.  Meanwhile slots are freed and given to other       *)
(* requests.  What has to be right: the ranks post the same collectives in *)
(* the same order, and at every step every rank builds the same input.     *)
(*                                                                         *)
(* A token is named by the step that produced it.  A scheduler step lists, *)
(* for each request it runs, the row the model runner makes of it:         *)
(*   c    num_computed_tokens (CPU mirror)     n   num_scheduled_tokens    *)
(*   d    number of draft tokens to verify     plen  prefill_len           *)
(***************************************************************************)
EXTENDS Integers, Sequences, FiniteSets

CONSTANTS
  PPSize,       \* pipeline stages: get_pp_group().world_size
  Reqs,         \* request ids
  Slots,        \* request indices of RequestStates (max_num_reqs of them)
  NoReq,        \* a slot that holds no request
  K,            \* num_speculative_steps
  Speculative,  \* speculative_config is not None
  Plens,        \* prefill lengths a request may arrive with
  MaxLen,       \* max_seq_len of every request
  MaxInFlight,  \* steps scheduled and not yet processed by the engine
  MaxSteps,     \* bound: scheduler steps
  MaxAborts     \* bound: requests removed before they reach MaxLen

ASSUME RelayAssumption ==
  /\ PPSize \in Nat \ {0, 1}
  /\ K \in Nat
  /\ Speculative \in BOOLEAN
  /\ Speculative => K > 0
  /\ Plens \subseteq Nat \ {0}
  /\ MaxLen \in Nat
  /\ MaxInFlight \in Nat
  /\ MaxSteps \in Nat
  /\ MaxAborts \in Nat
  /\ NoReq \notin Reqs
  /\ IsFiniteSet(Reqs)

Ranks   == 1..PPSize
Last    == PPSize
NonLast == Ranks \ {Last}

VARIABLES
  \* The scheduler (outside this repository) and the history of its outputs.
  sched,     \* Seq of [gone, new, rows]
  job,       \* [Reqs -> what the scheduler knows of the request]
  seen,      \* steps whose results the engine has processed
  aborts,
  \* One model runner per rank.
  step,      \* [Ranks -> steps completed]
  phase,     \* [Ranks -> "idle" | "ran"]: "ran" iff execute_model_state is set
  req,       \* [Ranks -> [Slots -> request]]: the inverse of req_id_to_index
  computed,  \* num_computed_tokens on the GPU
  last,      \* last_sampled_tokens
  draft,     \* draft_tokens
  acc,       \* num_accepted_tokens_gpu of the mamba model state
  gen,       \* req_idx_gen_np
  queue,     \* PPHandler.queue
  input,     \* [Ranks -> the input the rank built for its current step]
  got,       \* [Ranks -> the input the received hidden states come from]
  hidden,    \* [NonLast -> hidden states on their way to the next rank]
  \* The broadcast communicator.
  sent,      \* Seq of shapes: the last rank's collectives
  data,      \* what they carry: for each collective, a value for each row
  posted,    \* [NonLast -> Seq of shapes]: the other ranks' collectives
  opEnd,     \* history: opEnd[t + 1] collectives belong to steps 1..t
  result     \* by step, for each row: num_sampled, and the history of
             \* num_computed_tokens as the step leaves it on the last rank

schedVars == <<sched, job, seen, aborts, opEnd>>
slotVars  == <<req, computed, last, draft, acc, gen>>
pipeVars  == <<input, got, hidden>>
commVars  == <<sent, data, posted, result>>
vars == <<schedVars, step, phase, slotVars, queue, pipeVars, commVars>>

Empty   == [r \in {} |-> 0]
NoEntry == [slot |-> Empty, gen |-> Empty, need |-> {}, at |-> 0]

-----------------------------------------------------------------------------
(* Which rows are relayed, and with which collectives.                      *)

MaxSampleLen == K + 1
Prefilling(row) == row.c < row.plen

\* compute_need_sampled_mask, `produces_sample`.
ProducesSample(row) == row.c + row.n >= row.plen

\* compute_need_sampled_mask, `not_finishing`.
NotFinishing(row) == (IF row.c > row.plen THEN row.c ELSE row.plen) + 1 < MaxLen

\* compute_need_sampled_mask; the empty set is its None.
Need(rows) == {r \in DOMAIN rows : ProducesSample(rows[r]) /\ NotFinishing(rows[r])}

\* num_rejected of a row from which the sampler kept `sampled` tokens.
Rejected(row, sampled) == IF sampled = 0 THEN 0 ELSE row.d + 1 - sampled

\* Mutant: the flag comes from self.speculator, which only the last rank has.
RelayDraftTokens_FromSpeculator(p) == Speculative /\ p = Last

\* relay_draft_tokens: the number of broadcasts per step must be the same on
\* every rank, so it comes from the configuration.
RelayDraftTokens(p) == Speculative

\* The sampler emits one column unless some row verifies drafts.
SampledWidth(rows) == IF \A r \in DOMAIN rows : rows[r].d = 0 THEN 1 ELSE K + 1

\* Mutant: the sampler's width goes on the wire.
PaddedWidth_Unpadded(w) == w

\* broadcast pads the sampled tokens to the width that `receive` posts.
PaddedWidth(w) == IF w # MaxSampleLen THEN MaxSampleLen ELSE w

Shapes(p, rows, width) ==
  IF Need(rows) = {} THEN <<>>
  ELSE <<<<"sampled", Cardinality(DOMAIN rows), width>>,
         <<"combined", Cardinality(DOMAIN rows), 2>>>>
       \o (IF RelayDraftTokens(p)
           THEN <<<<"draft", Cardinality(DOMAIN rows), MaxSampleLen - 1>>>> ELSE <<>>)

\* What rank p's `receive` posts for a step.
Recvs(p, rows) == Shapes(p, rows, MaxSampleLen)

\* Mutant: broadcast_draft is skipped when this step verified no drafts.
Sends_DraftIfVerified(rows) ==
  LET all == Shapes(Last, rows, PaddedWidth(SampledWidth(rows)))
  IN IF SampledWidth(rows) = 1 /\ all # <<>> THEN SubSeq(all, 1, 2) ELSE all

\* What the last rank's `broadcast` and `broadcast_draft` send for a step.
Sends(rows) == Shapes(Last, rows, PaddedWidth(SampledWidth(rows)))

-----------------------------------------------------------------------------
(* The scheduler, as the model runner relies on it: a request that samples  *)
(* comes back PPSize steps later at the earliest, with the tokens that its  *)
(* latest run may have rejected counted as computed while the result is not *)
(* known; a non-final prefill chunk may be followed up immediately.         *)

Live == {r \in Reqs : job[r].live}
Now  == Len(sched) + 1

\* The rows request r can be given in the next step.
Offers(r, j) ==
  IF j.c < j.plen
  THEN {[c |-> j.c, n |-> n, d |-> 0, plen |-> j.plen] : n \in 1..(j.plen - j.c)}
  ELSE {[c |-> j.c, n |-> 1 + d, d |-> d, plen |-> j.plen] : d \in {0, K}}

\* A step still in flight adds a token at least: do not schedule past the end.
Eligible(j) == /\ j.live /\ ~j.done /\ Now >= j.due
               /\ j.awaits > seen => j.len + 1 < MaxLen

\* since: the step that (re)introduced the request; len: its tokens as far as
\* the scheduler knows; awaits: its last sampling step; due: its next one.
Arrived(l) == [live |-> TRUE, done |-> FALSE, since |-> Now, c |-> 0, len |-> l,
               plen |-> l, awaits |-> 0, due |-> 0]
Absent == [live |-> FALSE, done |-> FALSE, since |-> 0, c |-> 0, len |-> 1,
           plen |-> 1, awaits |-> 0, due |-> 0]

AfterRow(j, row) ==
  IF ProducesSample(row)
  THEN [j EXCEPT !.c = @ + row.n, !.due = Now + PPSize, !.awaits = Now]
  ELSE [j EXCEPT !.c = @ + row.n]

\* The requests as they are once `gone` are removed and `new` has (re)arrived.
Rebased(gone, new, l) ==
  [r \in Reqs |-> IF r \in new THEN Arrived(l) ELSE IF r \in gone THEN Absent ELSE job[r]]

\* The removals that are not the end of a request: aborts and preemptions.
CutShort(gone, new) == {r \in gone \cup (new \cap Live) : ~job[r].done}

\* What a step can run: the new requests, and others that are eligible.
Batches(new, base) ==
  UNION {{rows \in [S \cup new -> UNION {Offers(r, base[r]) : r \in S \cup new}] :
            \A r \in S \cup new : rows[r] \in Offers(r, base[r])} :
         S \in SUBSET {r \in Reqs \ new : Eligible(base[r])}}

Emit(gone, new, base, rows) ==
  /\ sched' = Append(sched, [gone |-> gone, new |-> new, rows |-> rows])
  /\ opEnd' = Append(opEnd, opEnd[Now] + Len(Sends(rows)))
  /\ job' = [r \in Reqs |-> IF r \in DOMAIN rows THEN AfterRow(base[r], rows[r]) ELSE base[r]]
  /\ aborts' = aborts + Cardinality(CutShort(gone, new))

Schedule ==
  /\ Len(sched) < MaxSteps
  /\ Len(sched) - seen < MaxInFlight
  /\ \E gone \in SUBSET Live, new \in {{}} \cup {{r} : r \in Reqs}, len \in Plens :
       /\ {r \in Live : job[r].done} \subseteq gone
       /\ aborts + Cardinality(CutShort(gone, new)) <= MaxAborts
       /\ Cardinality((Live \ gone) \cup new) <= Cardinality(Slots)
       /\ LET base == Rebased(gone, new, len)
          IN \E rows \in Batches(new, base) : Emit(gone, new, base, rows)
  /\ UNCHANGED <<seen, step, phase, slotVars, queue, pipeVars, commVars>>

\* The engine learns what a step sampled, takes back the rejected drafts and
\* finishes a request that has reached its length.
ProcessOutput ==
  /\ seen < Len(result)
  /\ seen' = seen + 1
  /\ LET rows == sched[seen + 1].rows
         f    == result[seen + 1]
         Back(r) == job[r].live /\ job[r].since <= seen + 1 /\ r \in DOMAIN rows
     IN job' = [r \in Reqs |->
          IF Back(r)
          THEN [job[r] EXCEPT !.c = @ - Rejected(rows[r], f[r].sampled),
                              !.len = @ + f[r].sampled,
                              !.done = job[r].len + f[r].sampled >= MaxLen]
          ELSE job[r]]
  /\ UNCHANGED <<sched, aborts, opEnd, step, phase, slotVars, queue, pipeVars, commVars>>

-----------------------------------------------------------------------------
(* execute_model: first consume the relay of PPSize steps ago, then free,   *)
(* then add, then build the inputs and run the forward pass.                *)

\* Mutant: the generation counters are not compared.
Fresh_AnyGeneration(p, e) == e.need

\* get_prev_sampled_outputs: the rows whose slot was not freed since `receive`.
Fresh(p, e) == {r \in e.need : gen[p][e.slot[r]] = e.gen[r]}

\* Mutant: the entry of the step is not reserved.
Reserve_PopOnly(q) == Tail(q)

\* PPHandler.get_prev_sampled_outputs: pop the oldest entry, reserve this step's.
Reserve(q) == Append(Tail(q), NoEntry)

\* wait_event: every collective of the entry has been matched by the last rank.
Arrival(p, e) == Len(sent) >= e.at + (IF RelayDraftTokens(p) THEN 2 ELSE 1)

\* update_pp_decode_requests on rank p: the slots as the deferred
\* postprocess_sampled leaves them.
Consumed(p, e) ==
  LET fresh   == Fresh(p, e)
      Hit(s)  == \E r \in fresh : e.slot[r] = s
      Row(s)  == CHOOSE r \in fresh : e.slot[r] = s
      Comb(s) == data[e.at + 1][Row(s)]
  IN [computed |-> [s \in Slots |-> IF Hit(s) THEN computed[p][s] - Comb(s).rejected
                                    ELSE computed[p][s]],
      last     |-> [s \in Slots |-> IF Hit(s) THEN data[e.at][Row(s)] ELSE last[p][s]],
      acc      |-> [s \in Slots |-> IF Hit(s) THEN Comb(s).sampled ELSE acc[p][s]],
      draft    |-> [s \in Slots |-> IF Hit(s) /\ RelayDraftTokens(p)
                                    THEN data[e.at + 2][Row(s)] ELSE draft[p][s]]]

\* The last rank has nothing to consume: its queue is empty.
Current(p) == [computed |-> computed[p], last |-> last[p], acc |-> acc[p], draft |-> draft[p]]

\* finish_requests and the _remove_request that opens add_requests.
Freed(p, o) == {s \in Slots : req[p][s] \in o.gone \cup o.new}

\* Mutant: a freed slot is not reported to the PP handler.
BumpGen_Never(g, freed) == g

\* _remove_request calls on_req_idx_freed once for each slot it frees.
BumpGen(g, freed) == [s \in Slots |-> IF s \in freed THEN g[s] + 1 ELSE g[s]]

\* combine_sampled_and_draft_tokens and the metadata of the forward pass: what
\* row r of the batch is computed from.
RowInput(row, pos, tok, drf, a) ==
  [pos |-> pos, acc |-> a,
   tok |-> IF Prefilling(row) THEN 0 ELSE tok,
   drf |-> IF row.d = 0 THEN 0 ELSE drf]

SlotOf(slots, r) == CHOOSE s \in Slots : slots[s] = r

\* The request states after update_requests, with the consumed tables `t` and
\* new request r put in slot place[r].
BeginStep(p, o, t, place) ==
  LET freed  == Freed(p, o)
      Put(s) == \E r \in o.new : place[r] = s
      slots  == [s \in Slots |-> IF Put(s) THEN CHOOSE r \in o.new : place[r] = s
                                 ELSE IF s \in freed THEN NoReq ELSE req[p][s]]
      comp   == [s \in Slots |-> IF Put(s) THEN 0 ELSE t.computed[s]]
      accs   == [s \in Slots |-> IF Put(s) THEN 1 ELSE t.acc[s]]
  IN /\ req' = [req EXCEPT ![p] = slots]
     /\ gen' = [gen EXCEPT ![p] = BumpGen(gen[p], freed)]
     /\ computed' = [computed EXCEPT ![p] = comp]
     /\ acc' = [acc EXCEPT ![p] = accs]
     /\ last' = [last EXCEPT ![p] = t.last]
     /\ draft' = [draft EXCEPT ![p] = t.draft]
     /\ input' = [input EXCEPT ![p] = [r \in DOMAIN o.rows |->
                    LET s == SlotOf(slots, r)
                    IN RowInput(o.rows[r], comp[s], t.last[s], t.draft[s], accs[s])]]

\* add_request takes any free slot.
Places(p, o) ==
  {f \in [o.new -> Slots] :
     \A r \in o.new : req[p][f[r]] = NoReq \/ f[r] \in Freed(p, o)}

Begin(p, o) ==
  \E place \in Places(p, o) :
    IF p = Last
    THEN BeginStep(p, o, Current(p), place) /\ UNCHANGED queue
    ELSE LET e == Head(queue[p])
         IN /\ Fresh(p, e) # {} => Arrival(p, e)
            /\ BeginStep(p, o, Consumed(p, e), place)
            /\ queue' = [queue EXCEPT ![p] = Reserve(@)]

\* A step with tokens: the hidden states come from the rank before and go to
\* the rank behind.
Execute(p) ==
  /\ phase[p] = "idle" /\ step[p] < Len(sched)
  /\ phase' = [phase EXCEPT ![p] = "ran"]
  /\ LET o == sched[step[p] + 1]
     IN /\ o.rows # Empty
        /\ p > 1 => hidden[p - 1] # <<>>
        /\ Begin(p, o)
        /\ got' = [got EXCEPT ![p] = IF p = 1 THEN input'[p] ELSE Head(hidden[p - 1])]
        /\ hidden' = [q \in NonLast |-> IF q = p THEN Append(hidden[q], input'[p])
                                        ELSE IF q = p - 1 THEN Tail(hidden[q])
                                        ELSE hidden[q]]
  /\ UNCHANGED <<schedVars, step, commVars>>

\* total_num_scheduled_tokens = 0: the states are updated, nothing runs and
\* sample_tokens has nothing to do.
ExecuteEmpty(p) ==
  /\ phase[p] = "idle" /\ step[p] < Len(sched)
  /\ sched[step[p] + 1].rows = Empty
  /\ step' = [step EXCEPT ![p] = @ + 1]
  /\ Begin(p, sched[step[p] + 1])
  /\ result' = IF p = Last THEN Append(result, Empty) ELSE result
  /\ UNCHANGED <<schedVars, phase, got, hidden, sent, data, posted>>

-----------------------------------------------------------------------------
(* sample_tokens.                                                           *)

Rows(p) == sched[step[p] + 1].rows
Index(p, r) == SlotOf(req[p], r)

\* Mutant: the non-last ranks count one token per row, as without drafts.
Advance_One(c, n) == c + 1

\* postprocess_num_computed_tokens: the non-last ranks count every scheduled
\* token and take the rejected ones back when the relay arrives.
Advance(c, n) == c + n

\* PPHandler.receive fills the slot that get_prev_sampled_outputs reserved.
Fill(q, e) == [q EXCEPT ![PPSize] = e]

\* The non-last ranks: PPHandler.receive, the optimistic count, and the reset
\* of the accepted-token counts unless every row is relayed.
Receive(p) ==
  LET rows == Rows(p)
      need == Need(rows)
      Of(s) == req[p][s] \in DOMAIN rows
      e == [slot |-> [r \in DOMAIN rows |-> Index(p, r)],
            gen  |-> [r \in DOMAIN rows |-> gen[p][Index(p, r)]],
            need |-> need, at |-> Len(posted[p]) + 1]
  IN /\ phase[p] = "ran"
     /\ phase' = [phase EXCEPT ![p] = "idle"]
     /\ queue' = IF need = {} THEN queue ELSE [queue EXCEPT ![p] = Fill(@, e)]
     /\ posted' = [posted EXCEPT ![p] = @ \o Recvs(p, rows)]
     /\ computed' = [computed EXCEPT ![p] = [s \in Slots |->
          IF Of(s) THEN Advance(computed[p][s], rows[req[p][s]].n) ELSE computed[p][s]]]
     /\ acc' = [acc EXCEPT ![p] = [s \in Slots |->
          IF Of(s) /\ need # DOMAIN rows THEN 1 ELSE acc[p][s]]]
     /\ step' = [step EXCEPT ![p] = @ + 1]
     /\ UNCHANGED <<schedVars, req, last, draft, gen, pipeVars, sent, data, result>>

\* What the sampler can return: a row that produces a sample keeps some of its
\* drafts and one more token; a non-final prefill chunk samples nothing.
Outcomes(rows) ==
  {f \in [DOMAIN rows -> 0..MaxSampleLen] :
     \A r \in DOMAIN rows :
       f[r] \in (IF ProducesSample(rows[r]) THEN 1..(rows[r].d + 1) ELSE {0})}

\* What the collectives of step t carry: sampled, combined, draft.
Payload(rows, f, t) ==
  [k \in 1..Len(Sends(rows)) |->
     [r \in DOMAIN rows |->
        IF k = 2 THEN [sampled |-> f[r], rejected |-> Rejected(rows[r], f[r])] ELSE t]]

\* The last rank: sample, broadcast, postprocess_sampled, propose, store the
\* drafts and broadcast_draft.
Sample ==
  /\ phase[Last] = "ran"
  /\ phase' = [phase EXCEPT ![Last] = "idle"]
  /\ LET rows == Rows(Last)
         t    == step[Last] + 1
         Of(s) == req[Last][s] \in DOMAIN rows
         Q(s) == req[Last][s]
     IN \E f \in Outcomes(rows) :
          /\ sent' = sent \o Sends(rows)
          /\ data' = data \o Payload(rows, f, t)
          /\ computed' = [computed EXCEPT ![Last] = [s \in Slots |->
               IF Of(s) THEN computed[Last][s] + rows[Q(s)].n - Rejected(rows[Q(s)], f[Q(s)])
               ELSE computed[Last][s]]]
          /\ result' = Append(result, [r \in DOMAIN rows |->
               [sampled |-> f[r], computed |-> computed'[Last][Index(Last, r)]]])
          /\ last' = [last EXCEPT ![Last] = [s \in Slots |->
               IF Of(s) /\ f[Q(s)] > 0 THEN t ELSE last[Last][s]]]
          /\ acc' = [acc EXCEPT ![Last] = [s \in Slots |->
               IF Of(s) THEN (IF f[Q(s)] > 1 THEN f[Q(s)] ELSE 1) ELSE acc[Last][s]]]
          /\ draft' = [draft EXCEPT ![Last] = [s \in Slots |->
               IF Of(s) /\ Speculative THEN t ELSE draft[Last][s]]]
  /\ step' = [step EXCEPT ![Last] = @ + 1]
  /\ UNCHANGED <<schedVars, req, gen, queue, pipeVars, posted>>

-----------------------------------------------------------------------------
Init ==
  /\ sched = <<>> /\ job = [r \in Reqs |-> Absent] /\ seen = 0 /\ aborts = 0
  /\ opEnd = <<0>>
  /\ step = [p \in Ranks |-> 0] /\ phase = [p \in Ranks |-> "idle"]
  /\ req = [p \in Ranks |-> [s \in Slots |-> NoReq]]
  /\ computed = [p \in Ranks |-> [s \in Slots |-> 0]]
  /\ last = [p \in Ranks |-> [s \in Slots |-> 0]]
  /\ draft = [p \in Ranks |-> [s \in Slots |-> 0]]
  /\ acc = [p \in Ranks |-> [s \in Slots |-> 1]]
  /\ gen = [p \in Ranks |-> [s \in Slots |-> 0]]
  /\ queue = [p \in NonLast |-> [i \in 1..PPSize |-> NoEntry]]
  /\ input = [p \in Ranks |-> Empty] /\ got = [p \in Ranks |-> Empty]
  /\ hidden = [p \in NonLast |-> <<>>]
  /\ sent = <<>> /\ data = <<>> /\ posted = [p \in NonLast |-> <<>>] /\ result = <<>>

\* The bound is reached and every rank has caught up.
Finished ==
  /\ Len(sched) = MaxSteps /\ \A p \in Ranks : step[p] = MaxSteps
  /\ seen = MaxSteps
  /\ UNCHANGED vars

Next ==
  \/ Schedule
  \/ ProcessOutput
  \/ \E p \in Ranks : Execute(p) \/ ExecuteEmpty(p)
  \/ \E p \in NonLast : Receive(p)
  \/ Sample
  \/ Finished

Spec == Init /\ [][Next]_vars

\* Each rank's worker process keeps executing what it is handed.
Fairness ==
  /\ \A p \in Ranks : WF_vars(Execute(p)) /\ WF_vars(ExecuteEmpty(p))
  /\ \A p \in NonLast : WF_vars(Receive(p))
  /\ WF_vars(Sample)
  /\ WF_vars(ProcessOutput)

FairSpec == Spec /\ Fairness

-----------------------------------------------------------------------------
Row   == [c : Int, n : Nat, d : Nat, plen : Nat]
Job   == [live : BOOLEAN, done : BOOLEAN, since : Nat, c : Int, len : Nat,
          plen : Nat, awaits : Nat, due : Nat]
Shape == {"sampled", "combined", "draft"} \X Nat \X Nat

Output(o) == /\ o.gone \subseteq Reqs /\ o.new \subseteq Reqs
             /\ DOMAIN o.rows \subseteq Reqs /\ o.rows \in [DOMAIN o.rows -> Row]

Answers(f, rows) == /\ DOMAIN f = DOMAIN rows
                    /\ \A r \in DOMAIN rows : f[r].sampled \in 0..MaxSampleLen

(* Every variable keeps its shape, every result answers the rows of its     *)
(* step, and the FIFO of a non-last rank always has exactly PPSize entries, *)
(* so that a relay is consumed PPSize steps later.                          *)
TypeOK ==
  /\ \A t \in DOMAIN sched : Output(sched[t])
  /\ job \in [Reqs -> Job] /\ aborts \in Nat
  /\ step \in [Ranks -> 0..Len(sched)] /\ phase \in [Ranks -> {"idle", "ran"}]
  /\ \A p \in Ranks : phase[p] = "ran" => step[p] < Len(sched)
  /\ req \in [Ranks -> [Slots -> Reqs \cup {NoReq}]]
  /\ gen \in [Ranks -> [Slots -> Nat]]
  /\ \A p \in NonLast : Len(queue[p]) = PPSize
  /\ sent \in Seq(Shape) /\ posted \in [NonLast -> Seq(Shape)]
  /\ opEnd \in Seq(Nat) /\ Len(opEnd) = Len(sched) + 1
  /\ Len(result) = step[Last] /\ seen \in 0..Len(result)
  /\ \A t \in DOMAIN result : Answers(result[t], sched[t].rows)

(* The k-th collective that a rank posts on the broadcast communicator is   *)
(* the k-th that the last rank posts, with the same element count: NCCL     *)
(* matches by order, and a mismatch hangs the pipeline.                     *)
CollectivesMatch ==
  \A p \in NonLast : \A k \in DOMAIN posted[p] \cap DOMAIN sent :
    posted[p][k] = sent[k]

(* Step t runs r in the life that its run in step u belongs to.             *)
SameLife(r, u, t) ==
  /\ r \in DOMAIN sched[u].rows \cap DOMAIN sched[t].rows
  /\ \A w \in (u + 1)..t : r \notin sched[w].gone \cup sched[w].new

(* Step t runs r again after a run of this life whose sample is not relayed. *)
Withheld(r, t) ==
  \E u \in 1..(t - 1) : /\ SameLife(r, u, t)
                        /\ ProducesSample(sched[u].rows[r])
                        /\ r \notin Need(sched[u].rows)

(* compute_need_sampled_mask marks the requests with outputs that might be  *)
(* needed in a subsequent step (pp_utils.py:41): a request that runs again  *)
(* had each of its samples relayed.                                         *)
OutputsRelayed ==
  \A t \in DOMAIN sched : \A r \in DOMAIN sched[t].rows : ~Withheld(r, t)

(* A rank that runs a step builds, for every request whose samples were all *)
(* relayed, the positions, input tokens, draft tokens and accepted counts   *)
(* of the rank whose hidden states it received: no relay is lost, late,     *)
(* doubled, or written into a reused slot.                                  *)
RelayedAgreement ==
  \A p \in Ranks : phase[p] = "ran" =>
    /\ DOMAIN got[p] = DOMAIN input[p]
    /\ \A r \in DOMAIN input[p] : ~Withheld(r, step[p] + 1) => got[p][r] = input[p][r]

(* Every rank catches up with the schedule again and again, and for good    *)
(* once no more steps are added: no rank waits for a broadcast or hidden    *)
(* states that never come.                                                  *)
StepsComplete == []<>(\A p \in Ranks : step[p] = Len(sched))
=============================================================================
