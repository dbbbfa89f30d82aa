--------------------------- MODULE StageTransfer ----------------------------
(***************************************************************************)
(* The transfer of activations between pipeline stages: Worker.            *)
(* execute_model and AsyncIntermediateTensors (v1/worker/gpu_worker.py,    *)
(* the ported file and the overlay) and the copy into the persistent       *)
(* input buffers in GPUModelRunner.execute_model.                          *)
(*                                                                         *)
(* Nothing here blocks the worker's CPU thread except the metadata of a    *)
(* receive: the thread runs ahead of its GPU, and the order of reads and   *)
(* writes on the GPU comes only from the waits it puts on the compute      *)
(* stream.  A rank has one compute stream, a FIFO of operations, and one   *)
(* channel to each neighbour, on which transfers happen in posted order.   *)
(* A tensor's contents is named by the step whose schedule entered the     *)
(* pipe; 0 is memory nobody has written.                                   *)
(***************************************************************************)
EXTENDS Integers, Sequences, FiniteSets, SequencesExt

CONSTANTS
  PPSize,       \* get_pp_group().world_size
  Hops,         \* the forms of the hop that are looked at
  MaxInFlight,  \* steps scheduled and not yet answered by the last rank
  MaxSteps      \* bound: scheduler steps

ASSUME TransferAssumption ==
  /\ PPSize \in Nat \ {0, 1}
  /\ \A h \in Hops :
       /\ h.tensors \in Seq(ToSet(h.tensors)) \ {<<>>} /\ IsInjective(h.tensors)
       /\ h.packed \in BOOLEAN /\ h.noMetadata \in BOOLEAN
       /\ h.noMetadata => h.packed
       /\ h.packed => Len(h.tensors) = 1
  /\ MaxInFlight \in Nat \ {0}
  /\ MaxSteps \in Nat

Stages == 1..PPSize
Steps  == 1..MaxSteps

VARIABLES
  hop,       \* the form of the hop: fixed by the launch
  work,      \* [Steps -> BOOLEAN]: total_num_scheduled_tokens > 0
  cpu,       \* [Stages -> calls of execute_model made]
  sendWork,  \* [Stages -> _pp_send_work, a set of handles <<step, tensor>>]
  stream,    \* [Stages -> Seq of operations on the compute stream]
  sends,     \* [Stages -> Seq of sends posted and not yet transferred]
  recvs,     \* [Stages -> Seq of receives posted and not yet transferred]
  rbuf,      \* [Stages -> [Steps -> contents of a receive's own tensors]]
  inbuf,     \* [Stages -> contents of model_runner.intermediate_tensors]
  out,       \* [Stages -> contents of the tensors the forward writes]
  fed,       \* history: Seq of the steps with tokens the first stage was given
  got        \* history: [Stages -> Seq of what the forwards consumed]

vars == <<hop, work, cpu, sendWork, stream, sends, recvs, rbuf, inbuf, out, fed, got>>

\* The keys of IntermediateTensors in dict order; whether the hop is packed
\* (one flat tensor, no handle for metadata); VLLM_PP_HOP_NO_METADATA.
Tensors    == hop.tensors
Packed     == hop.packed
NoMetadata == hop.noMetadata
Keys       == ToSet(Tensors)

Unwritten == [k \in Keys |-> 0]
Op(kind, t, handles) == [kind |-> kind, step |-> t, handles |-> handles]

-----------------------------------------------------------------------------
(* One call of Worker.execute_model: what the CPU thread posts.             *)

\* Mutant: handles[1] is kept instead of handles[1:].
SendHandles_FirstOnly(t) == {<<t, Tensors[1]>>}

\* Mutant: every handle is kept, the metadata's too, which is reaped elsewhere.
SendHandles_All(t) == {<<t, k>> : k \in {"metadata"} \cup Keys}

\* The handles of isend_tensor_dict are the metadata's, then one per tensor;
\* handles[1:] are kept.  pp_hop.send returns only device handles.
SendHandles(t) ==
  LET handles == (IF Packed THEN <<>> ELSE <<"metadata">>) \o Tensors
      kept    == IF Packed THEN handles ELSE Tail(handles)
  IN  {<<t, kept[i]>> : i \in DOMAIN kept}

\* Mutant: only a step with tokens waits; a step without still resets the list.
WaitSends_ForwardOnly(p, t) ==
  IF work[t] /\ sendWork[p] # {} THEN <<Op("waitSend", t, sendWork[p])>> ELSE <<>>

\* `for handle in self._pp_send_work: handle.wait()`, first thing in the call.
WaitSends(p, t) ==
  IF sendWork[p] = {} THEN <<>> ELSE <<Op("waitSend", t, sendWork[p])>>

\* AsyncIntermediateTensors.wait_for_comm, run by the first read of .tensors.
WaitForComm(t) == <<Op("waitRecv", t, {<<t, k>> : k \in Keys})>>

\* Mutant: the intermediate tensors are what a forward is run for, so that the
\* last stage, which returns none, only copies.
ForwardOps_Intermediate(p, t) ==
  (IF p = 1 THEN <<>> ELSE WaitForComm(t) \o <<Op("copy", t, {})>>)
    \o (IF p < PPSize THEN <<Op("forward", t, {})>> ELSE <<>>)

\* GPUModelRunner.execute_model on the compute stream: a stage after the
\* first copies what it received into the persistent buffers, then runs.
ForwardOps(p, t) ==
  (IF p = 1 THEN <<>> ELSE WaitForComm(t) \o <<Op("copy", t, {})>>)
    \o <<Op("forward", t, {})>>

\* The first stage is given a step when the engine's batch queue has room.
\* The other stages get the same calls in the same order; a receive blocks
\* until the metadata of the matching send is there.
CanCall(p, t) ==
  /\ t \in Steps
  /\ t > MaxInFlight => /\ cpu[PPSize] >= t - MaxInFlight
                        /\ \A i \in DOMAIN stream[PPSize] :
                             stream[PPSize][i].step > t - MaxInFlight
  /\ (p > 1 /\ work[t] /\ ~NoMetadata) => cpu[p - 1] >= t

Posts(t) == [i \in DOMAIN Tensors |-> <<t, Tensors[i]>>]

ExecuteModel(p) ==
  LET t == cpu[p] + 1
  IN  /\ CanCall(p, t)
      /\ cpu' = [cpu EXCEPT ![p] = t]
      /\ stream' = [stream EXCEPT ![p] =
           @ \o WaitSends(p, t) \o (IF work[t] THEN ForwardOps(p, t) ELSE <<>>)]
      /\ recvs' = [recvs EXCEPT ![p] = IF work[t] /\ p > 1 THEN @ \o Posts(t) ELSE @]
      /\ sends' = [sends EXCEPT ![p] = IF work[t] /\ p < PPSize THEN @ \o Posts(t) ELSE @]
      /\ sendWork' = [sendWork EXCEPT ![p] =
           IF work[t] /\ p < PPSize THEN SendHandles(t) ELSE {}]
      /\ fed' = IF work[t] /\ p = 1 THEN Append(fed, t) ELSE fed
      /\ UNCHANGED <<hop, work, rbuf, inbuf, out, got>>

-----------------------------------------------------------------------------
(* The GPU: the compute stream in order, the transfers between two ranks.   *)

\* Handle.wait on the compute stream: the transfers have happened.
Wait(p, op) ==
  /\ op.kind \in {"waitSend", "waitRecv"}
  /\ op.handles \cap ToSet(IF op.kind = "waitSend" THEN sends[p] ELSE recvs[p]) = {}
  /\ UNCHANGED <<rbuf, inbuf, out, got>>

\* v[:n].copy_(intermediate_tensors.tensors[k][:n]) for every k; then the
\* received tensors are dropped.
Copy(p, op) ==
  /\ op.kind = "copy"
  /\ inbuf' = [inbuf EXCEPT ![p] = rbuf[p][op.step]]
  /\ rbuf' = [rbuf EXCEPT ![p][op.step] = Unwritten]
  /\ UNCHANGED <<out, got>>

\* The model: its output tensors are the same at every step when the graph
\* is replayed, so the forward overwrites what a slow send is still reading.
ForwardPass(p, op) ==
  LET consumed == IF p = 1 THEN [k \in Keys |-> op.step] ELSE inbuf[p]
  IN  /\ op.kind = "forward"
      /\ out' = [out EXCEPT ![p] = consumed]
      /\ got' = [got EXCEPT ![p] = Append(@, consumed)]
      /\ UNCHANGED <<rbuf, inbuf>>

Run(p) ==
  /\ stream[p] # <<>>
  /\ LET op == Head(stream[p]) IN Wait(p, op) \/ Copy(p, op) \/ ForwardPass(p, op)
  /\ stream' = [stream EXCEPT ![p] = Tail(@)]
  /\ UNCHANGED <<hop, work, cpu, sendWork, sends, recvs, fed>>

\* A transfer starts after what was on the compute stream when it was posted:
\* a send after its step's forward, a receive after the wait for the sends.
SendReady(p) ==
  /\ sends[p] # <<>>
  /\ \A i \in DOMAIN stream[p] : stream[p][i].step > Head(sends[p])[1]

RecvReady(p) ==
  /\ recvs[p] # <<>>
  /\ \A i \in DOMAIN stream[p] :
       \/ stream[p][i].step > Head(recvs[p])[1]
       \/ stream[p][i].step = Head(recvs[p])[1] /\ stream[p][i].kind # "waitSend"

\* The oldest send of rank p meets the oldest receive of rank p + 1; the
\* contents are read from the sender's output tensor as it is by then.
Transfer(p) ==
  /\ p < PPSize
  /\ SendReady(p) /\ RecvReady(p + 1)
  /\ LET from == Head(sends[p])
         to   == Head(recvs[p + 1])
     IN  rbuf' = [rbuf EXCEPT ![p + 1][to[1]][to[2]] = out[p][from[2]]]
  /\ sends' = [sends EXCEPT ![p] = Tail(@)]
  /\ recvs' = [recvs EXCEPT ![p + 1] = Tail(@)]
  /\ UNCHANGED <<hop, work, cpu, sendWork, stream, inbuf, out, fed, got>>

-----------------------------------------------------------------------------

Init ==
  /\ hop \in Hops
  /\ work \in [Steps -> BOOLEAN]
  /\ cpu = [p \in Stages |-> 0]
  /\ sendWork = [p \in Stages |-> {}]
  /\ stream = [p \in Stages |-> <<>>]
  /\ sends = [p \in Stages |-> <<>>]
  /\ recvs = [p \in Stages |-> <<>>]
  /\ rbuf = [p \in Stages |-> [t \in Steps |-> Unwritten]]
  /\ inbuf = [p \in Stages |-> Unwritten]
  /\ out = [p \in Stages |-> Unwritten]
  /\ fed = <<>> /\ got = [p \in Stages |-> <<>>]

Finished ==
  /\ \A p \in Stages : cpu[p] = MaxSteps /\ stream[p] = <<>>
  /\ UNCHANGED vars

Next ==
  \/ \E p \in Stages : ExecuteModel(p)
  \/ \E p \in Stages : Run(p)
  \/ \E p \in Stages : Transfer(p)
  \/ Finished

\* The engine sends the calls it has scheduled, the GPU runs what is on its
\* streams, and a transfer both sides are ready for happens.
Fairness ==
  \A p \in Stages : WF_vars(ExecuteModel(p)) /\ WF_vars(Run(p)) /\ WF_vars(Transfer(p))

Spec == Init /\ [][Next]_vars /\ Fairness

-----------------------------------------------------------------------------

Kinds == {"waitSend", "waitRecv", "copy", "forward"}
Ops   == [kind : Kinds, step : Steps, handles : SUBSET (Steps \X Keys)]

TypeOK ==
  /\ hop \in Hops
  /\ work \in [Steps -> BOOLEAN]
  /\ cpu \in [Stages -> 0..MaxSteps]
  /\ sendWork \in [Stages -> SUBSET (Steps \X Keys)]
  /\ stream \in [Stages -> Seq(Ops)]
  /\ sends \in [Stages -> Seq(Steps \X Keys)]
  /\ recvs \in [Stages -> Seq(Steps \X Keys)]
  /\ rbuf \in [Stages -> [Steps -> [Keys -> 0..MaxSteps]]]
  /\ inbuf \in [Stages -> [Keys -> 0..MaxSteps]]
  /\ out \in [Stages -> [Keys -> 0..MaxSteps]]
  /\ fed \in Seq(Steps)
  /\ got \in [Stages -> Seq([Keys -> 0..MaxSteps])]

\* The step whose activations are in a set of tensors; 0 if they are mixed.
StepOf(tensors) ==
  LET first == tensors[Tensors[1]]
  IN  IF \A k \in Keys : tensors[k] = first THEN first ELSE 0

Pipe == INSTANCE StageChannel WITH
  input <- fed,
  got   <- [p \in Stages |-> [i \in DOMAIN got[p] |-> StepOf(got[p][i])]]

(* The stages form a pipe: each consumes, for every scheduled step and in   *)
(* order, exactly the activations its predecessor produced for that step    *)
(* (execute_model): none is lost, repeated, overtaken or mixed with the     *)
(* next one in a reused buffer.                                             *)
Refines == Pipe!InOrder

(* Every scheduled step passes through all stages: no wait is for a         *)
(* transfer that is never posted, on either side.                           *)
PassesThrough == Pipe!Progress
=============================================================================
