------------------------ MODULE StageTransfer_proofs ------------------------
(***************************************************************************)
(* Theorems about StageTransfer, for every number of stages and steps,     *)
(* every form of the hop and every number of steps in flight.              *)
(*                                                                         *)
(* The argument.  What a rank's CPU has posted is determined by how many   *)
(* calls it has made; the compute stream holds what is left of it, in      *)
(* order (StreamOK), and the channels to the neighbours hold the posts     *)
(* that are not transferred, in order (QueuesOK), so that the oldest send  *)
(* meets the receive of the same tensor (LinkOK).  The waits in the stream *)
(* (WaitsOK) keep a forward from overwriting what is still to be sent, and *)
(* a copy from reading what is still to come, so that each buffer holds    *)
(* the step it is read for (DataOK).                                       *)
(***************************************************************************)
EXTENDS StageTransfer, SequenceTheorems, TLAPS

(* The order of the operations on a compute stream.                         *)
KindRank == [waitSend |-> 1, waitRecv |-> 2, copy |-> 3, forward |-> 4]

Before(t, kind, u, other) == t < u \/ (t = u /\ KindRank[kind] < KindRank[other])

(* The operations a call posts, and those a rank has posted so far.         *)
Posted(p, t, kind) ==
  /\ kind \in Kinds
  /\ kind = "waitSend" => p < PPSize /\ t > 1 /\ work[t - 1]
  /\ kind # "waitSend" => work[t]
  /\ kind \in {"waitRecv", "copy"} => p > 1

Due(p, t, kind) == t \in Steps /\ t <= cpu[p] /\ Posted(p, t, kind)

Handles(t, kind) ==
  IF kind = "waitSend" THEN {t - 1} \X Keys
  ELSE IF kind = "waitRecv" THEN {t} \X Keys ELSE {}

Waiting(p, t, kind) ==
  \E i \in DOMAIN stream[p] : stream[p][i].step = t /\ stream[p][i].kind = kind

(* The stream holds the last of them, in order.                             *)
StreamOf(p) ==
  /\ \A i \in DOMAIN stream[p] :
       /\ Due(p, stream[p][i].step, stream[p][i].kind)
       /\ stream[p][i].handles = Handles(stream[p][i].step, stream[p][i].kind)
  /\ \A i, j \in DOMAIN stream[p] : i < j =>
       Before(stream[p][i].step, stream[p][i].kind, stream[p][j].step, stream[p][j].kind)
  /\ \A i \in DOMAIN stream[p], t \in Steps, kind \in Kinds :
       Due(p, t, kind) /\ Before(stream[p][i].step, stream[p][i].kind, t, kind) =>
         Waiting(p, t, kind)

StreamOK == \A p \in Stages : StreamOf(p)

SendWorkOK ==
  \A p \in Stages :
    sendWork[p] = IF cpu[p] > 0 /\ work[cpu[p]] /\ p < PPSize THEN {cpu[p]} \X Keys ELSE {}

(* The posts of one direction, in posted order.                             *)
Called(p) == {t \in Steps : t <= cpu[p] /\ work[t]}

PostBefore(tensors, x, y) ==
  \/ x[1] < y[1]
  \/ x[1] = y[1] /\ \E i, j \in DOMAIN tensors : i < j /\ x[2] = tensors[i] /\ y[2] = tensors[j]

QueueOf(tensors, called, queue) ==
  /\ \A i \in DOMAIN queue : queue[i][1] \in called
  /\ \A i, j \in DOMAIN queue : i < j => PostBefore(tensors, queue[i], queue[j])

QueuesOf(p) ==
  /\ QueueOf(Tensors, Called(p), sends[p])
  /\ QueueOf(Tensors, Called(p), recvs[p])
  /\ p = PPSize => sends[p] = <<>>
  /\ p = 1 => recvs[p] = <<>>

QueuesOK == \A p \in Stages : QueuesOf(p)

ToSend(p, t, k) == <<t, k>> \in ToSet(sends[p])
ToRecv(p, t, k) == <<t, k>> \in ToSet(recvs[p])

(* Both sides of a channel wait for the same transfers, as far as both have *)
(* posted them.                                                             *)
LinkOf(p) ==
  \A t \in Steps, k \in Keys : work[t] =>
    /\ t <= cpu[p] /\ t <= cpu[p + 1] => (ToSend(p, t, k) <=> ToRecv(p + 1, t, k))
    /\ t <= cpu[p] /\ t > cpu[p + 1] => ToSend(p, t, k)
    /\ t > cpu[p] /\ t <= cpu[p + 1] => ToRecv(p + 1, t, k)

LinkOK == \A p \in Stages : p < PPSize => LinkOf(p)

(* A send not transferred has its wait before the next step's operations; a *)
(* receive has its wait before the copy; a send is transferred only after   *)
(* the forward that writes what it sends.                                   *)
WaitsOf(p) ==
  \A t \in Steps, k \in Keys :
    /\ ToSend(p, t, k) /\ t < cpu[p] => Waiting(p, t + 1, "waitSend")
    /\ ToRecv(p, t, k) => Waiting(p, t, "waitRecv")
    /\ p < PPSize /\ Due(p, t, "forward") /\ ~ToSend(p, t, k) => ~Waiting(p, t, "forward")

WaitsOK == \A p \in Stages : WaitsOf(p)

Done(p, t, kind) == Due(p, t, kind) /\ ~Waiting(p, t, kind)

All(t) == [k \in Keys |-> t]

(* The output tensors hold the newest forward, the input buffer what was    *)
(* copied for the next, a receive's tensors what has arrived.               *)
DataOf(p) ==
  \A t \in Steps :
    /\ Done(p, t, "forward") /\ (\A u \in Steps : u > t => ~Done(p, u, "forward")) => out[p] = All(t)
    /\ Done(p, t, "copy") /\ Waiting(p, t, "forward") => inbuf[p] = All(t)
    /\ \A k \in Keys : Due(p, t, "copy") /\ Waiting(p, t, "copy") /\ ~ToRecv(p, t, k) =>
         rbuf[p][t][k] = t

DataOK == \A p \in Stages : DataOf(p)

(* What passed a stage; stage 0 is the schedule.                            *)
Seen(p) == IF p = 0 THEN fed ELSE [i \in DOMAIN got[p] |-> StepOf(got[p][i])]

Passed(p, t) == IF p = 0 THEN t <= cpu[1] /\ work[t] ELSE Done(p, t, "forward")

SeenOf(p) ==
  /\ Seen(p) \in Seq(Steps)
  /\ \A i, j \in DOMAIN Seen(p) : i < j => Seen(p)[i] < Seen(p)[j]
  /\ \A t \in Steps : Passed(p, t) <=> \E i \in DOMAIN Seen(p) : Seen(p)[i] = t

SeenOK == \A p \in 0..PPSize : SeenOf(p)

PrefixOf(p) ==
  /\ Len(Seen(p)) <= Len(Seen(p - 1))
  /\ \A i \in DOMAIN Seen(p) : Seen(p)[i] = Seen(p - 1)[i]

PrefixOK == \A p \in Stages : PrefixOf(p)

IInv ==
  /\ TypeOK /\ StreamOK /\ SendWorkOK /\ QueuesOK /\ LinkOK /\ WaitsOK /\ DataOK
  /\ SeenOK /\ PrefixOK

-----------------------------------------------------------------------------
(* Tensors and handles.                                                     *)

LEMMA HopFacts ==
  ASSUME TypeOK
  PROVE  /\ Tensors \in Seq(Keys) /\ Len(Tensors) \in Nat \ {0}
         /\ DOMAIN Tensors = 1..Len(Tensors)
         /\ \A k \in Keys : \E i \in DOMAIN Tensors : k = Tensors[i]
         /\ \A i \in DOMAIN Tensors : Tensors[i] \in Keys
         /\ \A i, j \in DOMAIN Tensors : Tensors[i] = Tensors[j] => i = j
<1>1. /\ hop.tensors \in Seq(ToSet(hop.tensors)) \ {<<>>} /\ IsInjective(hop.tensors)
  BY TransferAssumption DEF TypeOK
<1>2. Tensors \in Seq(Keys) /\ Tensors # <<>>
  BY <1>1 DEF Keys, Tensors
<1>3. QED
  BY <1>1, <1>2 DEF Keys, Tensors, ToSet, IsInjective

(* The metadata's handle, which the code drops, is the only one dropped.    *)
LEMMA AllHandles ==
  ASSUME TypeOK, NEW t \in Steps
  PROVE  SendHandles(t) = {t} \X Keys
<1> DEFINE handles == (IF Packed THEN <<>> ELSE <<"metadata">>) \o Tensors
           kept    == IF Packed THEN handles ELSE Tail(handles)
<1>1. Tensors \in Seq(Keys) /\ Len(Tensors) \in Nat /\ DOMAIN Tensors = 1..Len(Tensors)
  BY HopFacts
<1>0. {<<t, Tensors[i]>> : i \in DOMAIN Tensors} = {t} \X Keys
  BY HopFacts
<1>2. CASE Packed
  <2>1. kept = <<>> \o Tensors
    BY <1>2
  <2>2. kept = Tensors
    BY <1>1, <2>1, ConcatEmptySeq
  <2>3. SendHandles(t) = {<<t, kept[i]>> : i \in DOMAIN kept}
    BY DEF SendHandles
  <2>4. QED
    BY <1>0, <2>2, <2>3
<1>3. CASE ~Packed
  <2>1. kept = Tail(<<"metadata">> \o Tensors)
    BY <1>3
  <2>2. kept = Tensors
    <3> DEFINE full == <<"metadata">> \o Tensors
    <3>1. full \in Seq(Keys \cup {"metadata"}) /\ Len(full) = Len(Tensors) + 1
          /\ \A i \in 1..Len(Tensors) : full[i + 1] = Tensors[i]
      BY <1>1
    <3> HIDE DEF full
    <3>2. Tail(full) \in Seq(Keys \cup {"metadata"}) /\ Len(Tail(full)) = Len(Tensors)
          /\ \A i \in 1..Len(Tensors) : Tail(full)[i] = Tensors[i]
      BY <1>1, <3>1
    <3>3. Tensors \in Seq(Keys \cup {"metadata"})
      BY <1>1
    <3>4. Tail(full) = Tensors
      BY <3>2, <3>3, SeqEqual
    <3>5. QED
      BY <2>1, <3>4 DEF full
  <2>3. SendHandles(t) = {<<t, kept[i]>> : i \in DOMAIN kept}
    BY DEF SendHandles
  <2>4. QED
    BY <1>0, <2>2, <2>3
<1>4. QED
  BY <1>2, <1>3

-----------------------------------------------------------------------------
(* The compute stream.                                                      *)

LEMMA StreamTyped ==
  ASSUME TypeOK, NEW p \in Stages
  PROVE  /\ stream[p] \in Seq(Ops) /\ Len(stream[p]) \in Nat
         /\ DOMAIN stream[p] = 1..Len(stream[p])
         /\ \A i \in DOMAIN stream[p] : stream[p][i] \in Ops
  BY DEF TypeOK

(* The oldest operation is before all others that wait, and everything      *)
(* behind it waits.                                                         *)
LEMMA HeadOfStream ==
  ASSUME TypeOK, NEW p \in Stages, StreamOf(p), stream[p] # <<>>
  PROVE  LET t    == Head(stream[p]).step
             kind == Head(stream[p]).kind
         IN  /\ Head(stream[p]) \in Ops
             /\ Due(p, t, kind) /\ Waiting(p, t, kind)
             /\ Head(stream[p]).handles = Handles(t, kind)
             /\ \A u, other : Waiting(p, u, other) =>
                  (u = t /\ other = kind) \/ Before(t, kind, u, other)
             /\ \A u, other : Due(p, u, other) /\ Before(t, kind, u, other) => Waiting(p, u, other)
<1> DEFINE op == stream[p][1]
<1>1. Head(stream[p]) = op /\ 1 \in DOMAIN stream[p]
  BY StreamTyped
<1>2. Due(p, op.step, op.kind) /\ op.handles = Handles(op.step, op.kind) /\ op \in Ops
  BY <1>1, StreamTyped DEF StreamOf
<1>3. Waiting(p, op.step, op.kind)
  BY <1>1 DEF Waiting
<1>4. ASSUME NEW u, NEW other, Waiting(p, u, other)
      PROVE  (u = op.step /\ other = op.kind) \/ Before(op.step, op.kind, u, other)
  <2>1. PICK i \in DOMAIN stream[p] : stream[p][i].step = u /\ stream[p][i].kind = other
    BY <1>4 DEF Waiting
  <2>2. CASE i = 1
    BY <2>1, <2>2
  <2>3. CASE i # 1
    <3>1. 1 < i
      BY <2>3, StreamTyped
    <3>2. QED
      BY <1>1, <2>1, <3>1 DEF StreamOf
  <2>4. QED
    BY <2>2, <2>3
<1>5. ASSUME NEW u, NEW other, Due(p, u, other), Before(op.step, op.kind, u, other)
      PROVE  Waiting(p, u, other)
  <2>1. u \in Steps /\ other \in Kinds
    BY <1>5 DEF Due, Posted
  <2>2. QED
    BY <1>1, <1>5, <2>1 DEF StreamOf
<1> HIDE DEF op
<1>6. QED
  BY <1>1, <1>2, <1>3, <1>4, <1>5

LEMMA BeforeIrreflexive ==
  ASSUME NEW t \in Steps, NEW kind \in Kinds
  PROVE  ~Before(t, kind, t, kind)
  BY DEF Before, Steps, Kinds, KindRank

LEMMA BeforeTransitive ==
  ASSUME NEW t \in Steps, NEW a \in Kinds, NEW u \in Steps, NEW b \in Kinds,
         NEW v \in Steps, NEW c \in Kinds, Before(t, a, u, b), Before(u, b, v, c)
  PROVE  Before(t, a, v, c)
<1>1. /\ KindRank[a] \in Nat /\ KindRank[b] \in Nat /\ KindRank[c] \in Nat
      /\ t \in Int /\ u \in Int /\ v \in Int
  BY TransferAssumption DEF Kinds, KindRank, Steps
<1>2. QED
  BY <1>1 DEF Before

(* A step that leaves a rank's stream and calls alone.                      *)
LEMMA SameStream ==
  ASSUME NEW p \in Stages, StreamOf(p), stream'[p] = stream[p], cpu'[p] = cpu[p],
         work' = work, hop' = hop
  PROVE  /\ StreamOf(p)'
         /\ \A u, other : Waiting(p, u, other)' <=> Waiting(p, u, other)
         /\ \A u, other : Due(p, u, other)' <=> Due(p, u, other)
<1>1. \A u, other : Waiting(p, u, other)' <=> Waiting(p, u, other)
  BY DEF Waiting
<1>2. \A u, other : Due(p, u, other)' <=> Due(p, u, other)
  BY DEF Due, Posted
<1>3. \A u, other : Handles(u, other)' = Handles(u, other)
  BY DEF Handles, Keys, Tensors
<1>4. QED
  BY <1>1, <1>2, <1>3 DEF StreamOf

(* The GPU drops the oldest operation.                                      *)
LEMMA TailOfStream ==
  ASSUME TypeOK, NEW p \in Stages, StreamOf(p), stream[p] # <<>>,
         stream'[p] = Tail(stream[p]), cpu' = cpu, work' = work, hop' = hop
  PROVE  /\ StreamOf(p)'
         /\ \A u, other : Waiting(p, u, other)' <=>
              Waiting(p, u, other) /\ ~(u = Head(stream[p]).step /\ other = Head(stream[p]).kind)
<1> DEFINE s == stream[p]
           r == stream'[p]
<1>1. /\ s \in Seq(Ops) /\ Len(s) \in Nat \ {0} /\ DOMAIN s = 1..Len(s) /\ Head(s) = s[1]
      /\ r \in Seq(Ops) /\ Len(r) = Len(s) - 1 /\ DOMAIN r = 1..Len(r)
      /\ \A i \in DOMAIN r : r[i] = s[i + 1]
  BY StreamTyped, HeadTailProperties, EmptySeq
<1>2. /\ \A i \in DOMAIN s : Due(p, s[i].step, s[i].kind) /\ s[i].handles = Handles(s[i].step, s[i].kind)
      /\ \A i, j \in DOMAIN s : i < j => Before(s[i].step, s[i].kind, s[j].step, s[j].kind)
      /\ \A i \in DOMAIN s, t \in Steps, kind \in Kinds :
           Due(p, t, kind) /\ Before(s[i].step, s[i].kind, t, kind) => Waiting(p, t, kind)
      /\ \A u, other : Waiting(p, u, other) <=> \E i \in DOMAIN s : s[i].step = u /\ s[i].kind = other
  BY DEF StreamOf, Waiting
<1>3. \A u, other : Waiting(p, u, other)' <=> \E i \in DOMAIN r : r[i].step = u /\ r[i].kind = other
  BY DEF Waiting
<1>4. \A u, other : Due(p, u, other)' <=> Due(p, u, other)
  BY DEF Due, Posted
<1>5. \A u, other : Handles(u, other)' = Handles(u, other)
  BY DEF Handles, Keys, Tensors
<1>6. \A i \in DOMAIN s : s[i].step \in Steps /\ s[i].kind \in Kinds
  BY StreamTyped DEF Ops
<1> HIDE DEF s, r
<1>7. \A u, other : Waiting(p, u, other)' <=>
        Waiting(p, u, other) /\ ~(u = s[1].step /\ other = s[1].kind)
  <2>1. ASSUME NEW u, NEW other, Waiting(p, u, other)'
        PROVE  Waiting(p, u, other) /\ ~(u = s[1].step /\ other = s[1].kind)
    <3>1. PICK i \in DOMAIN r : r[i].step = u /\ r[i].kind = other
      BY <1>3, <2>1
    <3>2. i + 1 \in DOMAIN s /\ 1 \in DOMAIN s /\ 1 < i + 1 /\ s[i + 1] = r[i]
      BY <1>1
    <3>3. Before(s[1].step, s[1].kind, u, other) /\ u \in Steps /\ other \in Kinds
      BY <1>2, <1>6, <3>1, <3>2
    <3>4. QED
      BY <1>2, <3>1, <3>2, <3>3, BeforeIrreflexive
  <2>2. ASSUME NEW u, NEW other, Waiting(p, u, other), ~(u = s[1].step /\ other = s[1].kind)
        PROVE  Waiting(p, u, other)'
    <3>1. PICK i \in DOMAIN s : s[i].step = u /\ s[i].kind = other
      BY <1>2, <2>2
    <3>2. i # 1
      BY <2>2, <3>1
    <3>3. i - 1 \in DOMAIN r /\ r[i - 1] = s[i]
      BY <1>1, <3>2
    <3>4. QED
      BY <1>3, <3>1, <3>3
  <2>3. QED
    BY <2>1, <2>2
<1>8. /\ \A i \in DOMAIN r : Due(p, r[i].step, r[i].kind) /\ r[i].handles = Handles(r[i].step, r[i].kind)
      /\ \A i, j \in DOMAIN r : i < j => Before(r[i].step, r[i].kind, r[j].step, r[j].kind)
  <2>1. \A i \in DOMAIN r : i + 1 \in DOMAIN s /\ i \in Nat
    BY <1>1
  <2>2. ASSUME NEW i \in DOMAIN r
        PROVE  Due(p, r[i].step, r[i].kind) /\ r[i].handles = Handles(r[i].step, r[i].kind)
    <3>1. r[i] = s[i + 1] /\ i + 1 \in DOMAIN s
      BY <1>1, <2>1
    <3>2. QED
      BY <1>2, <3>1
  <2>3. ASSUME NEW i \in DOMAIN r, NEW j \in DOMAIN r, i < j
        PROVE  Before(r[i].step, r[i].kind, r[j].step, r[j].kind)
    <3>1. r[i] = s[i + 1] /\ i + 1 \in DOMAIN s /\ r[j] = s[j + 1] /\ j + 1 \in DOMAIN s
          /\ i + 1 < j + 1
      BY <1>1, <2>1, <2>3
    <3>2. QED
      BY <1>2, <3>1
  <2>4. QED
    BY <2>2, <2>3
<1>9. ASSUME NEW i \in DOMAIN r, NEW t \in Steps, NEW kind \in Kinds,
             Due(p, t, kind)', Before(r[i].step, r[i].kind, t, kind)
      PROVE  Waiting(p, t, kind)'
  <2>1. i + 1 \in DOMAIN s /\ 1 \in DOMAIN s /\ 1 < i + 1 /\ s[i + 1] = r[i]
    BY <1>1
  <2>2. Waiting(p, t, kind)
    BY <1>2, <1>4, <1>9, <2>1
  <2>3. Before(s[1].step, s[1].kind, t, kind)
    BY <1>2, <1>6, <1>9, <2>1, BeforeTransitive
  <2>4. ~(t = s[1].step /\ kind = s[1].kind)
    BY <2>3, BeforeIrreflexive
  <2>5. QED
    BY <1>7, <2>2, <2>4
<1>10. StreamOf(p)'
  BY <1>4, <1>5, <1>8, <1>9 DEF StreamOf, r
<1>11. QED
  BY <1>1, <1>7, <1>10 DEF s

(* What a call puts on the stream.                                          *)
NewOps(p, t) == WaitSends(p, t) \o (IF work[t] THEN ForwardOps(p, t) ELSE <<>>)

OpsOf(v, p, t, least) ==
  /\ v \in Seq(Ops)
  /\ \A i \in DOMAIN v : /\ v[i].step = t /\ v[i].handles = Handles(t, v[i].kind)
                       /\ Posted(p, t, v[i].kind) /\ KindRank[v[i].kind] >= least
  /\ \A i, j \in DOMAIN v : i < j => KindRank[v[i].kind] < KindRank[v[j].kind]
  /\ \A kind \in Kinds : Posted(p, t, kind) /\ KindRank[kind] >= least =>
       \E i \in DOMAIN v : v[i].kind = kind

LEMMA Ranks ==
  /\ KindRank["waitSend"] = 1 /\ KindRank["waitRecv"] = 2
  /\ KindRank["copy"] = 3 /\ KindRank["forward"] = 4
  /\ Kinds = {"waitSend", "waitRecv", "copy", "forward"}
  /\ \A kind \in Kinds : KindRank[kind] \in 1..4
  /\ \A kind, other \in Kinds : KindRank[kind] = KindRank[other] => kind = other
  BY DEF KindRank, Kinds

LEMMA NoOps ==
  ASSUME NEW p, NEW t
  PROVE  OpsOf(<<>>, p, t, 5)
  BY Ranks, EmptySeq DEF OpsOf

LEMMA SkipOp ==
  ASSUME NEW v, NEW p, NEW t, NEW kind \in Kinds, OpsOf(v, p, t, KindRank[kind] + 1),
         ~Posted(p, t, kind)
  PROVE  OpsOf(v, p, t, KindRank[kind])
<1>1. \A other \in Kinds : KindRank[other] >= KindRank[kind] =>
        other = kind \/ KindRank[other] >= KindRank[kind] + 1
  BY Ranks
<1>2. \A i \in DOMAIN v : v[i].kind \in Kinds
  BY DEF OpsOf, Posted
<1>3. \A other \in Kinds : KindRank[other] >= KindRank[kind] + 1 => KindRank[other] >= KindRank[kind]
  BY Ranks
<1>4. QED
  BY <1>1, <1>2, <1>3 DEF OpsOf

LEMMA AddOp ==
  ASSUME NEW v, NEW p, NEW t \in Steps, NEW kind \in Kinds, Posted(p, t, kind),
         OpsOf(v, p, t, KindRank[kind] + 1), Handles(t, kind) \in SUBSET (Steps \X Keys)
  PROVE  OpsOf(<<Op(kind, t, Handles(t, kind))>> \o v, p, t, KindRank[kind])
<1> DEFINE a == Op(kind, t, Handles(t, kind))
           w == <<a>> \o v
           n == KindRank[kind]
<1>1. a \in Ops /\ a.kind = kind /\ a.step = t /\ a.handles = Handles(t, kind)
  BY DEF Op, Ops
<1> HIDE DEF a
<1>2. v \in Seq(Ops) /\ Len(v) \in Nat /\ DOMAIN v = 1..Len(v)
  BY LenProperties DEF OpsOf
<1>3. /\ w \in Seq(Ops) /\ Len(w) = Len(v) + 1
      /\ \A i \in 1..(1 + Len(v)) : w[i] = IF i <= 1 THEN a ELSE v[i - 1]
  <2>1. <<a>> \in Seq(Ops) /\ Len(<<a>>) = 1 /\ <<a>>[1] = a
    BY <1>1
  <2>2. /\ w \in Seq(Ops) /\ Len(w) = Len(<<a>>) + Len(v)
        /\ \A i \in 1..(Len(<<a>>) + Len(v)) :
              w[i] = IF i <= Len(<<a>>) THEN <<a>>[i] ELSE v[i - Len(<<a>>)]
    BY <1>2, <2>1, ConcatProperties
  <2> HIDE DEF w
  <2>3. QED
    BY <1>2, <2>1, <2>2
<1>4. /\ DOMAIN w = 1..(1 + Len(v)) /\ w[1] = a /\ 1 \in DOMAIN w
      /\ \A i \in DOMAIN v : i + 1 \in DOMAIN w /\ w[i + 1] = v[i]
      /\ \A i \in DOMAIN w : i = 1 \/ (i > 1 /\ i - 1 \in DOMAIN v /\ w[i] = v[i - 1])
  BY <1>2, <1>3, LenProperties
<1>5. /\ n \in 1..4
      /\ \A other \in Kinds : KindRank[other] \in 1..4 /\ (KindRank[other] >= n =>
            other = kind \/ KindRank[other] >= n + 1)
  BY Ranks
<1>6. /\ \A i \in DOMAIN v : /\ v[i].step = t /\ v[i].handles = Handles(t, v[i].kind)
                           /\ Posted(p, t, v[i].kind) /\ v[i].kind \in Kinds
                           /\ KindRank[v[i].kind] >= n + 1
      /\ \A i, j \in DOMAIN v : i < j => KindRank[v[i].kind] < KindRank[v[j].kind]
      /\ \A other \in Kinds : Posted(p, t, other) /\ KindRank[other] >= n + 1 =>
            \E i \in DOMAIN v : v[i].kind = other
  BY DEF OpsOf, Posted
<1> HIDE DEF w, n
<1>7. ASSUME NEW i \in DOMAIN w
      PROVE  /\ w[i].step = t /\ w[i].handles = Handles(t, w[i].kind)
             /\ Posted(p, t, w[i].kind) /\ KindRank[w[i].kind] >= n
  <2>1. CASE i = 1
    BY <1>1, <1>4, <1>5, <2>1 DEF n
  <2>2. CASE i # 1
    <3>1. i - 1 \in DOMAIN v /\ w[i] = v[i - 1]
      BY <1>4, <2>2
    <3>2. QED
      BY <1>5, <1>6, <3>1
  <2>3. QED
    BY <2>1, <2>2
<1>8. ASSUME NEW i \in DOMAIN w, NEW j \in DOMAIN w, i < j
      PROVE  KindRank[w[i].kind] < KindRank[w[j].kind]
  <2>1. j # 1 /\ i \in Int /\ j \in Int
    BY <1>2, <1>4, <1>8
  <2>2. j - 1 \in DOMAIN v /\ w[j] = v[j - 1]
    BY <1>4, <2>1
  <2>3. CASE i = 1
    BY <1>1, <1>4, <1>5, <1>6, <2>2, <2>3 DEF n
  <2>4. CASE i # 1
    <3>1. i - 1 \in DOMAIN v /\ w[i] = v[i - 1] /\ i - 1 < j - 1
      BY <1>4, <1>8, <2>1, <2>4
    <3>2. QED
      BY <1>6, <2>2, <3>1
  <2>5. QED
    BY <2>3, <2>4
<1>9. ASSUME NEW other \in Kinds, Posted(p, t, other), KindRank[other] >= n
      PROVE  \E i \in DOMAIN w : w[i].kind = other
  <2>1. CASE other = kind
    BY <1>1, <1>4, <2>1
  <2>2. CASE other # kind
    BY <1>4, <1>5, <1>6, <1>9, <2>2
  <2>3. QED
    BY <2>1, <2>2
<1>10. QED
  BY <1>3, <1>7, <1>8, <1>9 DEF OpsOf, w, n, a

LEMMA StagesInt ==
  /\ PPSize \in Int /\ PPSize > 1 /\ MaxSteps \in Nat
  /\ \A p \in Stages : p \in Int /\ p >= 1 /\ p <= PPSize
  /\ \A t : t \in Steps <=> t \in Int /\ t >= 1 /\ t <= MaxSteps
  BY TransferAssumption DEF Stages, Steps

LEMMA CallPosts ==
  ASSUME TypeOK, SendWorkOK, NEW p \in Stages, NEW t \in Steps, t = cpu[p] + 1
  PROVE  /\ OpsOf(NewOps(p, t), p, t, 1)
         /\ WaitSends(p, t) \in Seq(Ops)
         /\ (IF work[t] THEN ForwardOps(p, t) ELSE <<>>) \in Seq(Ops)
<1> DEFINE ws == Op("waitSend", t, Handles(t, "waitSend"))
           wr == Op("waitRecv", t, Handles(t, "waitRecv"))
           cp == Op("copy", t, Handles(t, "copy"))
           fw == Op("forward", t, Handles(t, "forward"))
           sent == p < PPSize /\ t > 1 /\ work[t - 1]
           run == IF work[t] THEN ForwardOps(p, t) ELSE <<>>
<1>1. /\ t \in Int /\ t >= 1 /\ t <= MaxSteps /\ cpu[p] = t - 1 /\ p \in Int /\ p >= 1
      /\ PPSize \in Int /\ MaxSteps \in Nat
  <2>1. cpu[p] \in 0..MaxSteps
    BY DEF TypeOK
  <2>2. QED
    BY <2>1, StagesInt
<1>2. \A kind \in Kinds : Posted(p, t, kind) => Handles(t, kind) \in SUBSET (Steps \X Keys)
  <2>1. \A u \in Steps : {u} \X Keys \in SUBSET (Steps \X Keys)
    OBVIOUS
  <2>2. t > 1 => t - 1 \in Steps
    BY <1>1, StagesInt
  <2>3. QED
    BY <2>1, <2>2 DEF Posted, Handles, Kinds
<1>3. WaitSends(p, t) = IF sent THEN <<ws>> ELSE <<>>
  <2>1. sendWork[p] = IF cpu[p] > 0 /\ work[cpu[p]] /\ p < PPSize THEN {cpu[p]} \X Keys ELSE {}
    BY DEF SendWorkOK
  <2>0. cpu[p] = t - 1 /\ (cpu[p] > 0 <=> t > 1)
    BY <1>1
  <2>2. sendWork[p] = IF sent THEN {t - 1} \X Keys ELSE {}
    BY <2>0, <2>1, Zenon
  <2>3. PICK k : k \in Keys
    BY HopFacts
  <2>4. <<t - 1, k>> \in {t - 1} \X Keys
    BY <2>3
  <2>5. {t - 1} \X Keys # {}
    BY <2>4
  <2>6. Handles(t, "waitSend") = {t - 1} \X Keys
    BY DEF Handles
  <2>7. QED
    BY <2>2, <2>5, <2>6 DEF WaitSends
<1>4. /\ KindRank["waitSend"] + 1 = KindRank["waitRecv"] /\ KindRank["waitRecv"] + 1 = KindRank["copy"]
      /\ KindRank["copy"] + 1 = KindRank["forward"] /\ KindRank["forward"] + 1 = 5
      /\ KindRank["waitSend"] = 1
      /\ "waitSend" \in Kinds /\ "waitRecv" \in Kinds /\ "copy" \in Kinds /\ "forward" \in Kinds
  BY Ranks
<1>5. /\ Posted(p, t, "waitSend") <=> sent
      /\ Posted(p, t, "waitRecv") <=> (work[t] /\ p # 1)
      /\ Posted(p, t, "copy") <=> (work[t] /\ p # 1)
      /\ Posted(p, t, "forward") <=> work[t]
  BY <1>1 DEF Posted, Kinds
<1>6. /\ Handles(t, "copy") = {} /\ Handles(t, "forward") = {} /\ Handles(t, "waitRecv") = {t} \X Keys
      /\ {<<t, k>> : k \in Keys} = {t} \X Keys
  BY DEF Handles
<1> HIDE DEF ws, wr, cp, fw
<1>7. /\ Posted(p, t, "waitSend") => ws \in Ops
      /\ Posted(p, t, "waitRecv") => wr \in Ops
      /\ Posted(p, t, "copy") => cp \in Ops
      /\ Posted(p, t, "forward") => fw \in Ops
  BY <1>2, <1>4 DEF ws, wr, cp, fw, Op, Ops
<1>8. OpsOf(run, p, t, KindRank["waitRecv"])
  <2>1. CASE ~work[t]
    <3>1. run = <<>>
      BY <2>1
    <3> HIDE DEF run
    <3>2. OpsOf(run, p, t, KindRank["forward"] + 1)
      BY <3>1, <1>4, NoOps
    <3>3. OpsOf(run, p, t, KindRank["forward"])
      BY <3>2, <1>4, <1>5, <2>1, SkipOp
    <3>4. OpsOf(run, p, t, KindRank["copy"])
      BY <3>3, <1>4, <1>5, <2>1, SkipOp
    <3>5. QED
      BY <3>4, <1>4, <1>5, <2>1, SkipOp
  <2>2. CASE work[t]
    <3>1. Posted(p, t, "forward") /\ fw \in Ops /\ <<fw>> \in Seq(Ops)
      BY <1>5, <1>7, <2>2
    <3>2. OpsOf(<<>>, p, t, KindRank["forward"] + 1)
      BY <1>4, NoOps
    <3>3. Handles(t, "forward") \in SUBSET (Steps \X Keys)
      BY <1>6
    <3>4. OpsOf(<<fw>> \o <<>>, p, t, KindRank["forward"])
      BY <1>4, <3>1, <3>2, <3>3, AddOp DEF fw
    <3>5. OpsOf(<<fw>>, p, t, KindRank["forward"])
      BY <3>1, <3>4, ConcatEmptySeq
    <3>6. CASE p = 1
      <4>1. run = <<>> \o <<fw>>
        BY <1>6, <2>2, <3>6 DEF ForwardOps, fw
      <4>2. run = <<fw>>
        BY <3>1, <4>1, ConcatEmptySeq
      <4> HIDE DEF run
      <4>3. OpsOf(run, p, t, KindRank["copy"])
        BY <3>5, <4>2, <3>6, <1>4, <1>5, SkipOp
      <4>4. QED
        BY <4>3, <3>6, <1>4, <1>5, SkipOp
    <3>7. CASE p # 1
      <4>0. Posted(p, t, "copy") /\ Posted(p, t, "waitRecv") /\ cp \in Ops /\ wr \in Ops
        BY <1>5, <1>7, <2>2, <3>7
      <4>1. OpsOf(<<cp>> \o <<fw>>, p, t, KindRank["copy"])
        BY <1>2, <1>4, <3>5, <4>0, AddOp DEF cp
      <4>2. OpsOf(<<wr>> \o (<<cp>> \o <<fw>>), p, t, KindRank["waitRecv"])
        BY <1>2, <1>4, <4>0, <4>1, AddOp DEF wr
      <4>3. WaitForComm(t) = <<wr>>
        BY <1>6 DEF WaitForComm, wr
      <4>4. run = (<<wr>> \o <<cp>>) \o <<fw>>
        BY <1>6, <2>2, <3>7, <4>3 DEF ForwardOps, cp, fw
      <4>5. <<wr>> \in Seq(Ops) /\ <<cp>> \in Seq(Ops)
        BY <4>0
      <4>6. run = <<wr>> \o (<<cp>> \o <<fw>>)
        <5> DEFINE a == <<wr>>
                   b == <<cp>>
                   c == <<fw>>
        <5>1. a \in Seq(Ops) /\ b \in Seq(Ops) /\ c \in Seq(Ops) /\ run = (a \o b) \o c
          BY <3>1, <4>4, <4>5
        <5> HIDE DEF a, b, c, run
        <5>2. run = a \o (b \o c)
          BY <5>1, ConcatAssociative
        <5>3. QED
          BY <5>2 DEF a, b, c
      <4> HIDE DEF run
      <4>7. QED
        BY <4>2, <4>6
    <3>8. QED
      BY <3>6, <3>7
  <2>3. QED
    BY <2>1, <2>2
<1>9. run \in Seq(Ops)
  BY <1>8 DEF OpsOf
<1>10. NewOps(p, t) = IF sent THEN <<ws>> \o run ELSE run
  <2>1. NewOps(p, t) = WaitSends(p, t) \o run
    BY DEF NewOps
  <2> HIDE DEF run
  <2>2. QED
    BY <1>3, <1>9, <2>1, ConcatEmptySeq
<1> HIDE DEF run
<1>11. ASSUME sent PROVE OpsOf(NewOps(p, t), p, t, 1)
  <2>1. Posted(p, t, "waitSend") /\ Handles(t, "waitSend") \in SUBSET (Steps \X Keys)
    BY <1>2, <1>4, <1>5, <1>11
  <2>2. OpsOf(<<ws>> \o run, p, t, KindRank["waitSend"])
    BY <1>4, <1>8, <2>1, AddOp DEF ws
  <2>3. QED
    BY <1>4, <1>10, <1>11, <2>2
<1>12. ASSUME ~sent PROVE OpsOf(NewOps(p, t), p, t, 1)
  <2>1. OpsOf(run, p, t, KindRank["waitSend"])
    BY <1>4, <1>5, <1>8, <1>12, SkipOp
  <2>2. QED
    BY <1>4, <1>10, <1>12, <2>1
<1>13. WaitSends(p, t) \in Seq(Ops)
  <2>1. CASE sent
    <3>1. ws \in Ops
      BY <1>5, <1>7, <2>1
    <3>2. WaitSends(p, t) = <<ws>>
      BY <1>3, <2>1
    <3>3. <<ws>> \in Seq(Ops)
      BY <3>1
    <3>4. QED
      BY <3>2, <3>3, Zenon
  <2>2. CASE ~sent
    <3>1. WaitSends(p, t) = <<>>
      BY <1>3, <2>2
    <3>2. <<>> \in Seq(Ops)
      OBVIOUS
    <3>3. QED
      BY <3>1, <3>2, Zenon
  <2>3. QED
    BY <2>1, <2>2
<1>14. QED
  BY <1>9, <1>11, <1>12, <1>13 DEF run

LEMMA PostStream ==
  ASSUME TypeOK, SendWorkOK, NEW p \in Stages, StreamOf(p), NEW t \in Steps, t = cpu[p] + 1,
         stream'[p] = stream[p] \o NewOps(p, t), cpu'[p] = t, work' = work, hop' = hop
  PROVE  /\ StreamOf(p)' /\ stream'[p] \in Seq(Ops)
         /\ \A u, other : Waiting(p, u, other)' <=>
              (Waiting(p, u, other) \/ (u = t /\ Posted(p, t, other)))
         /\ \A u, other : Due(p, u, other)' <=>
              (Due(p, u, other) \/ (u = t /\ Posted(p, t, other)))
<1> DEFINE s == stream[p]
           v == NewOps(p, t)
           r == stream'[p]
           n == Len(s)
<1>0. cpu[p] \in Nat /\ t \in Int /\ cpu[p] < t
  <2>1. cpu[p] \in 0..MaxSteps
    BY DEF TypeOK
  <2>2. QED
    BY <2>1, StagesInt
<1>1. OpsOf(v, p, t, 1)
  BY CallPosts
<1>2. /\ s \in Seq(Ops) /\ n \in Nat /\ DOMAIN s = 1..n
      /\ v \in Seq(Ops) /\ Len(v) \in Nat /\ DOMAIN v = 1..Len(v)
  BY <1>1, StreamTyped DEF OpsOf
<1>3. /\ r \in Seq(Ops) /\ Len(r) = n + Len(v) /\ DOMAIN r = 1..(n + Len(v))
      /\ \A i \in DOMAIN r : r[i] = IF i <= n THEN s[i] ELSE v[i - n]
  <2>1. r = s \o v
    OBVIOUS
  <2> HIDE DEF s, v, r, n
  <2>2. /\ r \in Seq(Ops) /\ Len(r) = Len(s) + Len(v)
        /\ \A i \in 1..(Len(s) + Len(v)) : r[i] = IF i <= Len(s) THEN s[i] ELSE v[i - Len(s)]
    BY <1>2, <2>1, ConcatProperties
  <2>3. DOMAIN r = 1..Len(r)
    BY <2>2, LenProperties
  <2>4. QED
    BY <2>2, <2>3 DEF n
<1>4. /\ \A i \in DOMAIN s : Due(p, s[i].step, s[i].kind) /\ s[i].handles = Handles(s[i].step, s[i].kind)
      /\ \A i, j \in DOMAIN s : i < j => Before(s[i].step, s[i].kind, s[j].step, s[j].kind)
      /\ \A i \in DOMAIN s, u \in Steps, kind \in Kinds :
           Due(p, u, kind) /\ Before(s[i].step, s[i].kind, u, kind) => Waiting(p, u, kind)
      /\ \A u, other : Waiting(p, u, other) <=> \E i \in DOMAIN s : s[i].step = u /\ s[i].kind = other
  BY DEF StreamOf, Waiting
<1>5. \A u, other : Waiting(p, u, other)' <=> \E i \in DOMAIN r : r[i].step = u /\ r[i].kind = other
  BY DEF Waiting
<1>6. \A u, other : Due(p, u, other)' <=> (Due(p, u, other) \/ (u = t /\ Posted(p, t, other)))
  <2>1. \A u, other : Posted(p, u, other)' <=> Posted(p, u, other)
    BY DEF Posted
  <2>2. \A u \in Steps : u <= cpu'[p] <=> (u <= cpu[p] \/ u = t)
    BY <1>0 DEF Steps
  <2>3. QED
    BY <2>1, <2>2 DEF Due
<1>7. \A u, other : Handles(u, other)' = Handles(u, other)
  BY DEF Handles, Keys, Tensors
<1>8. \A i \in DOMAIN s : s[i].step \in Steps /\ s[i].kind \in Kinds /\ s[i].step < t
  <2>1. \A i \in DOMAIN s : s[i].step <= cpu[p] /\ s[i].step \in Steps /\ s[i].kind \in Kinds
    BY <1>4 DEF Due, Posted
  <2>2. QED
    BY <1>0, <2>1 DEF Steps
<1>9. \A i \in DOMAIN v : v[i].step = t /\ v[i].kind \in Kinds /\ Posted(p, t, v[i].kind)
                       /\ v[i].handles = Handles(t, v[i].kind)
  BY <1>1 DEF OpsOf, Posted
<1>10. \A i, j \in DOMAIN v : i < j => Before(t, v[i].kind, t, v[j].kind)
  BY <1>1 DEF OpsOf, Before
<1>11. \A kind \in Kinds : Posted(p, t, kind) => \E i \in DOMAIN v : v[i].kind = kind
  <2> HIDE DEF v
  <2>1. \A kind \in Kinds : KindRank[kind] >= 1
    BY Ranks
  <2>2. QED
    BY <1>1, <2>1 DEF OpsOf
<1> HIDE DEF s, v, r, n
<1>12. \A i \in DOMAIN r : \/ (i <= n /\ i \in DOMAIN s /\ r[i] = s[i])
                        \/ (i > n /\ i - n \in DOMAIN v /\ r[i] = v[i - n])
  BY <1>2, <1>3
<1>13. /\ \A i \in DOMAIN s : i \in DOMAIN r /\ r[i] = s[i]
       /\ \A i \in DOMAIN v : n + i \in DOMAIN r /\ r[n + i] = v[i]
  <2>1. ASSUME NEW i \in DOMAIN s
        PROVE  i \in DOMAIN r /\ r[i] = s[i]
    <3>1. i <= n /\ i \in DOMAIN r
      BY <1>2, <1>3
    <3>2. QED
      BY <1>3, <3>1
  <2>2. ASSUME NEW i \in DOMAIN v
        PROVE  n + i \in DOMAIN r /\ r[n + i] = v[i]
    <3>1. ~(n + i <= n) /\ n + i \in DOMAIN r /\ (n + i) - n = i
      BY <1>2, <1>3
    <3>2. r[n + i] = v[(n + i) - n]
      BY <1>3, <3>1
    <3>3. QED
      BY <3>1, <3>2
  <2>3. QED
    BY <2>1, <2>2
<1>14. \A u, other : Waiting(p, u, other)' <=> (Waiting(p, u, other) \/ (u = t /\ Posted(p, t, other)))
  <2>1. ASSUME NEW u, NEW other, Waiting(p, u, other)'
        PROVE  Waiting(p, u, other) \/ (u = t /\ Posted(p, t, other))
    BY <1>4, <1>5, <1>9, <1>12, <2>1
  <2>2. ASSUME NEW u, NEW other, Waiting(p, u, other)
        PROVE  Waiting(p, u, other)'
    BY <1>4, <1>5, <1>13, <2>2
  <2>3. ASSUME NEW other, Posted(p, t, other)
        PROVE  Waiting(p, t, other)'
    <3>1. other \in Kinds
      BY <2>3 DEF Posted
    <3>2. PICK i \in DOMAIN v : v[i].kind = other
      BY <1>11, <2>3, <3>1
    <3>3. QED
      BY <1>5, <1>9, <1>13, <3>2
  <2>4. QED
    BY <2>1, <2>2, <2>3
<1>15. ASSUME NEW i \in DOMAIN r
       PROVE  /\ Due(p, r[i].step, r[i].kind) \/ (r[i].step = t /\ Posted(p, t, r[i].kind))
              /\ r[i].handles = Handles(r[i].step, r[i].kind)
              /\ r[i].step \in Steps /\ r[i].kind \in Kinds
  BY <1>4, <1>8, <1>9, <1>12
<1>16. ASSUME NEW i \in DOMAIN r, NEW j \in DOMAIN r, i < j
       PROVE  Before(r[i].step, r[i].kind, r[j].step, r[j].kind)
  <2>0. i \in Int /\ j \in Int /\ n \in Int
    BY <1>2, <1>3 DEF r, n, s, v
  <2>1. CASE i <= n /\ j <= n
    <3>1. i \in DOMAIN s /\ j \in DOMAIN s /\ r[i] = s[i] /\ r[j] = s[j]
      BY <1>12, <2>0, <2>1
    <3>2. QED
      BY <1>4, <1>16, <3>1
  <2>2. CASE i <= n /\ j > n
    <3>1. i \in DOMAIN s /\ r[i] = s[i] /\ j - n \in DOMAIN v /\ r[j] = v[j - n]
      BY <1>12, <2>0, <2>2
    <3>2. QED
      BY <1>8, <1>9, <3>1 DEF Before
  <2>3. CASE i > n
    <3>1. /\ i - n \in DOMAIN v /\ r[i] = v[i - n] /\ j - n \in DOMAIN v /\ r[j] = v[j - n]
          /\ i - n < j - n
      BY <1>12, <1>16, <2>0, <2>3
    <3>2. QED
      BY <1>9, <1>10, <3>1
  <2>4. QED
    BY <2>0, <2>1, <2>2, <2>3
<1>17. ASSUME NEW i \in DOMAIN r, NEW u \in Steps, NEW kind \in Kinds,
              Due(p, u, kind)', Before(r[i].step, r[i].kind, u, kind)
       PROVE  Waiting(p, u, kind)'
  <2>1. CASE u = t /\ Posted(p, t, kind)
    BY <1>14, <2>1
  <2>2. CASE Due(p, u, kind)
    <3>1. u < t
      BY <1>0, <2>2 DEF Due, Steps
    <3>2. r[i].step <= u
      BY <1>15, <1>17, <3>1 DEF Before, Steps
    <3>3. i <= n /\ i \in DOMAIN s /\ r[i] = s[i]
      BY <1>0, <1>9, <1>12, <3>1, <3>2 DEF Steps
    <3>4. QED
      BY <1>4, <1>14, <1>17, <2>2, <3>3
  <2>3. QED
    BY <1>6, <1>17, <2>1, <2>2
<1>18. StreamOf(p)'
  BY <1>6, <1>7, <1>15, <1>16, <1>17 DEF StreamOf, r
<1>19. QED
  BY <1>3, <1>6, <1>14, <1>18 DEF r

-----------------------------------------------------------------------------
(* The channels.                                                            *)

(* A call's posts come after all earlier ones.                              *)
LEMMA PostAppend ==
  ASSUME TypeOK, NEW p \in Stages, NEW t \in Steps, cpu[p] < t,
         NEW queue \in Seq(Steps \X Keys), QueueOf(Tensors, Called(p), queue)
  PROVE  /\ queue \o Posts(t) \in Seq(Steps \X Keys)
         /\ QueueOf(Tensors, Called(p) \cup {t}, queue \o Posts(t))
         /\ \A x : x \in ToSet(queue \o Posts(t)) <=> (x \in ToSet(queue) \/ x \in {t} \X Keys)
<1> DEFINE T == Steps
           K == Keys
           tensors == Tensors
           called == Called(p)
           posts == Posts(t)
<1>0. /\ tensors \in Seq(K) /\ \A k \in K : \E i \in DOMAIN tensors : k = tensors[i]
      /\ queue \in Seq(T \X K) /\ QueueOf(tensors, called, queue)
      /\ t \in T /\ t \in Int /\ \A u \in called : u < t
      /\ posts = [i \in DOMAIN tensors |-> <<t, tensors[i]>>]
  <2>1. cpu[p] \in 0..MaxSteps /\ \A u \in Steps : u \in Int
    BY StagesInt DEF TypeOK
  <2>2. \A u \in Steps : u <= cpu[p] => u < t
    BY <2>1
  <2>3. QED
    BY <2>1, <2>2, HopFacts DEF Called, Posts
<1> HIDE DEF T, K, tensors, called, posts
<1> DEFINE r == queue \o posts
           n == Len(queue)
           m == Len(tensors)
<1>1. m \in Nat /\ DOMAIN tensors = 1..m /\ \A i \in DOMAIN tensors : tensors[i] \in K
  BY <1>0
<1>2. /\ posts \in Seq(T \X K) /\ Len(posts) = m /\ DOMAIN posts = 1..m
      /\ \A i \in 1..m : posts[i] = <<t, tensors[i]>>
  BY <1>0, <1>1
<1>3. n \in Nat /\ DOMAIN queue = 1..n
  BY <1>0
<1> HIDE DEF m, n
<1>4. /\ r \in Seq(T \X K) /\ Len(r) = n + m /\ DOMAIN r = 1..(n + m)
      /\ \A i \in 1..(n + m) : r[i] = IF i <= n THEN queue[i] ELSE posts[i - n]
  <2>1. /\ r \in Seq(T \X K) /\ Len(r) = Len(queue) + Len(posts)
        /\ \A i \in 1..(Len(queue) + Len(posts)) :
              r[i] = IF i <= Len(queue) THEN queue[i] ELSE posts[i - Len(queue)]
    BY <1>0, <1>2, ConcatProperties
  <2> HIDE DEF r
  <2>2. DOMAIN r = 1..Len(r)
    BY <2>1, LenProperties
  <2>3. QED
    BY <1>2, <2>1, <2>2 DEF n
<1> HIDE DEF r
<1>5. \A i \in DOMAIN r : \/ (i <= n /\ i \in DOMAIN queue /\ r[i] = queue[i])
                       \/ (i > n /\ i - n \in 1..m /\ r[i] = <<t, tensors[i - n]>>)
  <2>1. ASSUME NEW i \in DOMAIN r, i <= n
        PROVE  i \in DOMAIN queue /\ r[i] = queue[i]
    BY <1>1, <1>3, <1>4, <2>1
  <2>2. ASSUME NEW i \in DOMAIN r, ~(i <= n)
        PROVE  i > n /\ i - n \in 1..m /\ r[i] = <<t, tensors[i - n]>>
    <3>1. i \in Int /\ n \in Int /\ m \in Int /\ i \in 1..(n + m)
      BY <1>1, <1>3, <1>4
    <3>2. i > n /\ i - n \in 1..m
      BY <2>2, <3>1
    <3>3. r[i] = posts[i - n]
      BY <1>4, <2>2, <3>1
    <3>4. QED
      BY <1>2, <3>2, <3>3
  <2>3. QED
    BY <2>1, <2>2
<1>6. /\ \A i \in DOMAIN queue : i \in DOMAIN r /\ r[i] = queue[i]
      /\ \A i \in 1..m : n + i \in DOMAIN r /\ r[n + i] = <<t, tensors[i]>>
  <2>1. ASSUME NEW i \in DOMAIN queue
        PROVE  i \in DOMAIN r /\ r[i] = queue[i]
    <3>1. i <= n /\ i \in 1..(n + m)
      BY <1>1, <1>3
    <3>2. QED
      BY <1>4, <3>1
  <2>2. ASSUME NEW i \in 1..m
        PROVE  n + i \in DOMAIN r /\ r[n + i] = <<t, tensors[i]>>
    <3>1. ~(n + i <= n) /\ n + i \in DOMAIN r /\ n + i \in 1..(n + m) /\ (n + i) - n = i
      BY <1>1, <1>3, <1>4
    <3>2. r[n + i] = posts[(n + i) - n]
      BY <1>4, <3>1
    <3>3. QED
      BY <1>2, <3>1, <3>2
  <2>3. QED
    BY <2>1, <2>2
<1>7. /\ \A i \in DOMAIN queue : queue[i][1] \in called /\ queue[i][1] < t
      /\ \A i, j \in DOMAIN queue : i < j => PostBefore(tensors, queue[i], queue[j])
  BY <1>0 DEF QueueOf
<1>8. \A i \in DOMAIN r : r[i][1] \in called \cup {t}
  BY <1>5, <1>7
<1>9. ASSUME NEW i \in DOMAIN r, NEW j \in DOMAIN r, i < j
      PROVE  PostBefore(tensors, r[i], r[j])
  <2>0. i \in Int /\ j \in Int /\ n \in Int
    BY <1>1, <1>3, <1>4
  <2>1. CASE i <= n /\ j <= n
    <3>1. i \in DOMAIN queue /\ j \in DOMAIN queue /\ r[i] = queue[i] /\ r[j] = queue[j]
      BY <1>5, <2>0, <2>1
    <3>2. QED
      BY <1>7, <1>9, <3>1
  <2>2. CASE i <= n /\ j > n
    <3>1. i \in DOMAIN queue /\ r[i] = queue[i] /\ r[j] = <<t, tensors[j - n]>>
      BY <1>5, <2>0, <2>2
    <3>2. QED
      BY <1>7, <3>1 DEF PostBefore
  <2>3. CASE i > n
    <3>1. /\ i - n \in DOMAIN tensors /\ j - n \in DOMAIN tensors /\ i - n < j - n
          /\ r[i] = <<t, tensors[i - n]>> /\ r[j] = <<t, tensors[j - n]>>
      BY <1>1, <1>5, <1>9, <2>0, <2>3
    <3>2. QED
      BY <3>1 DEF PostBefore
  <2>4. QED
    BY <2>0, <2>1, <2>2, <2>3
<1>10. ASSUME NEW x
       PROVE  x \in ToSet(r) <=> (x \in ToSet(queue) \/ x \in {t} \X K)
  <2>1. ASSUME x \in ToSet(r)
        PROVE  x \in ToSet(queue) \/ x \in {t} \X K
    <3>1. PICK i \in DOMAIN r : x = r[i]
      BY <2>1 DEF ToSet
    <3>2. CASE i \in DOMAIN queue /\ r[i] = queue[i]
      BY <3>1, <3>2 DEF ToSet
    <3>3. CASE i - n \in 1..m /\ r[i] = <<t, tensors[i - n]>>
      BY <1>1, <3>1, <3>3
    <3>4. QED
      BY <1>5, <3>2, <3>3
  <2>2. ASSUME x \in ToSet(queue)
        PROVE  x \in ToSet(r)
    BY <1>6, <2>2 DEF ToSet
  <2>3. ASSUME x \in {t} \X K
        PROVE  x \in ToSet(r)
    <3>1. PICK k \in K : x = <<t, k>>
      BY <2>3
    <3>2. PICK i \in DOMAIN tensors : k = tensors[i]
      BY <1>0
    <3>3. n + i \in DOMAIN r /\ r[n + i] = x
      BY <1>1, <1>6, <3>1, <3>2
    <3>4. QED
      BY <3>3 DEF ToSet
  <2>4. QED
    BY <2>1, <2>2, <2>3
<1>11. QED
  BY <1>4, <1>8, <1>9, <1>10 DEF QueueOf, r, T, K, tensors, called, posts

(* A transfer takes the oldest post of a queue.                             *)
LEMMA PostTail ==
  ASSUME NEW tensors, \A i, j \in DOMAIN tensors : tensors[i] = tensors[j] => i = j,
         DOMAIN tensors \in SUBSET Int,
         NEW P, NEW called \in SUBSET Int, NEW queue \in Seq(P),
         QueueOf(tensors, called, queue), queue # <<>>
  PROVE  /\ Tail(queue) \in Seq(P) /\ QueueOf(tensors, called, Tail(queue))
         /\ Head(queue) \in P /\ Head(queue) \in ToSet(queue) /\ Head(queue)[1] \in called
         /\ \A x : x \in ToSet(Tail(queue)) <=> x \in ToSet(queue) /\ x # Head(queue)
         /\ \A x \in ToSet(queue) : x = Head(queue) \/ PostBefore(tensors, Head(queue), x)
<1> DEFINE r == Tail(queue)
           n == Len(queue)
<1>1. /\ n \in Nat \ {0} /\ DOMAIN queue = 1..n /\ Head(queue) = queue[1]
      /\ r \in Seq(P) /\ Len(r) = n - 1 /\ DOMAIN r = 1..(n - 1)
      /\ \A i \in DOMAIN r : r[i] = queue[i + 1]
  BY HeadTailProperties, EmptySeq
<1>2. \A i \in DOMAIN queue : queue[i] \in P
  OBVIOUS
<1> HIDE DEF r, n
<1>3. /\ \A i \in DOMAIN queue : queue[i][1] \in called
      /\ \A i, j \in DOMAIN queue : i < j => PostBefore(tensors, queue[i], queue[j])
  BY DEF QueueOf
<1>4. \A i \in DOMAIN r : i \in Int /\ i + 1 \in DOMAIN queue /\ r[i] = queue[i + 1]
  BY <1>1
<1>5. QueueOf(tensors, called, r)
  <2>1. \A i \in DOMAIN r : r[i][1] \in called
    BY <1>3, <1>4
  <2>2. ASSUME NEW i \in DOMAIN r, NEW j \in DOMAIN r, i < j
        PROVE  PostBefore(tensors, r[i], r[j])
    <3>1. i + 1 < j + 1
      BY <1>4, <2>2
    <3>2. QED
      BY <1>3, <1>4, <3>1
  <2>3. QED
    BY <2>1, <2>2 DEF QueueOf
<1>6. 1 \in DOMAIN queue
  BY <1>1
<1>7. \A i \in DOMAIN queue : i = 1 \/ PostBefore(tensors, queue[1], queue[i])
  BY <1>1, <1>3, <1>6
<1>8. ~PostBefore(tensors, queue[1], queue[1])
  <2>1. queue[1][1] \in Int
    BY <1>3, <1>6
  <2>2. QED
    BY <2>1 DEF PostBefore
<1>9. ASSUME NEW x
      PROVE  x \in ToSet(r) <=> x \in ToSet(queue) /\ x # queue[1]
  <2>1. ASSUME x \in ToSet(r)
        PROVE  x \in ToSet(queue) /\ x # queue[1]
    <3>1. PICK i \in DOMAIN r : x = r[i]
      BY <2>1 DEF ToSet
    <3>2. i + 1 \in DOMAIN queue /\ x = queue[i + 1] /\ i + 1 # 1
      BY <1>1, <1>4, <3>1
    <3>3. PostBefore(tensors, queue[1], x)
      BY <1>7, <3>2
    <3>4. QED
      BY <1>8, <3>2, <3>3 DEF ToSet
  <2>2. ASSUME x \in ToSet(queue), x # queue[1]
        PROVE  x \in ToSet(r)
    <3>1. PICK i \in DOMAIN queue : x = queue[i]
      BY <2>2 DEF ToSet
    <3>2. i # 1
      BY <2>2, <3>1
    <3>3. i - 1 \in DOMAIN r /\ r[i - 1] = queue[(i - 1) + 1] /\ (i - 1) + 1 = i
      BY <1>1, <3>2
    <3>4. QED
      BY <3>1, <3>3 DEF ToSet
  <2>3. QED
    BY <2>1, <2>2
<1>10. /\ queue[1] \in ToSet(queue)
       /\ \A x \in ToSet(queue) : x = queue[1] \/ PostBefore(tensors, queue[1], x)
  BY <1>6, <1>7 DEF ToSet
<1>11. QED
  BY <1>1, <1>2, <1>3, <1>5, <1>6, <1>9, <1>10 DEF r
-----------------------------------------------------------------------------
(* What a step leaves alone.                                                *)
LEMMA SameQueues ==
  ASSUME NEW p \in Stages, QueuesOf(p), sends'[p] = sends[p], recvs'[p] = recvs[p],
         cpu'[p] = cpu[p], work' = work, hop' = hop
  PROVE  QueuesOf(p)'
<1>1. Called(p)' = Called(p) /\ Tensors' = Tensors
  BY DEF Called, Tensors
<1>2. QED
  BY <1>1 DEF QueuesOf

LEMMA SameLink ==
  ASSUME NEW p \in Stages, LinkOf(p), sends'[p] = sends[p], recvs'[p + 1] = recvs[p + 1],
         cpu'[p] = cpu[p], cpu'[p + 1] = cpu[p + 1], work' = work, hop' = hop
  PROVE  LinkOf(p)'
<1>1. Keys' = Keys
  BY DEF Keys, Tensors
<1>2. \A t, k : (ToSend(p, t, k)' <=> ToSend(p, t, k)) /\ (ToRecv(p + 1, t, k)' <=> ToRecv(p + 1, t, k))
  BY DEF ToSend, ToRecv
<1>3. QED
  BY <1>1, <1>2 DEF LinkOf

LEMMA SameWaits ==
  ASSUME NEW p \in Stages, StreamOf(p), WaitsOf(p), sends'[p] = sends[p], recvs'[p] = recvs[p],
         stream'[p] = stream[p], cpu'[p] = cpu[p], work' = work, hop' = hop
  PROVE  WaitsOf(p)'
<1>1. Keys' = Keys
  BY DEF Keys, Tensors
<1>2. \A t, k : (ToSend(p, t, k)' <=> ToSend(p, t, k)) /\ (ToRecv(p, t, k)' <=> ToRecv(p, t, k))
  BY DEF ToSend, ToRecv
<1>3. \A u, other : (Waiting(p, u, other)' <=> Waiting(p, u, other)) /\ (Due(p, u, other)' <=> Due(p, u, other))
  BY SameStream
<1>4. QED
  BY <1>1, <1>2, <1>3 DEF WaitsOf

LEMMA SameData ==
  ASSUME NEW p \in Stages, StreamOf(p), DataOf(p), recvs'[p] = recvs[p], stream'[p] = stream[p],
         cpu'[p] = cpu[p], rbuf'[p] = rbuf[p], inbuf'[p] = inbuf[p], out'[p] = out[p],
         work' = work, hop' = hop
  PROVE  DataOf(p)'
<1>1. Keys' = Keys /\ \A t : All(t)' = All(t)
  BY DEF Keys, Tensors, All
<1>2. \A t, k : ToRecv(p, t, k)' <=> ToRecv(p, t, k)
  BY DEF ToRecv
<1>3. \A u, other : (Waiting(p, u, other)' <=> Waiting(p, u, other)) /\ (Due(p, u, other)' <=> Due(p, u, other))
  BY SameStream
<1>4. \A u, other : Done(p, u, other)' <=> Done(p, u, other)
  BY <1>3 DEF Done
<1>5. QED
  BY <1>1, <1>2, <1>3, <1>4 DEF DataOf

LEMMA SameSeen ==
  ASSUME NEW p \in 0..PPSize, SeenOf(p), Seen(p)' = Seen(p),
         \A t \in Steps : Passed(p, t)' <=> Passed(p, t)
  PROVE  SeenOf(p)'
  BY DEF SeenOf

LEMMA SamePrefix ==
  ASSUME NEW p \in Stages, PrefixOf(p), Seen(p)' = Seen(p), Seen(p - 1)' = Seen(p - 1)
  PROVE  PrefixOf(p)'
  BY DEF PrefixOf

(* What stage p saw depends on its own forwards only.                       *)
LEMMA SeenLocal ==
  ASSUME NEW p \in 0..PPSize, hop' = hop,
         p = 0 => fed' = fed, p # 0 => got'[p] = got[p]
  PROVE  Seen(p)' = Seen(p)
  BY DEF Seen, StepOf, Keys, Tensors
-----------------------------------------------------------------------------
(* A call of execute_model.                                                 *)

(* What a call with number t changes on rank p.                             *)
CallFacts(p, t) ==
  /\ t \in Steps /\ cpu[p] \in Nat
  /\ hop' = hop /\ work' = work /\ rbuf' = rbuf /\ inbuf' = inbuf /\ out' = out /\ got' = got
  /\ fed' = IF work[t] /\ p = 1 THEN Append(fed, t) ELSE fed
  /\ cpu'[p] = t /\ StreamOf(p)' /\ QueuesOf(p)'
  /\ sendWork'[p] = IF work[t] /\ p < PPSize THEN {t} \X Keys ELSE {}
  /\ \A q \in Stages : q # p =>
       /\ cpu'[q] = cpu[q] /\ stream'[q] = stream[q] /\ sendWork'[q] = sendWork[q]
       /\ sends'[q] = sends[q] /\ recvs'[q] = recvs[q]
  /\ \A u, other : Waiting(p, u, other)' <=>
       (Waiting(p, u, other) \/ (u = t /\ Posted(p, t, other)))
  /\ \A u, other : Due(p, u, other)' <=>
       (Due(p, u, other) \/ (u = t /\ Posted(p, t, other)))
  /\ \A u, k : ToSend(p, u, k)' <=>
       (ToSend(p, u, k) \/ (u = t /\ k \in Keys /\ work[t] /\ p < PPSize))
  /\ \A u, k : ToRecv(p, u, k)' <=>
       (ToRecv(p, u, k) \/ (u = t /\ k \in Keys /\ work[t] /\ p > 1))
  /\ TypeOK'

LEMMA CallEffect ==
  ASSUME IInv, NEW p \in Stages, ExecuteModel(p), NEW t, t = cpu[p] + 1
  PROVE  CallFacts(p, t)
<1>1. /\ t \in Steps /\ cpu[p] \in Nat /\ t \in Int /\ cpu[p] < t /\ t \in 0..MaxSteps
      /\ PPSize \in Int /\ p \in Int /\ p >= 1 /\ p <= PPSize
  <2>1. t \in Steps
    BY DEF ExecuteModel, CanCall
  <2>2. cpu[p] \in 0..MaxSteps
    BY DEF IInv, TypeOK
  <2>3. QED
    BY <2>1, <2>2, StagesInt
<1>2. TypeOK /\ SendWorkOK /\ StreamOf(p) /\ QueuesOf(p)
  BY DEF IInv, StreamOK, QueuesOK
<1>3. hop' = hop /\ work' = work /\ rbuf' = rbuf /\ inbuf' = inbuf /\ out' = out /\ got' = got
  BY DEF ExecuteModel
<1>4. fed' = IF work[t] /\ p = 1 THEN Append(fed, t) ELSE fed
  BY DEF ExecuteModel
<1>5. /\ cpu' = [cpu EXCEPT ![p] = t]
      /\ stream' = [stream EXCEPT ![p] = (@ \o WaitSends(p, t)) \o (IF work[t] THEN ForwardOps(p, t) ELSE <<>>)]
      /\ recvs' = [recvs EXCEPT ![p] = IF work[t] /\ p > 1 THEN @ \o Posts(t) ELSE @]
      /\ sends' = [sends EXCEPT ![p] = IF work[t] /\ p < PPSize THEN @ \o Posts(t) ELSE @]
      /\ sendWork' = [sendWork EXCEPT ![p] = IF work[t] /\ p < PPSize THEN SendHandles(t) ELSE {}]
  BY DEF ExecuteModel
<1>6. /\ cpu \in [Stages -> 0..MaxSteps] /\ stream \in [Stages -> Seq(Ops)]
      /\ sends \in [Stages -> Seq(Steps \X Keys)] /\ recvs \in [Stages -> Seq(Steps \X Keys)]
      /\ sendWork \in [Stages -> SUBSET (Steps \X Keys)]
  BY <1>2 DEF TypeOK
<1>7. \A q \in Stages : q # p =>
         /\ cpu'[q] = cpu[q] /\ stream'[q] = stream[q] /\ sendWork'[q] = sendWork[q]
         /\ sends'[q] = sends[q] /\ recvs'[q] = recvs[q]
  BY <1>5, <1>6
<1>8. cpu'[p] = t
  BY <1>5, <1>6
<1>9. sendWork'[p] = IF work[t] /\ p < PPSize THEN {t} \X Keys ELSE {}
  BY <1>1, <1>2, <1>5, <1>6, AllHandles
<1>10. stream'[p] = stream[p] \o NewOps(p, t)
  <2> DEFINE run == IF work[t] THEN ForwardOps(p, t) ELSE <<>>
             ws == WaitSends(p, t)
             s == stream[p]
             O == Ops
  <2>1. stream'[p] = (s \o ws) \o run
    BY <1>5, <1>6
  <2>2. ws \in Seq(O)
    BY <1>1, <1>2, CallPosts
  <2>3. run \in Seq(O)
    BY <1>1, <1>2, CallPosts
  <2>4. s \in Seq(O)
    BY <1>6
  <2> HIDE DEF run, ws, s, O
  <2>5. (s \o ws) \o run = s \o (ws \o run)
    BY <2>2, <2>3, <2>4, ConcatAssociative
  <2>6. stream'[p] = s \o (ws \o run)
    BY <2>1, <2>5
  <2>7. QED
    BY <2>6 DEF NewOps, ws, run, s
<1>11. /\ StreamOf(p)' /\ stream'[p] \in Seq(Ops)
       /\ \A u, other : Waiting(p, u, other)' <=>
            (Waiting(p, u, other) \/ (u = t /\ Posted(p, t, other)))
       /\ \A u, other : Due(p, u, other)' <=>
            (Due(p, u, other) \/ (u = t /\ Posted(p, t, other)))
  BY <1>1, <1>2, <1>3, <1>8, <1>10, PostStream
<1>12. /\ Tensors' = Tensors /\ Keys' = Keys
       /\ Called(p)' = IF work[t] THEN Called(p) \cup {t} ELSE Called(p)
  <2>1. ASSUME NEW u \in Steps
        PROVE  u <= t <=> (u <= cpu[p] \/ u = t)
    BY <1>1, StagesInt
  <2>2. \A u \in Steps : u <= cpu'[p] <=> (u <= cpu[p] \/ u = t)
    BY <1>8, <2>1
  <2>3. QED
    BY <1>1, <1>3, <2>2 DEF Called, Tensors, Keys
<1>14. \A queue \in Seq(Steps \X Keys) : QueueOf(Tensors, Called(p), queue) =>
         /\ queue \o Posts(t) \in Seq(Steps \X Keys)
         /\ QueueOf(Tensors, Called(p) \cup {t}, queue \o Posts(t))
         /\ \A x : x \in ToSet(queue \o Posts(t)) <=> (x \in ToSet(queue) \/ x \in {t} \X Keys)
  BY <1>1, <1>2, PostAppend, Zenon
<1>15. \A queue : QueueOf(Tensors, Called(p), queue) => QueueOf(Tensors, Called(p) \cup {t}, queue)
  BY DEF QueueOf
<1>16. sends[p] \in Seq(Steps \X Keys) /\ recvs[p] \in Seq(Steps \X Keys)
  BY <1>6
<1>17. /\ sends'[p] \in Seq(Steps \X Keys) /\ QueueOf(Tensors, Called(p)', sends'[p])
       /\ \A x : x \in ToSet(sends'[p]) <=>
            (x \in ToSet(sends[p]) \/ (x \in {t} \X Keys /\ work[t] /\ p < PPSize))
       /\ p = PPSize => sends'[p] = <<>>
  <2>1. CASE work[t] /\ p < PPSize
    <3>1. sends'[p] = sends[p] \o Posts(t)
      BY <1>5, <1>6, <2>1
    <3>2. QueueOf(Tensors, Called(p), sends[p])
      BY <1>2 DEF QueuesOf
    <3>3. /\ sends'[p] \in Seq(Steps \X Keys)
          /\ QueueOf(Tensors, Called(p) \cup {t}, sends'[p])
          /\ \A x : x \in ToSet(sends'[p]) <=> (x \in ToSet(sends[p]) \/ x \in {t} \X Keys)
      BY <1>14, <1>16, <3>1, <3>2, Zenon
    <3>4. Called(p)' = Called(p) \cup {t}
      BY <1>12, <2>1
    <3>5. ~(p = PPSize)
      BY <1>1, <2>1
    <3>6. QED
      BY <2>1, <3>3, <3>4, <3>5, Zenon
  <2>2. CASE ~(work[t] /\ p < PPSize)
    <3>1. sends'[p] = sends[p]
      BY <1>5, <1>6, <2>2
    <3>2. QED
      BY <1>2, <1>12, <1>15, <1>16, <2>2, <3>1 DEF QueuesOf
  <2>3. QED
    BY <2>1, <2>2
<1>18. /\ recvs'[p] \in Seq(Steps \X Keys) /\ QueueOf(Tensors, Called(p)', recvs'[p])
       /\ \A x : x \in ToSet(recvs'[p]) <=>
            (x \in ToSet(recvs[p]) \/ (x \in {t} \X Keys /\ work[t] /\ p > 1))
       /\ p = 1 => recvs'[p] = <<>>
  <2>1. CASE work[t] /\ p > 1
    <3>1. recvs'[p] = recvs[p] \o Posts(t)
      BY <1>5, <1>6, <2>1
    <3>2. QueueOf(Tensors, Called(p), recvs[p])
      BY <1>2 DEF QueuesOf
    <3>3. /\ recvs'[p] \in Seq(Steps \X Keys)
          /\ QueueOf(Tensors, Called(p) \cup {t}, recvs'[p])
          /\ \A x : x \in ToSet(recvs'[p]) <=> (x \in ToSet(recvs[p]) \/ x \in {t} \X Keys)
      BY <1>14, <1>16, <3>1, <3>2, Zenon
    <3>4. Called(p)' = Called(p) \cup {t}
      BY <1>12, <2>1
    <3>5. ~(p = 1)
      BY <1>1, <2>1
    <3>6. QED
      BY <2>1, <3>3, <3>4, <3>5, Zenon
  <2>2. CASE ~(work[t] /\ p > 1)
    <3>1. recvs'[p] = recvs[p]
      BY <1>5, <1>6, <2>2
    <3>2. QED
      BY <1>2, <1>12, <1>15, <1>16, <2>2, <3>1 DEF QueuesOf
  <2>3. QED
    BY <2>1, <2>2
<1>19. QueuesOf(p)'
  BY <1>12, <1>17, <1>18 DEF QueuesOf
<1>20. /\ \A u, k : ToSend(p, u, k)' <=>
            (ToSend(p, u, k) \/ (u = t /\ k \in Keys /\ work[t] /\ p < PPSize))
       /\ \A u, k : ToRecv(p, u, k)' <=>
            (ToRecv(p, u, k) \/ (u = t /\ k \in Keys /\ work[t] /\ p > 1))
  BY <1>17, <1>18 DEF ToSend, ToRecv
<1>21. TypeOK'
  <2>1. cpu' \in [Stages -> 0..MaxSteps]
    BY <1>1, <1>5, <1>6
  <2>2. stream' \in [Stages -> Seq(Ops)]
    BY <1>5, <1>6, <1>11
  <2>3. sends' \in [Stages -> Seq(Steps \X Keys)]
    BY <1>5, <1>6, <1>17
  <2>4. recvs' \in [Stages -> Seq(Steps \X Keys)]
    BY <1>5, <1>6, <1>18
  <2>5. sendWork' \in [Stages -> SUBSET (Steps \X Keys)]
    <3>1. sendWork'[p] \in SUBSET (Steps \X Keys)
      BY <1>1, <1>9
    <3>2. QED
      BY <1>5, <1>6, <3>1
  <2>6. fed' \in Seq(Steps)
    <3>1. fed \in Seq(Steps)
      BY <1>2 DEF TypeOK
    <3>2. QED
      BY <1>1, <1>4, <3>1
  <2>7. Ops' = Ops
    BY <1>12 DEF Ops
  <2>8. QED
    BY <1>2, <1>3, <1>12, <2>1, <2>2, <2>3, <2>4, <2>5, <2>6, <2>7 DEF TypeOK
<1>22. QED
  BY <1>1, <1>3, <1>4, <1>7, <1>8, <1>9, <1>11, <1>19, <1>20, <1>21 DEF CallFacts

(* A call's posts are those of a step with tokens that was called; the      *)
(* first rank receives nothing, the last sends nothing.                     *)
LEMMA QueueCalled ==
  ASSUME NEW p \in Stages, QueuesOf(p)
  PROVE  /\ \A t, k : ToSend(p, t, k) => t \in Called(p) /\ t <= cpu[p] /\ work[t] /\ p # PPSize
         /\ \A t, k : ToRecv(p, t, k) => t \in Called(p) /\ t <= cpu[p] /\ work[t] /\ p # 1
<1>1. \A x : x \in ToSet(<<>>) => FALSE
  BY DEF ToSet
<1>2. \A queue : QueueOf(Tensors, Called(p), queue) => \A x \in ToSet(queue) : x[1] \in Called(p)
  BY DEF QueueOf, ToSet
<1>3. \A t, k : <<t, k>>[1] = t
  OBVIOUS
<1>4. QED
  BY <1>1, <1>2, <1>3 DEF QueuesOf, ToSend, ToRecv, Called

(* A step later than all that a stage saw.                                  *)
Increasing(s) == \A i, j \in DOMAIN s : i < j => s[i] < s[j]

LEMMA SeenAppend ==
  ASSUME NEW s \in Seq(Steps), Increasing(s), NEW t \in Steps, \A i \in DOMAIN s : s[i] < t
  PROVE  /\ Append(s, t) \in Seq(Steps) /\ Increasing(Append(s, t))
         /\ Len(s) \in Nat /\ DOMAIN s = 1..Len(s)
         /\ Len(Append(s, t)) = Len(s) + 1 /\ DOMAIN Append(s, t) = 1..(Len(s) + 1)
         /\ Append(s, t)[Len(s) + 1] = t
         /\ \A i \in DOMAIN s : i \in DOMAIN Append(s, t) /\ Append(s, t)[i] = s[i]
         /\ \A u : (\E i \in DOMAIN Append(s, t) : Append(s, t)[i] = u) <=>
              ((\E i \in DOMAIN s : s[i] = u) \/ u = t)
<1> DEFINE r == Append(s, t)
           n == Len(s)
<1>1. /\ r \in Seq(Steps) /\ Len(r) = n + 1 /\ n \in Nat /\ DOMAIN s = 1..n /\ DOMAIN r = 1..(n + 1)
      /\ r[n + 1] = t /\ \A i \in 1..n : r[i] = s[i]
  BY AppendProperties
<1> HIDE DEF r, n
<1>2. \A i \in DOMAIN r : i \in Int /\ ((i \in DOMAIN s /\ r[i] = s[i] /\ i <= n) \/ (i = n + 1 /\ r[i] = t))
  BY <1>1
<1>3. Increasing(r)
  <2>1. ASSUME NEW i \in DOMAIN r, NEW j \in DOMAIN r, i < j
        PROVE  r[i] < r[j]
    <3>1. i \in DOMAIN s /\ r[i] = s[i]
      BY <1>1, <2>1
    <3>2. QED
      BY <1>2, <2>1, <3>1 DEF Increasing
  <2>2. QED
    BY <2>1 DEF Increasing
<1>4. ASSUME NEW u
      PROVE  (\E i \in DOMAIN r : r[i] = u) <=> ((\E i \in DOMAIN s : s[i] = u) \/ u = t)
  <2>1. \A i \in DOMAIN s : i \in DOMAIN r
    BY <1>1
  <2>2. n + 1 \in DOMAIN r
    BY <1>1
  <2>3. QED
    BY <1>1, <1>2, <2>1, <2>2
<1>5. QED
  BY <1>1, <1>3, <1>4 DEF r, n

LEMMA CallInv ==
  ASSUME IInv, NEW p \in Stages, ExecuteModel(p)
  PROVE  IInv'
<1>0. PICK t : t = cpu[p] + 1 /\ CallFacts(p, t)
  BY CallEffect
<1>1. /\ t \in Steps /\ cpu[p] \in Nat
      /\ hop' = hop /\ work' = work /\ rbuf' = rbuf /\ inbuf' = inbuf /\ out' = out /\ got' = got
      /\ fed' = IF work[t] /\ p = 1 THEN Append(fed, t) ELSE fed
      /\ cpu'[p] = t /\ StreamOf(p)' /\ QueuesOf(p)'
      /\ sendWork'[p] = IF work[t] /\ p < PPSize THEN {t} \X Keys ELSE {}
      /\ TypeOK'
  BY <1>0 DEF CallFacts
<1>2. \A q \in Stages : q # p =>
         /\ cpu'[q] = cpu[q] /\ stream'[q] = stream[q] /\ sendWork'[q] = sendWork[q]
         /\ sends'[q] = sends[q] /\ recvs'[q] = recvs[q]
  BY <1>0 DEF CallFacts
<1>3. /\ \A u, other : Waiting(p, u, other)' <=> (Waiting(p, u, other) \/ (u = t /\ Posted(p, t, other)))
      /\ \A u, other : Due(p, u, other)' <=> (Due(p, u, other) \/ (u = t /\ Posted(p, t, other)))
  BY <1>0 DEF CallFacts
<1>4. /\ \A u, k : ToSend(p, u, k)' <=>
            (ToSend(p, u, k) \/ (u = t /\ k \in Keys /\ work[t] /\ p < PPSize))
      /\ \A u, k : ToRecv(p, u, k)' <=>
            (ToRecv(p, u, k) \/ (u = t /\ k \in Keys /\ work[t] /\ p > 1))
  BY <1>0 DEF CallFacts
<1>5. /\ cpu[p] = t - 1 /\ t \in Int /\ p \in Int /\ p >= 1 /\ p <= PPSize /\ PPSize \in Int /\ PPSize > 1
      /\ \A u \in Steps : u \in Int /\ u >= 1 /\ (u <= t <=> (u <= cpu[p] \/ u = t)) /\ (u < t <=> u <= cpu[p])
                          /\ (u > t => u > cpu[p])
  BY <1>0, <1>1, StagesInt
<1>6. /\ TypeOK /\ (\A q \in Stages : StreamOf(q) /\ QueuesOf(q) /\ WaitsOf(q) /\ DataOf(q) /\ PrefixOf(q))
      /\ (\A q \in Stages : q < PPSize => LinkOf(q)) /\ (\A q \in 0..PPSize : SeenOf(q))
      /\ SendWorkOK
  BY DEF IInv, StreamOK, QueuesOK, WaitsOK, DataOK, PrefixOK, LinkOK, SeenOK
<1>7. Keys' = Keys /\ \A u : All(u)' = All(u)
  BY <1>1 DEF Keys, Tensors, All
<1>8. /\ \A u, k : ToSend(p, u, k) => u <= cpu[p] /\ work[u] /\ p < PPSize
      /\ \A u, k : ToRecv(p, u, k) => u <= cpu[p] /\ work[u] /\ p > 1
  BY <1>5, <1>6, QueueCalled
<1>9. \A u, other : Waiting(p, u, other) => Due(p, u, other)
  BY <1>6 DEF StreamOf, Waiting
<1>10. \A other : ~Due(p, t, other)
  BY <1>1, <1>5 DEF Due
<1>11. \A u, other : Done(p, u, other)' <=> Done(p, u, other)
  BY <1>3, <1>9, <1>10 DEF Done
<1>12. StreamOK'
  BY <1>1, <1>2, <1>6, SameStream DEF StreamOK
<1>13. SendWorkOK'
  <2>1. ASSUME NEW q \in Stages, q # p
        PROVE  sendWork'[q] = IF cpu'[q] > 0 /\ work[cpu'[q]] /\ q < PPSize THEN {cpu'[q]} \X Keys ELSE {}
    BY <1>2, <1>6, <2>1 DEF SendWorkOK
  <2>2. t > 0
    BY <1>1, <1>5
  <2>3. sendWork'[p] = IF cpu'[p] > 0 /\ work[cpu'[p]] /\ p < PPSize THEN {cpu'[p]} \X Keys ELSE {}
    BY <1>1, <2>2, Zenon
  <2>4. QED
    BY <1>1, <1>7, <2>1, <2>3 DEF SendWorkOK
<1>14. QueuesOK'
  BY <1>1, <1>2, <1>6, SameQueues DEF QueuesOK
<1>15. ASSUME NEW q \in Stages, q < PPSize
       PROVE  LinkOf(q)'
  <2>0. q + 1 \in Stages /\ q # q + 1 /\ q \in Int
    BY <1>15, StagesInt DEF Stages
  <2>1. CASE q # p /\ q + 1 # p
    BY <1>1, <1>2, <1>6, <1>15, <2>0, <2>1, SameLink
  <2>2. CASE q = p
    <3>1. ASSUME NEW u \in Steps, NEW k \in Keys, work[u]
          PROVE  /\ u <= t /\ u <= cpu[q + 1] => (ToSend(q, u, k)' <=> ToRecv(q + 1, u, k))
                 /\ u <= t /\ u > cpu[q + 1] => ToSend(q, u, k)'
                 /\ u > t /\ u <= cpu[q + 1] => ToRecv(q + 1, u, k)
      <4>1. /\ u <= cpu[q] /\ u <= cpu[q + 1] => (ToSend(q, u, k) <=> ToRecv(q + 1, u, k))
            /\ u <= cpu[q] /\ u > cpu[q + 1] => ToSend(q, u, k)
            /\ u > cpu[q] /\ u <= cpu[q + 1] => ToRecv(q + 1, u, k)
        BY <1>6, <1>15, <3>1 DEF LinkOf
      <4>2. ToSend(q, u, k)' <=> (ToSend(q, u, k) \/ u = t)
        BY <1>4, <1>15, <2>2, <3>1
      <4>3. u = t => u > cpu[q]
        BY <1>5, <2>2
      <4>4. (u <= t <=> (u <= cpu[q] \/ u = t)) /\ (u > t => u > cpu[q])
        BY <1>5, <2>2
      <4>5. QED
        BY <4>1, <4>2, <4>3, <4>4
    <3>2. \A u, k : ToRecv(q + 1, u, k)' <=> ToRecv(q + 1, u, k)
      BY <1>2, <2>0, <2>2 DEF ToRecv
    <3>3. cpu'[q] = t /\ cpu'[q + 1] = cpu[q + 1]
      BY <1>1, <1>2, <2>0, <2>2
    <3>4. QED
      BY <1>1, <1>7, <3>1, <3>2, <3>3 DEF LinkOf
  <2>3. CASE q + 1 = p
    <3>1. ASSUME NEW u \in Steps, NEW k \in Keys, work[u]
          PROVE  /\ u <= cpu[q] /\ u <= t => (ToSend(q, u, k) <=> ToRecv(p, u, k)')
                 /\ u <= cpu[q] /\ u > t => ToSend(q, u, k)
                 /\ u > cpu[q] /\ u <= t => ToRecv(p, u, k)'
      <4>1. /\ u <= cpu[q] /\ u <= cpu[p] => (ToSend(q, u, k) <=> ToRecv(p, u, k))
            /\ u <= cpu[q] /\ u > cpu[p] => ToSend(q, u, k)
            /\ u > cpu[q] /\ u <= cpu[p] => ToRecv(p, u, k)
        BY <1>6, <1>15, <2>3, <3>1 DEF LinkOf
      <4>2. ToRecv(p, u, k)' <=> (ToRecv(p, u, k) \/ u = t)
        BY <1>4, <1>15, <1>5, <2>3, <3>1, StagesInt
      <4>3. u = t => u > cpu[p]
        BY <1>5
      <4>4. (u <= t <=> (u <= cpu[p] \/ u = t)) /\ (u > t => u > cpu[p])
        BY <1>5
      <4>5. QED
        BY <4>1, <4>2, <4>3, <4>4
    <3>2. \A u, k : ToSend(q, u, k)' <=> ToSend(q, u, k)
      BY <1>2, <2>0, <2>3 DEF ToSend
    <3>3. cpu'[q] = cpu[q] /\ cpu'[q + 1] = t
      BY <1>1, <1>2, <2>0, <2>3
    <3>4. QED
      BY <1>1, <1>7, <2>3, <3>1, <3>2, <3>3 DEF LinkOf
  <2>4. QED
    BY <2>1, <2>2, <2>3
<1>16. LinkOK'
  BY <1>15 DEF LinkOK
<1>17. WaitsOf(p)'
  <2>1. ASSUME NEW u \in Steps, NEW k \in Keys
        PROVE  /\ ToSend(p, u, k) /\ u < cpu[p] => Waiting(p, u + 1, "waitSend")
               /\ ToRecv(p, u, k) => Waiting(p, u, "waitRecv")
               /\ p < PPSize /\ Due(p, u, "forward") /\ ~ToSend(p, u, k) => ~Waiting(p, u, "forward")
    BY <1>6 DEF WaitsOf
  <2>2. ASSUME NEW u \in Steps, NEW k \in Keys, ToSend(p, u, k)', u < t
        PROVE  Waiting(p, u + 1, "waitSend")'
    <3>1. ToSend(p, u, k) /\ u \in Int
      BY <1>4, <1>5, <2>2
    <3>2. CASE u < cpu[p]
      BY <1>3, <2>1, <3>1, <3>2
    <3>3. CASE ~(u < cpu[p])
      <4>1. u + 1 = t /\ t - 1 = u /\ t > 1
        BY <1>1, <1>5, <2>2, <3>1, <3>3
      <4>2. p < PPSize /\ work[u]
        BY <1>8, <3>1
      <4>3. Posted(p, t, "waitSend")
        BY <4>1, <4>2 DEF Posted, Kinds
      <4>4. QED
        BY <1>3, <4>1, <4>3
    <3>4. QED
      BY <3>2, <3>3
  <2>3. ASSUME NEW u \in Steps, NEW k \in Keys, ToRecv(p, u, k)'
        PROVE  Waiting(p, u, "waitRecv")'
    <3>1. CASE ToRecv(p, u, k)
      BY <1>3, <2>1, <3>1
    <3>2. CASE u = t /\ work[t] /\ p > 1
      BY <1>3, <3>2 DEF Posted, Kinds
    <3>3. QED
      BY <1>4, <2>3, <3>1, <3>2
  <2>4. ASSUME NEW u \in Steps, NEW k \in Keys, p < PPSize, Due(p, u, "forward")', ~ToSend(p, u, k)'
        PROVE  ~Waiting(p, u, "forward")'
    <3>1. ~ToSend(p, u, k) /\ ~(u = t /\ work[t])
      BY <1>4, <2>4
    <3>2. ~(u = t /\ Posted(p, t, "forward"))
      BY <3>1 DEF Posted
    <3>3. QED
      BY <1>3, <2>1, <2>4, <3>1, <3>2
  <2>5. QED
    BY <1>1, <1>7, <2>2, <2>3, <2>4 DEF WaitsOf
<1>18. WaitsOK'
  BY <1>1, <1>2, <1>6, <1>17, SameWaits DEF WaitsOK
<1>19. DataOf(p)'
  <2>1. \A u \in Steps : Waiting(p, u, "forward")' /\ Done(p, u, "copy") => Waiting(p, u, "forward")
    BY <1>3, <1>10 DEF Done
  <2>2. ASSUME NEW u \in Steps, NEW k \in Keys, Due(p, u, "copy")', Waiting(p, u, "copy")', ~ToRecv(p, u, k)'
        PROVE  rbuf[p][u][k] = u
    <3>1. ~(u = t /\ Posted(p, t, "copy")) /\ ~ToRecv(p, u, k)
      BY <1>4, <2>2 DEF Posted
    <3>2. Due(p, u, "copy") /\ Waiting(p, u, "copy")
      BY <1>3, <2>2, <3>1
    <3>3. QED
      BY <1>6, <3>1, <3>2 DEF DataOf
  <2>3. \A u \in Steps :
          /\ Done(p, u, "forward") /\ (\A v \in Steps : v > u => ~Done(p, v, "forward")) => out[p] = All(u)
          /\ Done(p, u, "copy") /\ Waiting(p, u, "forward") => inbuf[p] = All(u)
    BY <1>6 DEF DataOf
  <2>4. QED
    BY <1>1, <1>7, <1>11, <2>1, <2>2, <2>3 DEF DataOf
<1>20. DataOK'
  BY <1>1, <1>2, <1>6, <1>19, SameData DEF DataOK
<1>21. /\ fed \in Seq(Steps) /\ Increasing(fed)
       /\ \A u \in Steps : (u <= cpu[1] /\ work[u]) <=> \E i \in DOMAIN fed : fed[i] = u
  <2>1. SeenOf(0)
    BY <1>5, <1>6
  <2>2. QED
    BY <2>1 DEF SeenOf, Seen, Passed, Increasing
<1>22. \A q \in 1..PPSize : q \in Stages /\ Seen(q)' = Seen(q)
  BY <1>1, SeenLocal DEF Stages
<1>23. \A q \in 1..PPSize : SeenOf(q)'
  <2>1. ASSUME NEW q \in 1..PPSize
        PROVE  \A u \in Steps : Passed(q, u)' <=> Passed(q, u)
    <3>1. q \in Stages /\ q # 0
      BY <1>5 DEF Stages
    <3>2. CASE q = p
      BY <1>11, <3>1, <3>2 DEF Passed
    <3>3. CASE q # p
      <4>1. \A u, other : (Waiting(q, u, other)' <=> Waiting(q, u, other)) /\ (Due(q, u, other)' <=> Due(q, u, other))
        BY <1>1, <1>2, <1>6, <3>1, <3>3, SameStream
      <4>2. QED
        BY <3>1, <4>1 DEF Passed, Done
    <3>4. QED
      BY <3>2, <3>3
  <2>2. \A q \in 1..PPSize : q \in 0..PPSize
    BY <1>5
  <2>3. QED
    BY <1>6, <1>22, <2>1, <2>2, SameSeen
<1>24. CASE work[t] /\ p = 1
  <2>1. fed' = Append(fed, t) /\ cpu'[1] = t
    BY <1>1, <1>24
  <2>2. \A i \in DOMAIN fed : fed[i] < t
    <3>1. ASSUME NEW i \in DOMAIN fed
          PROVE  fed[i] < t
      <4>1. fed[i] \in Steps
        BY <1>21
      <4>2. fed[i] <= cpu[1]
        BY <1>21, <4>1
      <4>3. QED
        BY <1>5, <1>24, <4>1, <4>2
    <3>2. QED
      BY <3>1
  <2>3. /\ fed' \in Seq(Steps) /\ Increasing(fed') /\ Len(fed) \in Nat /\ DOMAIN fed = 1..Len(fed)
        /\ Len(fed') = Len(fed) + 1 /\ \A i \in DOMAIN fed : fed'[i] = fed[i]
        /\ \A u : (\E i \in DOMAIN fed' : fed'[i] = u) <=> ((\E i \in DOMAIN fed : fed[i] = u) \/ u = t)
    BY <1>1, <1>21, <2>1, <2>2, SeenAppend
  <2>4. \A u \in Steps : (u <= cpu'[1] /\ work'[u]) <=> \E i \in DOMAIN fed' : fed'[i] = u
    BY <1>1, <1>5, <1>21, <1>24, <2>1, <2>3
  <2>5. SeenOf(0)'
    BY <2>3, <2>4 DEF SeenOf, Seen, Passed, Increasing
  <2>6. PrefixOf(1)'
    <3>1. PrefixOf(1) /\ Seen(1)' = Seen(1) /\ Seen(0) = fed /\ Seen(0)' = fed' /\ 1 - 1 = 0
      <4>1. 1 \in 1..PPSize /\ 1 \in Stages
        BY <1>5 DEF Stages
      <4>2. PrefixOf(1) /\ Seen(1)' = Seen(1)
        BY <1>6, <1>22, <4>1
      <4>3. Seen(0) = fed /\ Seen(0)' = fed'
        BY DEF Seen
      <4>4. QED
        BY <4>2, <4>3
    <3>2. Seen(1) \in Seq(Steps)
      <4>1. SeenOf(1)
        BY <1>5, <1>6
      <4>2. QED
        BY <4>1 DEF SeenOf
    <3>3. /\ Len(Seen(1)) <= Len(fed) /\ Len(Seen(1)) \in Nat /\ DOMAIN Seen(1) = 1..Len(Seen(1))
          /\ \A i \in DOMAIN Seen(1) : Seen(1)[i] = fed[i]
      BY <3>1, <3>2, LenProperties DEF PrefixOf
    <3>4. \A i \in DOMAIN Seen(1) : i \in DOMAIN fed
      BY <2>3, <3>3
    <3>5. QED
      BY <2>3, <3>1, <3>3, <3>4 DEF PrefixOf
  <2>7. ASSUME NEW q \in Stages, q # 1
        PROVE  PrefixOf(q)'
    <3>1. q \in 1..PPSize /\ q - 1 \in 1..PPSize
      BY <2>7, StagesInt DEF Stages
    <3>2. QED
      BY <1>6, <1>22, <3>1, SamePrefix
  <2>8. QED
    <3>1. \A q \in Stages : PrefixOf(q)'
      BY <2>6, <2>7
    <3>2. \A q \in 0..PPSize : SeenOf(q)'
      BY <1>5, <1>23, <2>5
    <3>3. SeenOK' /\ PrefixOK'
      BY <3>1, <3>2 DEF SeenOK, PrefixOK
    <3>4. QED
      BY <1>1, <1>12, <1>13, <1>14, <1>16, <1>18, <1>20, <3>3 DEF IInv
<1>25. CASE ~(work[t] /\ p = 1)
  <2>1. fed' = fed /\ Seen(0)' = Seen(0)
    BY <1>1, <1>25 DEF Seen
  <2>2. \A u \in Steps : Passed(0, u)' <=> Passed(0, u)
    <3>1. CASE p = 1
      BY <1>1, <1>5, <1>25, <3>1 DEF Passed
    <3>2. CASE p # 1
      <4>1. 1 \in Stages
        BY <1>5 DEF Stages
      <4>2. QED
        BY <1>1, <1>2, <3>2, <4>1 DEF Passed
    <3>3. QED
      BY <3>1, <3>2
  <2>3. SeenOf(0)'
    BY <1>5, <1>6, <2>1, <2>2, SameSeen
  <2>4. ASSUME NEW q \in Stages
        PROVE  PrefixOf(q)'
    <3>1. q \in 1..PPSize /\ (q - 1 = 0 \/ q - 1 \in 1..PPSize)
      BY StagesInt DEF Stages
    <3>2. Seen(q - 1)' = Seen(q - 1)
      BY <1>22, <2>1, <3>1
    <3>3. QED
      BY <1>6, <1>22, <3>1, <3>2, SamePrefix
  <2>5. QED
    <3>1. \A q \in 0..PPSize : SeenOf(q)'
      BY <1>5, <1>23, <2>3
    <3>2. SeenOK' /\ PrefixOK'
      BY <2>4, <3>1 DEF SeenOK, PrefixOK
    <3>3. QED
      BY <1>1, <1>12, <1>13, <1>14, <1>16, <1>18, <1>20, <3>2 DEF IInv
<1>26. QED
  BY <1>24, <1>25

-----------------------------------------------------------------------------
(* The GPU runs the oldest operation of a stream.                           *)

(* Rank p drops the operation of step t and this kind, before all others.   *)
RunFacts(p, t, kind) ==
  /\ t \in Steps /\ kind \in Kinds /\ Due(p, t, kind)
  /\ \A u, other : Waiting(p, u, other) =>
       (u = t /\ other = kind) \/ Before(t, kind, u, other)
  /\ \A u, other : Due(p, u, other) /\ Before(t, kind, u, other) => Waiting(p, u, other)
  /\ Waiting(p, t, kind)
  /\ \A u, other : Waiting(p, u, other)' <=> Waiting(p, u, other) /\ ~(u = t /\ other = kind)
  /\ \A u, other : Due(p, u, other)' <=> Due(p, u, other)
  /\ StreamOf(p)' /\ stream' \in [Stages -> Seq(Ops)]
  /\ hop' = hop /\ work' = work /\ cpu' = cpu /\ sendWork' = sendWork
  /\ sends' = sends /\ recvs' = recvs /\ fed' = fed
  /\ \A q \in Stages : q # p => stream'[q] = stream[q]

LEMMA RunEffect ==
  ASSUME IInv, NEW p \in Stages, Run(p)
  PROVE  \E op : /\ RunFacts(p, op.step, op.kind)
                 /\ op.handles = Handles(op.step, op.kind)
                 /\ Wait(p, op) \/ Copy(p, op) \/ ForwardPass(p, op)
<1>1. TypeOK /\ StreamOf(p) /\ stream \in [Stages -> Seq(Ops)]
  BY DEF IInv, StreamOK, TypeOK
<1>2. /\ stream[p] # <<>> /\ stream' = [stream EXCEPT ![p] = Tail(@)]
      /\ hop' = hop /\ work' = work /\ cpu' = cpu /\ sendWork' = sendWork
      /\ sends' = sends /\ recvs' = recvs /\ fed' = fed
  BY DEF Run
<1>3. PICK op : op = Head(stream[p]) /\ (Wait(p, op) \/ Copy(p, op) \/ ForwardPass(p, op))
  BY DEF Run
<1>4. stream'[p] = Tail(stream[p]) /\ \A q \in Stages : q # p => stream'[q] = stream[q]
  BY <1>1, <1>2
<1>5. stream' \in [Stages -> Seq(Ops)]
  <2>1. stream[p] \in Seq(Ops)
    BY <1>1
  <2>2. Tail(stream[p]) \in Seq(Ops)
    BY <1>2, <2>1, HeadTailProperties
  <2>3. QED
    BY <1>1, <1>2, <2>2
<1>6. /\ op \in Ops /\ Due(p, op.step, op.kind) /\ Waiting(p, op.step, op.kind)
      /\ op.handles = Handles(op.step, op.kind)
      /\ \A u, other : Waiting(p, u, other) =>
           (u = op.step /\ other = op.kind) \/ Before(op.step, op.kind, u, other)
      /\ \A u, other : Due(p, u, other) /\ Before(op.step, op.kind, u, other) => Waiting(p, u, other)
  BY <1>1, <1>2, <1>3, HeadOfStream
<1>7. /\ StreamOf(p)'
      /\ \A u, other : Waiting(p, u, other)' <=>
           Waiting(p, u, other) /\ ~(u = op.step /\ other = op.kind)
  BY <1>1, <1>2, <1>3, <1>4, TailOfStream
<1>8. \A u, other : Due(p, u, other)' <=> Due(p, u, other)
  BY <1>2 DEF Due, Posted
<1>9. op.step \in Steps /\ op.kind \in Kinds
  BY <1>6 DEF Ops
<1>10. RunFacts(p, op.step, op.kind)
  BY <1>2, <1>4, <1>5, <1>6, <1>7, <1>8, <1>9 DEF RunFacts
<1>11. QED
  BY <1>3, <1>6, <1>10

(* Whatever the operation does, these parts stay.                           *)
LEMMA RunKeeps ==
  ASSUME IInv, NEW p \in Stages, NEW t, NEW kind, RunFacts(p, t, kind)
  PROVE  StreamOK' /\ SendWorkOK' /\ QueuesOK' /\ LinkOK' /\ SeenOf(0)'
<1>1. /\ (\A q \in Stages : StreamOf(q) /\ QueuesOf(q)) /\ (\A q \in Stages : q < PPSize => LinkOf(q))
      /\ SendWorkOK /\ SeenOf(0)
  BY StagesInt DEF IInv, StreamOK, QueuesOK, LinkOK, SeenOK
<1>2. /\ StreamOf(p)'
      /\ hop' = hop /\ work' = work /\ cpu' = cpu /\ sendWork' = sendWork
      /\ sends' = sends /\ recvs' = recvs /\ fed' = fed
      /\ \A q \in Stages : q # p => stream'[q] = stream[q]
  BY DEF RunFacts
<1>3. StreamOK'
  BY <1>1, <1>2, SameStream DEF StreamOK
<1>4. SendWorkOK'
  BY <1>1, <1>2 DEF SendWorkOK, Keys, Tensors
<1>5. QueuesOK'
  BY <1>1, <1>2, SameQueues DEF QueuesOK
<1>6. LinkOK'
  BY <1>1, <1>2, SameLink DEF LinkOK
<1>7. SeenOf(0)'
  BY <1>1, <1>2 DEF SeenOf, Seen, Passed
<1>8. QED
  BY <1>3, <1>4, <1>5, <1>6, <1>7

(* The stream of rank p before the head's operation has been run.           *)
LEMMA HeadFirst ==
  ASSUME NEW p, NEW t, NEW kind, RunFacts(p, t, kind), NEW u \in Steps, NEW other \in Kinds,
         Before(u, other, t, kind)
  PROVE  ~Waiting(p, u, other)
<1>1. t \in Int /\ u \in Int /\ kind \in Kinds /\ KindRank[kind] \in Int /\ KindRank[other] \in Int
  BY StagesInt, Ranks DEF RunFacts
<1>2. ~(u = t /\ other = kind) /\ ~Before(t, kind, u, other)
  BY <1>1 DEF Before
<1>3. QED
  BY <1>2 DEF RunFacts

(* A step that runs no forward and schedules nothing.                       *)
LEMMA SeenSame ==
  ASSUME \A q \in 0..PPSize : SeenOf(q), \A q \in Stages : PrefixOf(q),
         hop' = hop, work' = work, cpu' = cpu, fed' = fed, got' = got,
         \A q \in 1..PPSize, u \in Steps : Passed(q, u)' <=> Passed(q, u)
  PROVE  SeenOK' /\ PrefixOK'
<1>1. \A q \in 0..PPSize : Seen(q)' = Seen(q)
  BY DEF Seen, StepOf, Keys, Tensors
<1>2. \A u \in Steps : Passed(0, u)' <=> Passed(0, u)
  BY DEF Passed
<1>3. \A q \in 0..PPSize : q = 0 \/ q \in 1..PPSize
  BY StagesInt
<1>4. \A q \in 0..PPSize : SeenOf(q)'
  BY <1>1, <1>2, <1>3, SameSeen
<1>5. \A q \in Stages : q \in 0..PPSize /\ q - 1 \in 0..PPSize
  BY StagesInt DEF Stages
<1>6. \A q \in Stages : PrefixOf(q)'
  BY <1>1, <1>5, SamePrefix
<1>7. QED
  BY <1>4, <1>6 DEF SeenOK, PrefixOK

(* The parts of the invariant about the data, when nothing is written.      *)
LEMMA WaitInv ==
  ASSUME IInv, NEW p \in Stages, NEW op, RunFacts(p, op.step, op.kind),
         op.handles = Handles(op.step, op.kind), Wait(p, op)
  PROVE  IInv'
<1>1. /\ \A u, other : Waiting(p, u, other)' <=> Waiting(p, u, other) /\ ~(u = op.step /\ other = op.kind)
      /\ \A u, other : Due(p, u, other)' <=> Due(p, u, other)
      /\ stream' \in [Stages -> Seq(Ops)]
      /\ hop' = hop /\ work' = work /\ cpu' = cpu /\ sendWork' = sendWork
      /\ sends' = sends /\ recvs' = recvs /\ fed' = fed
      /\ \A q \in Stages : q # p => stream'[q] = stream[q]
  BY DEF RunFacts
<1>2. rbuf' = rbuf /\ inbuf' = inbuf /\ out' = out /\ got' = got
  BY DEF Wait
<1>3. /\ TypeOK /\ (\A q \in Stages : StreamOf(q) /\ WaitsOf(q) /\ DataOf(q) /\ PrefixOf(q))
      /\ (\A q \in 0..PPSize : SeenOf(q))
  BY DEF IInv, StreamOK, WaitsOK, DataOK, PrefixOK, SeenOK
<1>4. Keys' = Keys /\ Ops' = Ops /\ \A u : All(u)' = All(u)
  BY <1>1 DEF Keys, Tensors, All, Ops
<1>5. TypeOK'
  BY <1>1, <1>2, <1>3, <1>4 DEF TypeOK
<1>6. \/ /\ op.kind = "waitSend"
         /\ \A k \in Keys : ~ToSend(p, op.step - 1, k)
      \/ /\ op.kind = "waitRecv"
         /\ \A k \in Keys : ~ToRecv(p, op.step, k)
  <2>1. CASE op.kind = "waitSend"
    <3>1. op.handles = {op.step - 1} \X Keys /\ op.handles \cap ToSet(sends[p]) = {}
      BY <2>1 DEF Wait, Handles
    <3>2. QED
      BY <2>1, <3>1 DEF ToSend
  <2>2. CASE op.kind = "waitRecv"
    <3>1. op.handles = {op.step} \X Keys /\ op.handles \cap ToSet(recvs[p]) = {}
      BY <2>2 DEF Wait, Handles
    <3>2. QED
      BY <2>2, <3>1 DEF ToRecv
  <2>3. QED
    BY <2>1, <2>2 DEF Wait
<1>7. /\ \A u, k : ToSend(p, u, k)' <=> ToSend(p, u, k)
      /\ \A u, k : ToRecv(p, u, k)' <=> ToRecv(p, u, k)
  BY <1>1 DEF ToSend, ToRecv
<1>8. WaitsOf(p)'
  <2>1. ASSUME NEW u \in Steps, NEW k \in Keys
        PROVE  /\ ToSend(p, u, k) /\ u < cpu[p] => Waiting(p, u + 1, "waitSend")
               /\ ToRecv(p, u, k) => Waiting(p, u, "waitRecv")
               /\ p < PPSize /\ Due(p, u, "forward") /\ ~ToSend(p, u, k) => ~Waiting(p, u, "forward")
    BY <1>3 DEF WaitsOf
  <2>2. ASSUME NEW u \in Steps, NEW k \in Keys, ToSend(p, u, k), u < cpu[p]
        PROVE  Waiting(p, u + 1, "waitSend")'
    <3>1. ~(u + 1 = op.step /\ op.kind = "waitSend")
      BY <1>6, <2>2, StagesInt
    <3>2. Waiting(p, u + 1, "waitSend")
      BY <2>1, <2>2
    <3>3. QED
      BY <1>1, <3>1, <3>2, Zenon
  <2>3. ASSUME NEW u \in Steps, NEW k \in Keys, ToRecv(p, u, k)
        PROVE  Waiting(p, u, "waitRecv")'
    BY <1>1, <1>6, <2>1, <2>3
  <2>4. QED
    BY <1>1, <1>4, <1>7, <2>1, <2>2, <2>3 DEF WaitsOf
<1>9. \A u, other : other \in {"copy", "forward"} =>
        (Waiting(p, u, other)' <=> Waiting(p, u, other)) /\ (Done(p, u, other)' <=> Done(p, u, other))
  BY <1>1, <1>6 DEF Done
<1>10. DataOf(p)'
  BY <1>1, <1>2, <1>3, <1>4, <1>7, <1>9 DEF DataOf
<1>11. WaitsOK'
  BY <1>1, <1>3, <1>8, SameWaits DEF WaitsOK
<1>12. DataOK'
  BY <1>1, <1>2, <1>3, <1>10, SameData DEF DataOK
<1>13. \A q \in 1..PPSize, u \in Steps : Passed(q, u)' <=> Passed(q, u)
  <2>1. ASSUME NEW q \in 1..PPSize, NEW u \in Steps
        PROVE  Passed(q, u)' <=> Passed(q, u)
    <3>1. q \in Stages /\ q # 0
      BY <2>1, StagesInt DEF Stages
    <3>2. CASE q = p
      BY <1>9, <3>1, <3>2 DEF Passed
    <3>3. CASE q # p
      <4>1. (Waiting(q, u, "forward")' <=> Waiting(q, u, "forward")) /\ (Due(q, u, "forward")' <=> Due(q, u, "forward"))
        BY <1>1, <1>3, <3>1, <3>3, SameStream
      <4>2. QED
        BY <3>1, <4>1 DEF Passed, Done
    <3>4. QED
      BY <3>2, <3>3
  <2>2. QED
    BY <2>1
<1>14. SeenOK' /\ PrefixOK'
  BY <1>1, <1>2, <1>3, <1>13, SeenSame
<1>15. QED
  BY <1>5, <1>11, <1>12, <1>14, RunKeeps DEF IInv

(* The copy reads what arrived: the wait before it is over.                 *)
LEMMA CopyInv ==
  ASSUME IInv, NEW p \in Stages, NEW op, RunFacts(p, op.step, op.kind), Copy(p, op)
  PROVE  IInv'
<1> DEFINE t == op.step
<1>1. /\ \A u, other : Waiting(p, u, other)' <=> Waiting(p, u, other) /\ ~(u = t /\ other = "copy")
      /\ \A u, other : Due(p, u, other)' <=> Due(p, u, other)
      /\ \A u, other : Waiting(p, u, other) => (u = t /\ other = "copy") \/ Before(t, "copy", u, other)
      /\ \A u, other : Due(p, u, other) /\ Before(t, "copy", u, other) => Waiting(p, u, other)
      /\ t \in Steps /\ Due(p, t, "copy") /\ Waiting(p, t, "copy")
      /\ RunFacts(p, t, "copy")
  BY DEF RunFacts, Copy
<1>2. /\ stream' \in [Stages -> Seq(Ops)]
      /\ hop' = hop /\ work' = work /\ cpu' = cpu /\ sendWork' = sendWork
      /\ sends' = sends /\ recvs' = recvs /\ fed' = fed
      /\ \A q \in Stages : q # p => stream'[q] = stream[q]
  BY DEF RunFacts
<1>3. /\ inbuf' = [inbuf EXCEPT ![p] = rbuf[p][t]] /\ out' = out /\ got' = got
      /\ rbuf' = [rbuf EXCEPT ![p] = [rbuf[p] EXCEPT ![t] = Unwritten]]
  BY DEF Copy
<1> HIDE DEF t
<1>4. /\ TypeOK /\ (\A q \in Stages : StreamOf(q) /\ WaitsOf(q) /\ DataOf(q) /\ PrefixOf(q))
      /\ (\A q \in 0..PPSize : SeenOf(q))
  BY DEF IInv, StreamOK, WaitsOK, DataOK, PrefixOK, SeenOK
<1>5. Keys' = Keys /\ Ops' = Ops /\ \A u : All(u)' = All(u)
  BY <1>2 DEF Keys, Tensors, All, Ops
<1>6. /\ rbuf \in [Stages -> [Steps -> [Keys -> 0..MaxSteps]]]
      /\ inbuf \in [Stages -> [Keys -> 0..MaxSteps]]
      /\ Unwritten \in [Keys -> 0..MaxSteps]
  BY <1>4, StagesInt DEF TypeOK, Unwritten
<1>7. /\ inbuf'[p] = rbuf[p][t] /\ \A u \in Steps : u # t => rbuf'[p][u] = rbuf[p][u]
      /\ \A q \in Stages : q # p => inbuf'[q] = inbuf[q] /\ rbuf'[q] = rbuf[q]
      /\ rbuf' \in [Stages -> [Steps -> [Keys -> 0..MaxSteps]]]
      /\ inbuf' \in [Stages -> [Keys -> 0..MaxSteps]]
  BY <1>1, <1>3, <1>6
<1>8. TypeOK'
  BY <1>2, <1>3, <1>4, <1>5, <1>7 DEF TypeOK
<1>9. rbuf[p][t] = All(t)
  <2>1. ASSUME NEW k \in Keys
        PROVE  rbuf[p][t][k] = t
    <3>1. Before(t, "waitRecv", t, "copy")
      BY Ranks DEF Before
    <3>2. ~Waiting(p, t, "waitRecv")
      BY <1>1, <3>1, HeadFirst, Ranks
    <3>3. ~ToRecv(p, t, k)
      BY <1>1, <1>4, <3>2 DEF WaitsOf
    <3>4. QED
      BY <1>1, <1>4, <3>3 DEF DataOf
  <2>2. rbuf[p][t] \in [Keys -> 0..MaxSteps]
    BY <1>1, <1>6
  <2>3. QED
    BY <2>1, <2>2 DEF All
<1>10. /\ \A u, k : ToSend(p, u, k)' <=> ToSend(p, u, k)
       /\ \A u, k : ToRecv(p, u, k)' <=> ToRecv(p, u, k)
  BY <1>2 DEF ToSend, ToRecv
<1>11. \A u, other : other # "copy" =>
         (Waiting(p, u, other)' <=> Waiting(p, u, other)) /\ (Done(p, u, other)' <=> Done(p, u, other))
  BY <1>1 DEF Done
<1>12. WaitsOf(p)'
  BY <1>1, <1>2, <1>4, <1>5, <1>10, <1>11 DEF WaitsOf
<1>13. DataOf(p)'
  <2>1. ASSUME NEW u \in Steps, Done(p, u, "copy")', Waiting(p, u, "forward")'
        PROVE  inbuf'[p] = All(u)
    <3>1. Waiting(p, u, "forward") /\ Due(p, u, "copy")
      BY <1>1, <1>11, <2>1 DEF Done
    <3>2. CASE u = t
      BY <1>7, <1>9, <3>2
    <3>3. CASE u # t
      <4>1. Before(t, "copy", u, "forward")
        BY <1>1, <3>1
      <4>2. t < u
        BY <3>3, <4>1 DEF Before
      <4>3. Waiting(p, u, "copy")
        BY <1>1, <3>1, <4>2 DEF Before
      <4>4. Waiting(p, u, "copy")'
        BY <1>1, <3>3, <4>3
      <4>5. QED
        BY <2>1, <4>4 DEF Done
    <3>4. QED
      BY <3>2, <3>3
  <2>2. ASSUME NEW u \in Steps, NEW k \in Keys, Due(p, u, "copy"), Waiting(p, u, "copy")', ~ToRecv(p, u, k)
        PROVE  rbuf'[p][u][k] = u
    <3>1. u # t /\ Waiting(p, u, "copy")
      BY <1>1, <2>2
    <3>2. rbuf[p][u][k] = u
      BY <1>4, <2>2, <3>1 DEF DataOf
    <3>3. QED
      BY <1>7, <3>1, <3>2
  <2>3. \A u \in Steps :
          Done(p, u, "forward") /\ (\A v \in Steps : v > u => ~Done(p, v, "forward")) => out[p] = All(u)
    BY <1>4 DEF DataOf
  <2>4. QED
    BY <1>1, <1>3, <1>5, <1>10, <1>11, <2>1, <2>2, <2>3 DEF DataOf
<1>14. WaitsOK'
  BY <1>2, <1>4, <1>12, SameWaits DEF WaitsOK
<1>15. DataOK'
  BY <1>2, <1>3, <1>4, <1>7, <1>13, SameData DEF DataOK
<1>16. \A q \in 1..PPSize, u \in Steps : Passed(q, u)' <=> Passed(q, u)
  <2>1. ASSUME NEW q \in 1..PPSize, NEW u \in Steps
        PROVE  Passed(q, u)' <=> Passed(q, u)
    <3>1. q \in Stages /\ q # 0
      BY <2>1, StagesInt DEF Stages
    <3>2. CASE q = p
      BY <1>11, <3>1, <3>2 DEF Passed
    <3>3. CASE q # p
      <4>1. (Waiting(q, u, "forward")' <=> Waiting(q, u, "forward")) /\ (Due(q, u, "forward")' <=> Due(q, u, "forward"))
        BY <1>2, <1>4, <3>1, <3>3, SameStream
      <4>2. QED
        BY <3>1, <4>1 DEF Passed, Done
    <3>4. QED
      BY <3>2, <3>3
  <2>2. QED
    BY <2>1
<1>17. SeenOK' /\ PrefixOK'
  BY <1>2, <1>3, <1>4, <1>16, SeenSame
<1>18. QED
  BY <1>1, <1>8, <1>14, <1>15, <1>17, RunKeeps DEF IInv

(* The least step of b that is not in its prefix a is the next one of b.    *)
LEMMA NextSeen ==
  ASSUME NEW a \in Seq(Steps), NEW b \in Seq(Steps), Increasing(a), Increasing(b),
         Len(a) <= Len(b), \A i \in DOMAIN a : a[i] = b[i],
         NEW t \in Steps, \A i \in DOMAIN a : a[i] < t,
         \E i \in DOMAIN b : b[i] = t,
         \A u \in Steps : (\E i \in DOMAIN b : b[i] = u) /\ u < t => \E i \in DOMAIN a : a[i] = u
  PROVE  Len(a) < Len(b) /\ b[Len(a) + 1] = t
<1>1. /\ Len(a) \in Nat /\ Len(b) \in Nat /\ DOMAIN a = 1..Len(a) /\ DOMAIN b = 1..Len(b)
      /\ \A i \in DOMAIN a : a[i] \in Steps
      /\ \A i \in DOMAIN b : b[i] \in Steps
      /\ \A u \in Steps : u \in Int
  BY StagesInt
<1>2. PICK j \in DOMAIN b : b[j] = t
  OBVIOUS
<1>3. j > Len(a) /\ j \in Int
  <2>1. j \in Int
    BY <1>1
  <2>2. CASE j <= Len(a)
    <3>1. j \in DOMAIN a
      BY <1>1, <2>2
    <3>2. a[j] = t /\ a[j] < t
      BY <1>2, <3>1
    <3>3. QED
      BY <1>1, <3>2
  <2>3. QED
    BY <1>1, <2>1, <2>2
<1>4. Len(a) < Len(b) /\ Len(a) + 1 \in DOMAIN b
  BY <1>1, <1>3
<1>5. ASSUME j # Len(a) + 1
      PROVE  FALSE
  <2>1. PICK m : m = Len(a) + 1
    OBVIOUS
  <2>2. m < j /\ m \in DOMAIN b
    BY <1>1, <1>3, <1>4, <1>5, <2>1
  <2>3. b[m] < t /\ b[m] \in Steps
    BY <1>1, <1>2, <2>2 DEF Increasing
  <2>4. PICK i \in DOMAIN a : a[i] = b[m]
    BY <2>2, <2>3
  <2>5. i < m /\ i \in DOMAIN b
    BY <1>1, <2>1, <2>2
  <2>6. b[i] < b[m] /\ b[i] = b[m]
    BY <2>2, <2>4, <2>5 DEF Increasing
  <2>7. QED
    BY <1>1, <2>3, <2>6
<1>6. QED
  BY <1>2, <1>4, <1>5

(* A forward consumes its own step, and that is the next of the stage       *)
(* before: the step is the oldest with tokens that has not passed, and it   *)
(* passed the stage before, for all its tensors have arrived.               *)
ForwardFacts(p, t) ==
  /\ out' = [out EXCEPT ![p] = All(t)] /\ got' = [got EXCEPT ![p] = Append(got[p], All(t))]
  /\ rbuf' = rbuf /\ inbuf' = inbuf
  /\ Seen(p)' = Append(Seen(p), t) /\ \A i \in DOMAIN Seen(p) : Seen(p)[i] < t
  /\ Len(Seen(p)) < Len(Seen(p - 1)) /\ Seen(p - 1)[Len(Seen(p)) + 1] = t

LEMMA ForwardEffect ==
  ASSUME IInv, NEW p \in Stages, NEW op, RunFacts(p, op.step, op.kind), ForwardPass(p, op)
  PROVE  ForwardFacts(p, op.step)
<1> DEFINE t == op.step
           consumed == IF p = 1 THEN [k \in Keys |-> op.step] ELSE inbuf[p]
<1>1. /\ \A u, other : Waiting(p, u, other) => (u = t /\ other = "forward") \/ Before(t, "forward", u, other)
      /\ \A u, other : Due(p, u, other) /\ Before(t, "forward", u, other) => Waiting(p, u, other)
      /\ t \in Steps /\ Due(p, t, "forward") /\ Waiting(p, t, "forward")
      /\ RunFacts(p, t, "forward")
      /\ hop' = hop
  BY DEF RunFacts, ForwardPass
<1>2. /\ out' = [out EXCEPT ![p] = consumed] /\ got' = [got EXCEPT ![p] = Append(got[p], consumed)]
      /\ rbuf' = rbuf /\ inbuf' = inbuf
  BY DEF ForwardPass
<1>3. /\ TypeOK /\ (\A q \in Stages : StreamOf(q) /\ QueuesOf(q) /\ WaitsOf(q) /\ DataOf(q) /\ PrefixOf(q))
      /\ (\A q \in 0..PPSize : SeenOf(q)) /\ (\A q \in Stages : q < PPSize => LinkOf(q))
  BY DEF IInv, StreamOK, QueuesOK, LinkOK, WaitsOK, DataOK, PrefixOK, SeenOK
<1>4. /\ p \in 0..PPSize /\ p - 1 \in 0..PPSize /\ p # 0 /\ p \in Int /\ p >= 1 /\ p <= PPSize /\ PPSize \in Int
      /\ t \in Int /\ \A u \in Steps : u \in Int
  BY <1>1, StagesInt
<1>5. t <= cpu[p] /\ work[t]
  BY <1>1 DEF Due, Posted
<1> HIDE DEF consumed
<1>6. consumed = All(t)
  <2>1. CASE p = 1
    BY <2>1 DEF consumed, All
  <2>2. CASE p # 1
    <3>1. Due(p, t, "copy")
      BY <1>1, <1>4, <2>2 DEF Due, Posted, Kinds
    <3>2. ~Waiting(p, t, "copy")
      <4>1. Before(t, "copy", t, "forward")
        BY Ranks DEF Before
      <4>2. QED
        BY <1>1, <4>1, HeadFirst, Ranks
    <3>3. inbuf[p] = All(t)
      BY <1>1, <1>3, <3>1, <3>2 DEF DataOf, Done
    <3>4. QED
      BY <2>2, <3>3 DEF consumed
  <2>3. QED
    BY <2>1, <2>2
<1>7. StepOf(All(t)) = t
  <2>1. Tensors[1] \in Keys
    BY <1>3, HopFacts
  <2>2. \A k \in Keys : All(t)[k] = t
    BY DEF All
  <2>3. QED
    BY <2>1, <2>2 DEF StepOf
<1>8. /\ Seen(p) \in Seq(Steps) /\ Increasing(Seen(p))
      /\ \A u \in Steps : Passed(p, u) <=> \E i \in DOMAIN Seen(p) : Seen(p)[i] = u
      /\ Seen(p - 1) \in Seq(Steps) /\ Increasing(Seen(p - 1))
      /\ \A u \in Steps : Passed(p - 1, u) <=> \E i \in DOMAIN Seen(p - 1) : Seen(p - 1)[i] = u
  BY <1>3, <1>4 DEF SeenOf, Increasing
<1>9. Seen(p)' = Append(Seen(p), t)
  <2> DEFINE g == got[p]
             d == Append(g, All(t))
             s == Seen(p)
  <2>1. got \in [Stages -> Seq([Keys -> 0..MaxSteps])] /\ g \in Seq([Keys -> 0..MaxSteps])
    BY <1>3 DEF TypeOK
  <2>2. All(t) \in [Keys -> 0..MaxSteps]
    BY <1>1, StagesInt DEF All
  <2>3. got'[p] = d
    BY <1>2, <1>6, <2>1
  <2>4. /\ d \in Seq([Keys -> 0..MaxSteps]) /\ Len(d) = Len(g) + 1 /\ Len(g) \in Nat
        /\ DOMAIN g = 1..Len(g) /\ DOMAIN d = 1..(Len(g) + 1)
        /\ \A i \in 1..Len(g) : d[i] = g[i]
        /\ d[Len(g) + 1] = All(t)
    BY <2>1, <2>2, AppendProperties
  <2>5. s = [i \in DOMAIN g |-> StepOf(g[i])]
    BY <1>4 DEF Seen
  <2>6. Seen(p)' = [i \in DOMAIN d |-> StepOf(d[i])]
    BY <1>1, <1>4, <2>3 DEF Seen, StepOf, Keys, Tensors
  <2>7. Len(s) = Len(g) /\ s \in Seq(Steps)
    BY <1>8, <2>4, <2>5, LenProperties
  <2> HIDE DEF g, d, s
  <2>8. /\ Append(s, t) \in Seq(Steps) /\ DOMAIN Append(s, t) = 1..(Len(g) + 1)
        /\ \A i \in 1..Len(g) : Append(s, t)[i] = s[i]
        /\ Append(s, t)[Len(g) + 1] = t
    BY <1>1, <2>4, <2>7, AppendProperties
  <2> DEFINE a == Append(s, t)
  <2>9. a = [i \in DOMAIN a |-> a[i]]
    BY <2>8
  <2> HIDE DEF a
  <2>10. ASSUME NEW i \in 1..(Len(g) + 1)
         PROVE  a[i] = StepOf(d[i])
    <3>1. CASE i = Len(g) + 1
      BY <1>7, <2>4, <2>8, <3>1 DEF a
    <3>2. CASE i # Len(g) + 1
      <4>1. i \in 1..Len(g)
        BY <2>4, <3>2
      <4>2. QED
        BY <2>4, <2>5, <2>8, <4>1 DEF a
    <3>3. QED
      BY <3>1, <3>2
  <2>11. a = [i \in DOMAIN d |-> StepOf(d[i])]
    BY <2>4, <2>8, <2>9, <2>10 DEF a
  <2>12. QED
    BY <2>6, <2>11 DEF a, s
<1>10. ASSUME NEW u \in Steps, Done(p, u, "forward")
       PROVE  u < t
  <2>1. ~Before(t, "forward", u, "forward") /\ u # t
    BY <1>1, <1>10 DEF Done
  <2>2. QED
    BY <1>4, <2>1 DEF Before
<1>11. \A i \in DOMAIN Seen(p) : Seen(p)[i] < t
  <2>1. ASSUME NEW i \in DOMAIN Seen(p)
        PROVE  Seen(p)[i] < t
    <3>1. Seen(p)[i] \in Steps
      BY <1>8
    <3>2. Passed(p, Seen(p)[i])
      BY <1>8, <3>1
    <3>3. QED
      BY <1>4, <1>10, <3>1, <3>2 DEF Passed
  <2>2. QED
    BY <2>1
<1>12. Passed(p - 1, t)
  <2>1. CASE p = 1
    BY <1>5, <2>1 DEF Passed
  <2>2. CASE p # 1
    <3> DEFINE q == p - 1
    <3>1. q \in Stages /\ q < PPSize /\ q + 1 = p /\ q # 0
      BY <1>4, <2>2, StagesInt DEF Stages
    <3> HIDE DEF q
    <3>2. PICK k : k \in Keys
      BY <1>3, HopFacts
    <3>3. ~ToRecv(p, t, k)
      <4>1. Before(t, "waitRecv", t, "forward")
        BY Ranks DEF Before
      <4>2. ~Waiting(p, t, "waitRecv")
        BY <1>1, <4>1, HeadFirst, Ranks
      <4>3. QED
        BY <1>1, <1>3, <3>2, <4>2 DEF WaitsOf
    <3>4. /\ t <= cpu[q] /\ t <= cpu[p] => (ToSend(q, t, k) <=> ToRecv(p, t, k))
          /\ t > cpu[q] /\ t <= cpu[p] => ToRecv(p, t, k)
      BY <1>1, <1>3, <1>5, <3>1, <3>2 DEF LinkOf
    <3>5. t <= cpu[q] /\ ~ToSend(q, t, k)
      <4>1. cpu[q] \in 0..MaxSteps
        BY <1>3, <3>1 DEF TypeOK
      <4>2. t <= cpu[q] \/ t > cpu[q]
        BY <1>4, <4>1, StagesInt
      <4>3. QED
        BY <1>5, <3>3, <3>4, <4>2
    <3>6. Due(q, t, "forward")
      BY <1>1, <1>5, <3>5 DEF Due, Posted, Kinds
    <3>7. ~Waiting(q, t, "forward")
      BY <1>1, <1>3, <3>1, <3>2, <3>5, <3>6 DEF WaitsOf
    <3>8. QED
      BY <3>1, <3>6, <3>7 DEF Passed, Done, q
  <2>3. QED
    BY <2>1, <2>2
<1>13. \A u \in Steps : Passed(p - 1, u) /\ u < t => Passed(p, u)
  <2>1. ASSUME NEW u \in Steps, Passed(p - 1, u), u < t
        PROVE  Passed(p, u)
    <3>1. work[u]
      BY <2>1 DEF Passed, Done, Due, Posted
    <3>2. u <= cpu[p]
      <4>1. cpu[p] \in 0..MaxSteps
        BY <1>3 DEF TypeOK
      <4>2. QED
        BY <1>4, <1>5, <2>1, <4>1, StagesInt
    <3>3. Due(p, u, "forward")
      BY <3>1, <3>2 DEF Due, Posted, Kinds
    <3>4. Before(u, "forward", t, "forward")
      BY <2>1 DEF Before
    <3>5. ~Waiting(p, u, "forward")
      BY <1>1, <3>4, HeadFirst, Ranks
    <3>6. QED
      BY <1>4, <3>3, <3>5 DEF Passed, Done
  <2>2. QED
    BY <2>1
<1>14. Len(Seen(p)) < Len(Seen(p - 1)) /\ Seen(p - 1)[Len(Seen(p)) + 1] = t
  <2>1. /\ Len(Seen(p)) <= Len(Seen(p - 1))
        /\ \A i \in DOMAIN Seen(p) : Seen(p)[i] = Seen(p - 1)[i]
    BY <1>3 DEF PrefixOf
  <2> DEFINE a == Seen(p)
             b == Seen(p - 1)
  <2>2. /\ a \in Seq(Steps) /\ b \in Seq(Steps) /\ Increasing(a) /\ Increasing(b)
        /\ Len(a) <= Len(b) /\ \A i \in DOMAIN a : a[i] = b[i]
        /\ \A i \in DOMAIN a : a[i] < t
    BY <1>8, <1>11, <2>1
  <2>3. t \in Steps /\ \E i \in DOMAIN b : b[i] = t
    BY <1>1, <1>8, <1>12
  <2>4. \A u \in Steps : (\E i \in DOMAIN b : b[i] = u) /\ u < t => \E i \in DOMAIN a : a[i] = u
    BY <1>8, <1>13
  <2> HIDE DEF a, b, t
  <2>5. Len(a) < Len(b) /\ b[Len(a) + 1] = t
    BY <2>2, <2>3, <2>4, NextSeen
  <2>6. QED
    BY <2>5 DEF a, b
<1>15. QED
  BY <1>2, <1>6, <1>9, <1>11, <1>14 DEF ForwardFacts

LEMMA ForwardInv ==
  ASSUME IInv, NEW p \in Stages, NEW op, RunFacts(p, op.step, op.kind), ForwardPass(p, op)
  PROVE  IInv'
<1> DEFINE t == op.step
<1>1. /\ \A u, other : Waiting(p, u, other)' <=> Waiting(p, u, other) /\ ~(u = t /\ other = "forward")
      /\ \A u, other : Due(p, u, other)' <=> Due(p, u, other)
      /\ \A u, other : Due(p, u, other) /\ Before(t, "forward", u, other) => Waiting(p, u, other)
      /\ t \in Steps /\ Due(p, t, "forward") /\ Waiting(p, t, "forward")
  BY DEF RunFacts, ForwardPass
<1>2. /\ stream' \in [Stages -> Seq(Ops)]
      /\ hop' = hop /\ work' = work /\ cpu' = cpu /\ sendWork' = sendWork
      /\ sends' = sends /\ recvs' = recvs /\ fed' = fed
      /\ \A q \in Stages : q # p => stream'[q] = stream[q]
  BY DEF RunFacts
<1>3. ForwardFacts(p, t)
  BY ForwardEffect
<1> HIDE DEF t
<1>4. /\ out' = [out EXCEPT ![p] = All(t)] /\ got' = [got EXCEPT ![p] = Append(got[p], All(t))]
      /\ rbuf' = rbuf /\ inbuf' = inbuf
      /\ Seen(p)' = Append(Seen(p), t) /\ \A i \in DOMAIN Seen(p) : Seen(p)[i] < t
      /\ Len(Seen(p)) < Len(Seen(p - 1)) /\ Seen(p - 1)[Len(Seen(p)) + 1] = t
  BY <1>3 DEF ForwardFacts
<1>5. /\ TypeOK /\ (\A q \in Stages : StreamOf(q) /\ WaitsOf(q) /\ DataOf(q) /\ PrefixOf(q))
      /\ (\A q \in 0..PPSize : SeenOf(q))
  BY DEF IInv, StreamOK, WaitsOK, DataOK, PrefixOK, SeenOK
<1>6. Keys' = Keys /\ Ops' = Ops /\ \A u : All(u)' = All(u)
  BY <1>2 DEF Keys, Tensors, All, Ops
<1>7. /\ out \in [Stages -> [Keys -> 0..MaxSteps]] /\ got \in [Stages -> Seq([Keys -> 0..MaxSteps])]
      /\ All(t) \in [Keys -> 0..MaxSteps]
  BY <1>1, <1>5, StagesInt DEF TypeOK, All
<1>8. /\ out'[p] = All(t) /\ \A q \in Stages : q # p => out'[q] = out[q] /\ got'[q] = got[q]
      /\ out' \in [Stages -> [Keys -> 0..MaxSteps]] /\ got' \in [Stages -> Seq([Keys -> 0..MaxSteps])]
  BY <1>4, <1>7
<1>9. TypeOK'
  BY <1>2, <1>4, <1>5, <1>6, <1>8 DEF TypeOK
<1>10. /\ \A u, k : ToSend(p, u, k)' <=> ToSend(p, u, k)
       /\ \A u, k : ToRecv(p, u, k)' <=> ToRecv(p, u, k)
  BY <1>2 DEF ToSend, ToRecv
<1>11. /\ \A u, other : other # "forward" =>
            (Waiting(p, u, other)' <=> Waiting(p, u, other)) /\ (Done(p, u, other)' <=> Done(p, u, other))
       /\ \A u : Done(p, u, "forward")' <=> Done(p, u, "forward") \/ u = t
       /\ \A u : Waiting(p, u, "forward")' => Waiting(p, u, "forward")
  BY <1>1 DEF Done
<1>12. WaitsOf(p)'
  BY <1>1, <1>2, <1>5, <1>6, <1>10, <1>11 DEF WaitsOf
<1>13. DataOf(p)'
  <2>1. ASSUME NEW u \in Steps, Done(p, u, "forward")',
               \A v \in Steps : v > u => ~Done(p, v, "forward")'
        PROVE  out'[p] = All(u)
    <3>1. ~(t > u)
      BY <1>1, <1>11, <2>1
    <3>2. CASE u = t
      BY <1>8, <3>2
    <3>3. CASE u # t
      <4>1. t < u
        BY <1>1, <3>1, <3>3, StagesInt
      <4>2. Done(p, u, "forward")
        BY <1>11, <2>1, <3>3
      <4>3. Before(t, "forward", u, "forward")
        BY <4>1 DEF Before
      <4>4. QED
        BY <1>1, <4>2, <4>3 DEF Done
    <3>4. QED
      BY <3>2, <3>3
  <2>2. \A u \in Steps :
          /\ Done(p, u, "copy") /\ Waiting(p, u, "forward") => inbuf[p] = All(u)
          /\ \A k \in Keys : Due(p, u, "copy") /\ Waiting(p, u, "copy") /\ ~ToRecv(p, u, k) =>
               rbuf[p][u][k] = u
    BY <1>5 DEF DataOf
  <2>3. QED
    BY <1>1, <1>4, <1>6, <1>10, <1>11, <2>1, <2>2 DEF DataOf
<1>14. WaitsOK'
  BY <1>2, <1>5, <1>12, SameWaits DEF WaitsOK
<1>15. DataOK'
  BY <1>2, <1>4, <1>5, <1>8, <1>13, SameData DEF DataOK
<1>16. \A q \in 1..PPSize : q # p =>
         Seen(q)' = Seen(q) /\ \A u \in Steps : Passed(q, u)' <=> Passed(q, u)
  <2>1. ASSUME NEW q \in 1..PPSize, q # p
        PROVE  Seen(q)' = Seen(q) /\ \A u \in Steps : Passed(q, u)' <=> Passed(q, u)
    <3>1. q \in Stages /\ q # 0 /\ q \in 0..PPSize
      BY <2>1, StagesInt DEF Stages
    <3>2. \A u : (Waiting(q, u, "forward")' <=> Waiting(q, u, "forward")) /\ (Due(q, u, "forward")' <=> Due(q, u, "forward"))
      BY <1>2, <1>5, <2>1, <3>1, SameStream
    <3>3. Seen(q)' = Seen(q)
      BY <1>2, <1>8, <2>1, <3>1, SeenLocal
    <3>4. QED
      BY <3>1, <3>2, <3>3 DEF Passed, Done
  <2>2. QED
    BY <2>1
<1>17. /\ p \in 0..PPSize /\ p # 0 /\ p \in 1..PPSize /\ p \in Int
       /\ \A q \in 0..PPSize : q = 0 \/ q \in 1..PPSize
       /\ \A q \in Stages : q \in 1..PPSize /\ q \in Int /\ (q - 1 = 0 \/ q - 1 \in 1..PPSize)
  BY StagesInt DEF Stages
<1>18. Seen(p) \in Seq(Steps) /\ Increasing(Seen(p))
       /\ \A u \in Steps : Passed(p, u) <=> \E i \in DOMAIN Seen(p) : Seen(p)[i] = u
  BY <1>5, <1>17 DEF SeenOf, Increasing
<1> DEFINE s == Seen(p)
           r == Append(s, t)
<1>19. /\ r \in Seq(Steps) /\ Increasing(r) /\ Len(s) \in Nat /\ DOMAIN s = 1..Len(s)
       /\ Len(r) = Len(s) + 1 /\ DOMAIN r = 1..(Len(s) + 1) /\ r[Len(s) + 1] = t
       /\ \A i \in DOMAIN s : i \in DOMAIN r /\ r[i] = s[i]
       /\ \A u : (\E i \in DOMAIN r : r[i] = u) <=> ((\E i \in DOMAIN s : s[i] = u) \/ u = t)
  <2>1. s \in Seq(Steps) /\ Increasing(s) /\ t \in Steps /\ \A i \in DOMAIN s : s[i] < t
    BY <1>1, <1>4, <1>18
  <2> HIDE DEF s
  <2>2. QED
    BY <2>1, SeenAppend
<1>20. Seen(p)' = r
  BY <1>4
<1>21. SeenOf(p)'
  <2>1. \A u \in Steps : Passed(p, u)' <=> (Passed(p, u) \/ u = t)
    BY <1>11, <1>17 DEF Passed
  <2>2. \A u \in Steps : Passed(p, u)' <=> \E i \in DOMAIN r : r[i] = u
    BY <1>18, <1>19, <2>1
  <2> HIDE DEF r
  <2>3. QED
    BY <1>19, <1>20, <2>2 DEF SeenOf, Increasing
<1>22. SeenOK'
  <2>1. SeenOf(0)'
    BY RunKeeps
  <2>2. \A q \in 1..PPSize : q # p => SeenOf(q)'
    <3>1. \A q \in 1..PPSize : q \in 0..PPSize
      BY StagesInt
    <3>2. QED
      BY <1>5, <1>16, <3>1, SameSeen
  <2>3. QED
    BY <1>17, <1>21, <2>1, <2>2 DEF SeenOK
<1>23. Seen(0)' = Seen(0)
  BY <1>2 DEF Seen
<1>24. ASSUME NEW q \in Stages
       PROVE  PrefixOf(q)'
  <2>1. q \in 1..PPSize /\ q \in Int /\ (q - 1 = 0 \/ q - 1 \in 1..PPSize)
    BY <1>17
  <2>2. Len(Seen(q)) <= Len(Seen(q - 1)) /\ \A i \in DOMAIN Seen(q) : Seen(q)[i] = Seen(q - 1)[i]
    BY <1>5 DEF PrefixOf
  <2>3. /\ Len(Seen(q)) \in Nat /\ DOMAIN Seen(q) = 1..Len(Seen(q))
        /\ Len(Seen(q - 1)) \in Nat /\ DOMAIN Seen(q - 1) = 1..Len(Seen(q - 1))
    <3>1. Seen(q) \in Seq(Steps) /\ Seen(q - 1) \in Seq(Steps)
      BY <1>5, <2>1, StagesInt DEF SeenOf
    <3>2. QED
      BY <3>1, LenProperties
  <2>4. CASE q = p
    <3>1. Seen(q - 1)' = Seen(q - 1)
      BY <1>16, <1>17, <1>23, <2>1, <2>4
    <3> DEFINE b == Seen(q - 1)
    <3>2. Len(s) < Len(b) /\ b[Len(s) + 1] = t /\ \A i \in DOMAIN s : s[i] = b[i]
      BY <1>4, <2>2, <2>4
    <3>3. Len(b) \in Nat
      BY <2>3
    <3> HIDE DEF s, r, b
    <3>4. Len(r) <= Len(b) /\ \A i \in DOMAIN r : i \in DOMAIN s \/ i = Len(s) + 1
      BY <1>19, <3>2, <3>3
    <3>5. \A i \in DOMAIN r : r[i] = b[i]
      BY <1>19, <3>2, <3>4
    <3>6. QED
      BY <1>20, <2>4, <3>1, <3>4, <3>5 DEF PrefixOf, b
  <2>5. CASE q # p /\ q - 1 = p
    <3>1. Seen(q)' = Seen(q) /\ Seen(q - 1)' = r /\ Seen(q - 1) = s
      BY <1>16, <1>20, <2>1, <2>5
    <3> HIDE DEF s, r
    <3>2. \A i \in DOMAIN Seen(q) : i \in DOMAIN s
      BY <1>19, <2>2, <2>3, <3>1
    <3>3. QED
      BY <1>19, <2>2, <2>3, <3>1, <3>2 DEF PrefixOf
  <2>6. CASE q # p /\ q - 1 # p
    BY <1>5, <1>16, <1>23, <2>1, <2>6, SamePrefix
  <2>7. QED
    BY <2>4, <2>5, <2>6
<1>25. PrefixOK'
  BY <1>24 DEF PrefixOK
<1>26. QED
  BY <1>9, <1>14, <1>15, <1>22, <1>25, RunKeeps DEF IInv

-----------------------------------------------------------------------------
(* A transfer between two ranks.                                            *)

(* The oldest send of a rank is for the oldest receive of the next.         *)
LEMMA HeadsMeet ==
  ASSUME IInv, NEW p \in Stages, p < PPSize, sends[p] # <<>>, recvs[p + 1] # <<>>
  PROVE  /\ p + 1 \in Stages /\ Head(recvs[p + 1]) = Head(sends[p])
         /\ Head(sends[p]) \in Steps \X Keys
         /\ Head(sends[p])[1] \in Called(p) /\ Head(sends[p])[1] \in Called(p + 1)
         /\ Head(sends[p]) \in ToSet(sends[p])
         /\ Tail(sends[p]) \in Seq(Steps \X Keys) /\ Tail(recvs[p + 1]) \in Seq(Steps \X Keys)
         /\ QueueOf(Tensors, Called(p), Tail(sends[p]))
         /\ QueueOf(Tensors, Called(p + 1), Tail(recvs[p + 1]))
         /\ \A x : x \in ToSet(Tail(sends[p])) <=> x \in ToSet(sends[p]) /\ x # Head(sends[p])
         /\ \A x : x \in ToSet(Tail(recvs[p + 1])) <=> x \in ToSet(recvs[p + 1]) /\ x # Head(sends[p])
<1> DEFINE q == p + 1
           s == sends[p]
           r == recvs[q]
           a == Head(s)
           b == Head(r)
<1>1. q \in Stages /\ p # q
  BY StagesInt DEF Stages
<1>2. TypeOK /\ QueuesOf(p) /\ QueuesOf(q) /\ LinkOf(p)
  BY <1>1 DEF IInv, QueuesOK, LinkOK
<1>3. /\ s \in Seq(Steps \X Keys) /\ QueueOf(Tensors, Called(p), s) /\ s # <<>>
      /\ r \in Seq(Steps \X Keys) /\ QueueOf(Tensors, Called(q), r) /\ r # <<>>
  BY <1>1, <1>2 DEF TypeOK, QueuesOf
<1>4. /\ Called(p) \in SUBSET Int /\ Called(q) \in SUBSET Int /\ DOMAIN Tensors \in SUBSET Int
      /\ \A i, j \in DOMAIN Tensors : Tensors[i] = Tensors[j] => i = j
      /\ \A x, y : PostBefore(Tensors, x, y) /\ x[1] \in Int /\ y[1] \in Int => x[1] <= y[1]
  <2>1. \A x, y : PostBefore(Tensors, x, y) /\ x[1] \in Int /\ y[1] \in Int => x[1] <= y[1]
    BY DEF PostBefore
  <2>2. QED
    BY <1>2, <2>1, StagesInt, HopFacts DEF Called
<1> HIDE DEF q, s, r
<1>6. /\ Tail(s) \in Seq(Steps \X Keys) /\ QueueOf(Tensors, Called(p), Tail(s))
      /\ a \in Steps \X Keys /\ a \in ToSet(s) /\ a[1] \in Called(p)
      /\ \A x : x \in ToSet(Tail(s)) <=> x \in ToSet(s) /\ x # a
      /\ \A x \in ToSet(s) : x = a \/ PostBefore(Tensors, a, x)
  BY <1>3, <1>4, PostTail
<1>7. /\ Tail(r) \in Seq(Steps \X Keys) /\ QueueOf(Tensors, Called(q), Tail(r))
      /\ b \in Steps \X Keys /\ b \in ToSet(r) /\ b[1] \in Called(q)
      /\ \A x : x \in ToSet(Tail(r)) <=> x \in ToSet(r) /\ x # b
      /\ \A x \in ToSet(r) : x = b \/ PostBefore(Tensors, b, x)
  BY <1>3, <1>4, PostTail
<1> HIDE DEF a, b
<1>8. /\ a = <<a[1], a[2]>> /\ a[1] \in Steps /\ a[2] \in Keys /\ a[1] \in Int
      /\ b = <<b[1], b[2]>> /\ b[1] \in Steps /\ b[2] \in Keys /\ b[1] \in Int
      /\ a[1] <= cpu[p] /\ work[a[1]] /\ b[1] <= cpu[q] /\ work[b[1]]
      /\ cpu[p] \in Int /\ cpu[q] \in Int
  <2>1. cpu[p] \in 0..MaxSteps /\ cpu[q] \in 0..MaxSteps
    BY <1>1, <1>2 DEF TypeOK
  <2>2. a[1] <= cpu[p] /\ work[a[1]] /\ b[1] <= cpu[q] /\ work[b[1]]
    BY <1>6, <1>7 DEF Called
  <2>3. QED
    BY <1>6, <1>7, <2>1, <2>2, StagesInt
<1>9. \A t \in Steps, k \in Keys : work[t] =>
        /\ t <= cpu[p] /\ t <= cpu[q] => (<<t, k>> \in ToSet(s) <=> <<t, k>> \in ToSet(r))
        /\ t <= cpu[p] /\ t > cpu[q] => <<t, k>> \in ToSet(s)
        /\ t > cpu[p] /\ t <= cpu[q] => <<t, k>> \in ToSet(r)
  BY <1>2 DEF LinkOf, ToSend, ToRecv, q, s, r
<1>10. a[1] <= cpu[q] /\ b[1] <= cpu[p]
  <2>1. CASE a[1] > cpu[q]
    <3>1. b[1] < a[1] /\ b[1] <= cpu[p]
      BY <1>8, <2>1
    <3>2. b \in ToSet(s)
      BY <1>7, <1>8, <1>9, <3>1
    <3>3. a = b \/ PostBefore(Tensors, a, b)
      BY <1>6, <3>2
    <3>4. QED
      BY <1>4, <1>8, <3>1, <3>3
  <2>2. CASE b[1] > cpu[p]
    <3>1. a[1] < b[1] /\ a[1] <= cpu[q]
      BY <1>8, <2>2
    <3>2. a \in ToSet(r)
      BY <1>6, <1>8, <1>9, <3>1
    <3>3. a = b \/ PostBefore(Tensors, b, a)
      BY <1>7, <3>2
    <3>4. QED
      BY <1>4, <1>8, <3>1, <3>3
  <2>3. QED
    BY <1>8, <2>1, <2>2
<1>11. a \in ToSet(r) /\ b \in ToSet(s)
  BY <1>6, <1>7, <1>8, <1>9, <1>10
<1>12. a = b
  <2>1. SUFFICES ASSUME PostBefore(Tensors, a, b), PostBefore(Tensors, b, a)
                 PROVE  FALSE
    BY <1>6, <1>7, <1>11
  <2>2. a[1] = b[1]
    BY <1>4, <1>8, <2>1
  <2>3. PICK i \in DOMAIN Tensors, j \in DOMAIN Tensors : i < j /\ a[2] = Tensors[i] /\ b[2] = Tensors[j]
    BY <1>8, <2>1, <2>2 DEF PostBefore
  <2>4. PICK m \in DOMAIN Tensors, n \in DOMAIN Tensors : m < n /\ b[2] = Tensors[m] /\ a[2] = Tensors[n]
    BY <1>8, <2>1, <2>2 DEF PostBefore
  <2>5. i = n /\ j = m /\ i \in Int /\ j \in Int
    BY <1>4, <2>3, <2>4
  <2>6. QED
    BY <2>3, <2>4, <2>5
<1>13. a[1] \in Called(q)
  BY <1>7, <1>12
<1>14. QED
  BY <1>1, <1>6, <1>7, <1>12, <1>13 DEF q, s, r, a, b

LEMMA TransferInv ==
  ASSUME IInv, NEW p \in Stages, Transfer(p)
  PROVE  IInv'
<1> DEFINE q == p + 1
           m == Head(sends[p])
           t == m[1]
           k == m[2]
<1>1. /\ p < PPSize /\ SendReady(p) /\ sends[p] # <<>> /\ recvs[p + 1] # <<>>
      /\ sends' = [sends EXCEPT ![p] = Tail(@)] /\ recvs' = [recvs EXCEPT ![p + 1] = Tail(@)]
      /\ hop' = hop /\ work' = work /\ cpu' = cpu /\ sendWork' = sendWork /\ stream' = stream
      /\ inbuf' = inbuf /\ out' = out /\ fed' = fed /\ got' = got
  BY DEF Transfer, SendReady, RecvReady
<1>2. /\ q \in Stages /\ Head(recvs[q]) = m /\ m \in Steps \X Keys
      /\ m[1] \in Called(p) /\ m[1] \in Called(q) /\ m \in ToSet(sends[p])
      /\ Tail(sends[p]) \in Seq(Steps \X Keys) /\ Tail(recvs[q]) \in Seq(Steps \X Keys)
      /\ QueueOf(Tensors, Called(p), Tail(sends[p])) /\ QueueOf(Tensors, Called(q), Tail(recvs[q]))
      /\ \A x : x \in ToSet(Tail(sends[p])) <=> x \in ToSet(sends[p]) /\ x # m
      /\ \A x : x \in ToSet(Tail(recvs[q])) <=> x \in ToSet(recvs[q]) /\ x # m
  BY <1>1, HeadsMeet
<1>3. p # q /\ p \in Int /\ q \in Int /\ q > 1 /\ p < PPSize /\ \A u \in Steps : u \in Int
  BY <1>1, StagesInt
<1>4. rbuf' = [rbuf EXCEPT ![q] = [rbuf[q] EXCEPT ![t] = [rbuf[q][t] EXCEPT ![k] = out[p][k]]]]
  BY <1>2 DEF Transfer
<1>5. \A i \in DOMAIN stream[p] : stream[p][i].step > t
  BY <1>1 DEF SendReady
<1>6. m = <<t, k>> /\ t \in Steps /\ k \in Keys /\ t <= cpu[p] /\ t <= cpu[q] /\ work[t] /\ ToSend(p, t, k)
  <2> HIDE DEF q, m
  <2>1. m = <<m[1], m[2]>> /\ m[1] \in Steps /\ m[2] \in Keys
    BY <1>2
  <2>2. m[1] <= cpu[p] /\ m[1] <= cpu[q] /\ work[m[1]]
    BY <1>2 DEF Called
  <2>3. <<m[1], m[2]>> \in ToSet(sends[p])
    BY <1>2, <2>1
  <2>4. QED
    BY <2>1, <2>2, <2>3 DEF ToSend
<1> HIDE DEF q, m, t, k
<1>7. /\ TypeOK /\ SendWorkOK
      /\ (\A n \in Stages : StreamOf(n) /\ QueuesOf(n) /\ WaitsOf(n) /\ DataOf(n) /\ PrefixOf(n))
      /\ (\A n \in 0..PPSize : SeenOf(n)) /\ (\A n \in Stages : n < PPSize => LinkOf(n))
  BY DEF IInv, StreamOK, QueuesOK, LinkOK, WaitsOK, DataOK, PrefixOK, SeenOK
<1>8. Keys' = Keys /\ Ops' = Ops /\ Tensors' = Tensors /\ \A u : All(u)' = All(u)
  BY <1>1 DEF Keys, Tensors, All, Ops
<1>9. /\ sends \in [Stages -> Seq(Steps \X Keys)] /\ recvs \in [Stages -> Seq(Steps \X Keys)]
      /\ rbuf \in [Stages -> [Steps -> [Keys -> 0..MaxSteps]]] /\ out \in [Stages -> [Keys -> 0..MaxSteps]]
      /\ cpu \in [Stages -> 0..MaxSteps]
  BY <1>7 DEF TypeOK
<1>10. /\ sends'[p] = Tail(sends[p]) /\ recvs'[q] = Tail(recvs[q])
       /\ \A n \in Stages : n # p => sends'[n] = sends[n]
       /\ \A n \in Stages : n # q => recvs'[n] = recvs[n]
       /\ sends' \in [Stages -> Seq(Steps \X Keys)] /\ recvs' \in [Stages -> Seq(Steps \X Keys)]
  <2>1. recvs' = [recvs EXCEPT ![q] = Tail(recvs[q])] /\ sends' = [sends EXCEPT ![p] = Tail(sends[p])]
    BY <1>1 DEF q
  <2>2. QED
    BY <1>2, <1>9, <2>1
<1>11. /\ rbuf'[q][t][k] = out[p][k]
       /\ \A u \in Steps, l \in Keys : <<u, l>> # <<t, k>> => rbuf'[q][u][l] = rbuf[q][u][l]
       /\ \A n \in Stages : n # q => rbuf'[n] = rbuf[n]
       /\ rbuf' \in [Stages -> [Steps -> [Keys -> 0..MaxSteps]]]
  <2> DEFINE column == [rbuf[q][t] EXCEPT ![k] = out[p][k]]
             rows   == [rbuf[q] EXCEPT ![t] = column]
  <2>1. out[p][k] \in 0..MaxSteps /\ rbuf[q] \in [Steps -> [Keys -> 0..MaxSteps]]
        /\ rbuf[q][t] \in [Keys -> 0..MaxSteps]
    BY <1>2, <1>6, <1>9
  <2>2. /\ column \in [Keys -> 0..MaxSteps] /\ column[k] = out[p][k]
        /\ \A l \in Keys : l # k => column[l] = rbuf[q][t][l]
    BY <1>6, <2>1
  <2>3. rbuf' = [rbuf EXCEPT ![q] = rows]
    BY <1>4
  <2> HIDE DEF column
  <2>4. /\ rows \in [Steps -> [Keys -> 0..MaxSteps]] /\ rows[t] = column
        /\ \A u \in Steps : u # t => rows[u] = rbuf[q][u]
    BY <1>6, <2>1, <2>2
  <2> HIDE DEF rows
  <2>5. /\ rbuf'[q] = rows /\ \A n \in Stages : n # q => rbuf'[n] = rbuf[n]
        /\ rbuf' \in [Stages -> [Steps -> [Keys -> 0..MaxSteps]]]
    BY <1>2, <1>9, <2>3, <2>4
  <2>6. ASSUME NEW u \in Steps, NEW l \in Keys, <<u, l>> # <<t, k>>
        PROVE  rows[u][l] = rbuf[q][u][l]
    <3>1. CASE u = t
      BY <2>2, <2>4, <2>6, <3>1
    <3>2. CASE u # t
      BY <2>4, <3>2
    <3>3. QED
      BY <3>1, <3>2
  <2>7. QED
    BY <2>2, <2>4, <2>5, <2>6
<1>12. TypeOK'
  BY <1>1, <1>7, <1>8, <1>10, <1>11 DEF TypeOK
<1>13. \A n \in Stages :
         /\ StreamOf(n)'
         /\ \A u, other : Waiting(n, u, other)' <=> Waiting(n, u, other)
         /\ \A u, other : Due(n, u, other)' <=> Due(n, u, other)
         /\ \A u, other : Done(n, u, other)' <=> Done(n, u, other)
  BY <1>1, <1>7, SameStream DEF Done
<1>14. SendWorkOK'
  BY <1>1, <1>7, <1>8 DEF SendWorkOK
<1>15. /\ \A u, l : ToSend(p, u, l)' <=> ToSend(p, u, l) /\ <<u, l>> # <<t, k>>
       /\ \A u, l : ToRecv(q, u, l)' <=> ToRecv(q, u, l) /\ <<u, l>> # <<t, k>>
       /\ \A n \in Stages : \A u, l : n # p => (ToSend(n, u, l)' <=> ToSend(n, u, l))
       /\ \A n \in Stages : \A u, l : n # q => (ToRecv(n, u, l)' <=> ToRecv(n, u, l))
  BY <1>2, <1>6, <1>10 DEF ToSend, ToRecv
<1>16. QueuesOK'
  <2>1. \A n \in Stages : Called(n)' = Called(n)
    BY <1>1 DEF Called
  <2>2. QueuesOf(p) /\ QueuesOf(q) /\ p # PPSize /\ q # 1
    BY <1>2, <1>3, <1>7
  <2>3. QueuesOf(p)'
    BY <1>2, <1>3, <1>8, <1>10, <2>1, <2>2 DEF QueuesOf
  <2>4. QueuesOf(q)'
    BY <1>2, <1>3, <1>8, <1>10, <2>1, <2>2 DEF QueuesOf
  <2>5. \A n \in Stages : n # p /\ n # q => QueuesOf(n)'
    BY <1>1, <1>7, <1>10, SameQueues
  <2>6. QED
    BY <2>3, <2>4, <2>5 DEF QueuesOK
<1>17. ASSUME NEW n \in Stages, n < PPSize
       PROVE  LinkOf(n)'
  <2>1. n + 1 \in Stages /\ n \in Int
    BY <1>17, StagesInt DEF Stages
  <2>2. CASE n = p
    <3>1. n + 1 = q
      BY <2>2 DEF q
    <3>2. ASSUME NEW u \in Steps, NEW l \in Keys, work[u]
          PROVE  /\ u <= cpu[n] /\ u <= cpu[n + 1] => (ToSend(n, u, l)' <=> ToRecv(n + 1, u, l)')
                 /\ u <= cpu[n] /\ u > cpu[n + 1] => ToSend(n, u, l)'
                 /\ u > cpu[n] /\ u <= cpu[n + 1] => ToRecv(n + 1, u, l)'
      <4>1. /\ u <= cpu[p] /\ u <= cpu[q] => (ToSend(p, u, l) <=> ToRecv(q, u, l))
            /\ u <= cpu[p] /\ u > cpu[q] => ToSend(p, u, l)
            /\ u > cpu[p] /\ u <= cpu[q] => ToRecv(q, u, l)
        BY <1>7, <1>17, <2>2, <3>1, <3>2 DEF LinkOf
      <4>2. /\ u > cpu[q] => <<u, l>> # <<t, k>>
            /\ u > cpu[p] => <<u, l>> # <<t, k>>
        <5>1. cpu[p] \in Int /\ cpu[q] \in Int
          BY <1>2, <1>9
        <5>2. u = t => ~(u > cpu[q]) /\ ~(u > cpu[p])
          BY <1>3, <1>6, <5>1
        <5>3. QED
          BY <5>2
      <4>3. QED
        BY <1>15, <2>2, <3>1, <4>1, <4>2
    <3>3. QED
      BY <1>1, <1>8, <3>2 DEF LinkOf
  <2>3. CASE n # p
    <3>1. n + 1 # q
      BY <1>3, <2>1, <2>3 DEF q
    <3>2. QED
      BY <1>1, <1>7, <1>10, <1>17, <2>1, <2>3, <3>1, SameLink
  <2>4. QED
    BY <2>2, <2>3
<1>18. ASSUME NEW n \in Stages
       PROVE  WaitsOf(n)'
  <2>1. ASSUME NEW u \in Steps, NEW l \in Keys
        PROVE  /\ ToSend(n, u, l) /\ u < cpu[n] => Waiting(n, u + 1, "waitSend")
               /\ ToRecv(n, u, l) => Waiting(n, u, "waitRecv")
               /\ n < PPSize /\ Due(n, u, "forward") /\ ~ToSend(n, u, l) => ~Waiting(n, u, "forward")
    BY <1>7 DEF WaitsOf
  <2>2. \A u, l : (ToSend(n, u, l)' => ToSend(n, u, l)) /\ (ToRecv(n, u, l)' => ToRecv(n, u, l))
    BY <1>15
  <2>3. ASSUME NEW u \in Steps, NEW l \in Keys, n < PPSize, Due(n, u, "forward"), ~ToSend(n, u, l)'
        PROVE  ~Waiting(n, u, "forward")
    <3>1. CASE ToSend(n, u, l)
      <4>1. n = p /\ u = t
        BY <1>15, <2>3, <3>1
      <4>2. \A i \in DOMAIN stream[p] : stream[p][i].step # u
        <5>1. \A i \in DOMAIN stream[p] : stream[p][i].step \in Steps
          BY <1>7, StreamTyped DEF Ops
        <5>2. QED
          BY <1>3, <1>5, <4>1, <5>1
      <4>3. QED
        BY <4>1, <4>2 DEF Waiting
    <3>2. CASE ~ToSend(n, u, l)
      BY <2>1, <2>3, <3>2
    <3>3. QED
      BY <3>1, <3>2
  <2>4. QED
    BY <1>1, <1>8, <1>13, <2>1, <2>2, <2>3 DEF WaitsOf
<1>19. out[p][k] = t
  <2>1. Due(p, t, "forward")
    BY <1>6 DEF Due, Posted, Kinds
  <2>2. ~Waiting(p, t, "forward")
    <3>1. \A i \in DOMAIN stream[p] : stream[p][i].step \in Steps
      BY <1>7, StreamTyped DEF Ops
    <3>2. QED
      BY <1>3, <1>5, <1>6, <3>1 DEF Waiting
  <2>3. ASSUME NEW u \in Steps, u > t, Done(p, u, "forward")
        PROVE  FALSE
    <3>1. u <= cpu[p] /\ cpu[p] \in Int /\ t < cpu[p] /\ t + 1 <= u
      <4>1. u <= cpu[p]
        BY <2>3 DEF Done, Due
      <4>2. QED
        BY <1>3, <1>6, <1>9, <2>3, <4>1
    <3>2. Waiting(p, t + 1, "waitSend")
      BY <1>6, <1>7, <3>1 DEF WaitsOf
    <3>3. PICK i \in DOMAIN stream[p] : stream[p][i].step = t + 1 /\ stream[p][i].kind = "waitSend"
      BY <3>2 DEF Waiting
    <3>4. Before(t + 1, "waitSend", u, "forward")
      BY <1>3, <1>6, <2>3, <3>1, Ranks DEF Before
    <3>5. Waiting(p, u, "forward")
      BY <1>7, <2>3, <3>3, <3>4, Ranks DEF StreamOf, Done
    <3>6. QED
      BY <2>3, <3>5 DEF Done
  <2>4. out[p] = All(t)
    BY <1>6, <1>7, <2>1, <2>2, <2>3 DEF DataOf, Done
  <2>5. QED
    BY <1>6, <2>4 DEF All
<1>20. DataOf(q)'
  <2>1. ASSUME NEW u \in Steps, NEW l \in Keys, Due(q, u, "copy"), Waiting(q, u, "copy"), ~ToRecv(q, u, l)'
        PROVE  rbuf'[q][u][l] = u
    <3>1. CASE <<u, l>> = <<t, k>>
      BY <1>11, <1>19, <3>1
    <3>2. CASE <<u, l>> # <<t, k>>
      <4>1. ~ToRecv(q, u, l)
        BY <1>15, <2>1, <3>2
      <4>2. rbuf[q][u][l] = u
        BY <1>2, <1>7, <2>1, <4>1 DEF DataOf
      <4>3. QED
        BY <1>11, <3>2, <4>2
    <3>3. QED
      BY <3>1, <3>2
  <2>2. \A u \in Steps :
          /\ Done(q, u, "forward") /\ (\A v \in Steps : v > u => ~Done(q, v, "forward")) => out[q] = All(u)
          /\ Done(q, u, "copy") /\ Waiting(q, u, "forward") => inbuf[q] = All(u)
    BY <1>2, <1>7 DEF DataOf
  <2>3. QED
    BY <1>1, <1>2, <1>8, <1>13, <2>1, <2>2 DEF DataOf
<1>21. DataOK'
  BY <1>1, <1>7, <1>10, <1>11, <1>20, SameData DEF DataOK
<1>22. \A n \in 1..PPSize, u \in Steps : Passed(n, u)' <=> Passed(n, u)
  <2>1. \A n \in 1..PPSize : n \in Stages /\ n # 0
    BY StagesInt DEF Stages
  <2>2. QED
    BY <1>13, <2>1 DEF Passed
<1>23. SeenOK' /\ PrefixOK'
  BY <1>1, <1>7, <1>22, SeenSame
<1>24. StreamOK' /\ LinkOK' /\ WaitsOK'
  BY <1>13, <1>17, <1>18 DEF StreamOK, LinkOK, WaitsOK
<1>25. QED
  BY <1>12, <1>14, <1>16, <1>21, <1>23, <1>24 DEF IInv

-----------------------------------------------------------------------------
(* The invariant.                                                           *)

LEMMA InitInv ==
  ASSUME Init
  PROVE  IInv
<1>1. /\ hop \in Hops /\ work \in [Steps -> BOOLEAN]
      /\ \A p \in Stages : /\ cpu[p] = 0 /\ sendWork[p] = {} /\ stream[p] = <<>>
                           /\ sends[p] = <<>> /\ recvs[p] = <<>> /\ got[p] = <<>>
      /\ fed = <<>>
  BY DEF Init
<1>2. TypeOK
  <2>1. Unwritten \in [Keys -> 0..MaxSteps]
    BY StagesInt DEF Unwritten
  <2>2. 0 \in 0..MaxSteps
    BY StagesInt
  <2>3. \A S : <<>> \in Seq(S)
    OBVIOUS
  <2>4. QED
    BY <2>1, <2>2, <2>3 DEF Init, TypeOK
<1>3. \A p \in Stages : \A t \in Steps : ~(t <= cpu[p])
  BY <1>1, StagesInt
<1>4. /\ \A x : x \notin DOMAIN <<>>
      /\ \A x : x \notin ToSet(<<>>)
  BY DEF ToSet
<1>5. \A p \in Stages : \A t, kind : ~Due(p, t, kind) /\ ~Waiting(p, t, kind)
  BY <1>1, <1>3, <1>4 DEF Due, Waiting
<1>6. \A p \in Stages : \A t, k : ~ToSend(p, t, k) /\ ~ToRecv(p, t, k)
  BY <1>1, <1>4 DEF ToSend, ToRecv
<1>7. StreamOK
  BY <1>1, <1>4 DEF StreamOK, StreamOf
<1>8. SendWorkOK
  <2>1. \A p \in Stages : ~(cpu[p] > 0) /\ sendWork[p] = {}
    BY <1>1
  <2>2. QED
    BY <2>1, Zenon DEF SendWorkOK
<1>9. QueuesOK
  <2>1. \A called : QueueOf(Tensors, called, <<>>)
    BY <1>4 DEF QueueOf
  <2>2. QED
    BY <1>1, <2>1 DEF QueuesOK, QueuesOf
<1>10. LinkOK
  <2>1. \A p \in Stages : p < PPSize => p + 1 \in Stages
    BY StagesInt DEF Stages
  <2>2. QED
    BY <1>3, <2>1 DEF LinkOK, LinkOf
<1>11. WaitsOK
  BY <1>5, <1>6 DEF WaitsOK, WaitsOf
<1>12. DataOK
  BY <1>5 DEF DataOK, DataOf, Done
<1>13. \A p \in 0..PPSize : Seen(p) = <<>>
  <2>1. \A p \in 0..PPSize : p = 0 \/ p \in Stages
    BY StagesInt DEF Stages
  <2>2. QED
    BY <1>1, <2>1 DEF Seen
<1>14. \A p \in 0..PPSize : \A t \in Steps : ~Passed(p, t)
  <2>1. 1 \in Stages /\ \A p \in 0..PPSize : p = 0 \/ p \in Stages
    BY StagesInt DEF Stages
  <2>2. QED
    BY <1>3, <1>5, <2>1 DEF Passed, Done
<1>15. SeenOK
  <2>1. ASSUME NEW p \in 0..PPSize
        PROVE  SeenOf(p)
    <3>1. Seen(p) = <<>> /\ <<>> \in Seq(Steps)
      BY <1>13
    <3>2. Seen(p) \in Seq(Steps) /\ \A i : i \notin DOMAIN Seen(p)
      BY <1>4, <3>1, Zenon
    <3>3. QED
      BY <1>14, <3>2 DEF SeenOf
  <2>2. QED
    BY <2>1 DEF SeenOK
<1>16. PrefixOK
  <2>1. \A p \in Stages : p \in 0..PPSize /\ p - 1 \in 0..PPSize
    BY StagesInt DEF Stages
  <2>2. Len(<<>>) <= Len(<<>>)
    BY EmptySeq
  <2>3. QED
    BY <1>4, <1>13, <2>1, <2>2 DEF PrefixOK, PrefixOf
<1>17. QED
  BY <1>2, <1>7, <1>8, <1>9, <1>10, <1>11, <1>12, <1>15, <1>16 DEF IInv

(* Every step of the CPU threads, the GPUs and the transfers keeps it.      *)
LEMMA StepInv ==
  ASSUME IInv, [Next]_vars
  PROVE  IInv'
<1>1. ASSUME NEW p \in Stages, ExecuteModel(p)
      PROVE  IInv'
  BY <1>1, CallInv
<1>2. ASSUME NEW p \in Stages, Run(p)
      PROVE  IInv'
  <2>1. PICK op : /\ RunFacts(p, op.step, op.kind) /\ op.handles = Handles(op.step, op.kind)
                  /\ Wait(p, op) \/ Copy(p, op) \/ ForwardPass(p, op)
    BY <1>2, RunEffect
  <2>2. QED
    BY <2>1, WaitInv, CopyInv, ForwardInv
<1>3. ASSUME NEW p \in Stages, Transfer(p)
      PROVE  IInv'
  BY <1>3, TransferInv
<1>4. CASE UNCHANGED vars
  <2>1. /\ hop' = hop /\ work' = work /\ cpu' = cpu /\ sendWork' = sendWork /\ stream' = stream
        /\ sends' = sends /\ recvs' = recvs /\ rbuf' = rbuf /\ inbuf' = inbuf /\ out' = out
        /\ fed' = fed /\ got' = got
    BY <1>4 DEF vars
  <2>2. /\ TypeOK /\ SendWorkOK
        /\ (\A p \in Stages : StreamOf(p) /\ QueuesOf(p) /\ WaitsOf(p) /\ DataOf(p) /\ PrefixOf(p))
        /\ (\A p \in 0..PPSize : SeenOf(p)) /\ (\A p \in Stages : p < PPSize => LinkOf(p))
    BY DEF IInv, StreamOK, QueuesOK, LinkOK, WaitsOK, DataOK, PrefixOK, SeenOK
  <2>3. TypeOK' /\ SendWorkOK'
    BY <2>1, <2>2 DEF TypeOK, SendWorkOK, Ops, Keys, Tensors
  <2>4. StreamOK' /\ QueuesOK' /\ LinkOK'
    BY <2>1, <2>2, SameStream, SameQueues, SameLink DEF StreamOK, QueuesOK, LinkOK
  <2>5. WaitsOK' /\ DataOK'
    BY <2>1, <2>2, SameWaits, SameData DEF WaitsOK, DataOK
  <2>6. \A q \in 1..PPSize, u \in Steps : Passed(q, u)' <=> Passed(q, u)
    <3>1. \A q \in 1..PPSize : q \in Stages /\ q # 0
      BY StagesInt DEF Stages
    <3>2. QED
      BY <2>1, <2>2, <3>1, SameStream DEF Passed, Done
  <2>7. SeenOK' /\ PrefixOK'
    BY <2>1, <2>2, <2>6, SeenSame
  <2>8. QED
    BY <2>3, <2>4, <2>5, <2>7 DEF IInv
<1>5. QED
  BY <1>1, <1>2, <1>3, <1>4 DEF Next, Finished

(* The invariant of the transfer holds in every state: the streams, the     *)
(* channels and the buffers stay in step on all ranks.                      *)
THEOREM NextInv == Spec => []IInv
<1>1. Init => IInv
  BY InitInv
<1>2. IInv /\ [Next]_vars => IInv'
  BY StepInv
<1>3. QED
  BY <1>1, <1>2, PTL DEF Spec

(* Every value stays in its type: no operation refers to a step or a tensor *)
(* that does not exist, and every buffer holds whole steps (execute_model). *)
THEOREM TypeCorrect == Spec => []TypeOK
<1>1. IInv => TypeOK
  BY DEF IInv
<1>2. QED
  BY <1>1, NextInv, PTL

-----------------------------------------------------------------------------
(* The stages are a pipe.                                                   *)

LEMMA PipeState ==
  /\ \A p \in Stages : Pipe!Upstream(p) = Seen(p - 1)
  /\ \A p \in Stages : [q \in Stages |-> [i \in DOMAIN got[q] |-> StepOf(got[q][i])]][p] = Seen(p)
<1>1. \A p \in Stages : p # 0 /\ (p = 1 => p - 1 = 0) /\ (p # 1 => p - 1 \in Stages /\ p - 1 # 0)
  BY StagesInt DEF Stages
<1>2. QED
  BY <1>1 DEF Pipe!Upstream, Seen

LEMMA PipeStep ==
  ASSUME IInv, [Next]_vars
  PROVE  [Pipe!Next]_(Pipe!vars)
<1> DEFINE bar == [q \in Stages |-> [i \in DOMAIN got[q] |-> StepOf(got[q][i])]]
<1>1. ASSUME hop' = hop, got' = got
      PROVE  bar' = bar
  BY <1>1 DEF StepOf, Keys, Tensors
<1>2. ASSUME hop' = hop, got' = got, fed' = fed
      PROVE  [Pipe!Next]_(Pipe!vars)
  BY <1>1, <1>2 DEF Pipe!vars
<1>3. ASSUME NEW p \in Stages, ExecuteModel(p)
      PROVE  [Pipe!Next]_(Pipe!vars)
  <2>1. PICK t : t = cpu[p] + 1 /\ CallFacts(p, t)
    BY <1>3, CallEffect
  <2>2. /\ t \in Steps /\ hop' = hop /\ got' = got /\ cpu[p] < t
        /\ fed' = IF work[t] /\ p = 1 THEN Append(fed, t) ELSE fed
    BY <2>1 DEF CallFacts
  <2>3. CASE ~(work[t] /\ p = 1)
    BY <1>2, <2>2, <2>3
  <2>4. CASE work[t] /\ p = 1
    <3>1. \A i \in DOMAIN fed : fed[i] < t
      <4>1. SeenOf(0)
        BY StagesInt DEF IInv, SeenOK
      <4>2. /\ fed \in Seq(Steps)
            /\ \A u \in Steps : (u <= cpu[1] /\ work[u]) <=> \E i \in DOMAIN fed : fed[i] = u
        BY <4>1 DEF SeenOf, Seen, Passed
      <4>3. cpu[1] \in 0..MaxSteps
        BY <2>4 DEF IInv, TypeOK
      <4>4. ASSUME NEW i \in DOMAIN fed
            PROVE  fed[i] < t
        <5>1. fed[i] \in Steps
          BY <4>2
        <5>2. fed[i] <= cpu[1]
          BY <4>2, <5>1
        <5>3. QED
          BY <2>2, <2>4, <4>3, <5>1, <5>2, StagesInt
      <4>5. QED
        BY <4>4
    <3>2. fed' = Append(fed, t) /\ bar' = bar
      BY <1>1, <2>2, <2>4
    <3> HIDE DEF bar
    <3>3. Pipe!Schedule(t)
      BY <3>1, <3>2 DEF Pipe!Schedule, bar
    <3>4. QED
      BY <2>2, <3>3 DEF Pipe!Next
  <2>5. QED
    BY <2>3, <2>4
<1>4. ASSUME NEW p \in Stages, Run(p)
      PROVE  [Pipe!Next]_(Pipe!vars)
  <2>1. PICK op : /\ RunFacts(p, op.step, op.kind)
                  /\ Wait(p, op) \/ Copy(p, op) \/ ForwardPass(p, op)
    BY <1>4, RunEffect
  <2>2. hop' = hop /\ fed' = fed
    BY <2>1 DEF RunFacts
  <2>3. CASE Wait(p, op) \/ Copy(p, op)
    <3>1. got' = got
      BY <2>3 DEF Wait, Copy
    <3>2. QED
      BY <1>2, <2>2, <3>1
  <2>4. CASE ForwardPass(p, op)
    <3>1. ForwardFacts(p, op.step)
      BY <2>1, <2>4, ForwardEffect
    <3>2. /\ Seen(p)' = Append(Seen(p), Seen(p - 1)[Len(Seen(p)) + 1])
          /\ Len(Seen(p)) < Len(Seen(p - 1))
          /\ got' = [got EXCEPT ![p] = Append(got[p], All(op.step))]
      BY <3>1 DEF ForwardFacts
    <3>3. \A q \in Stages : q # p => got'[q] = got[q]
      <4>1. got \in [Stages -> Seq([Keys -> 0..MaxSteps])]
        BY DEF IInv, TypeOK
      <4>2. QED
        BY <3>2, <4>1
    <3>4. \A q \in Stages : q # p => Seen(q)' = Seen(q)
      <4>1. \A q \in Stages : q \in 0..PPSize /\ q # 0
        BY StagesInt DEF Stages
      <4>2. QED
        BY <2>2, <3>3, <4>1, SeenLocal
    <3>5. /\ \A q \in Stages : bar[q] = Seen(q) /\ bar'[q] = Seen(q)'
          /\ DOMAIN bar = Stages /\ DOMAIN bar' = Stages
          /\ bar = [q \in Stages |-> bar[q]] /\ bar' = [q \in Stages |-> bar'[q]]
      <4>1. \A q \in Stages : q # 0
        BY StagesInt DEF Stages
      <4>2. QED
        BY <4>1 DEF Seen
    <3>6. Pipe!Upstream(p) = Seen(p - 1)
      BY PipeState
    <3> HIDE DEF bar
    <3>7. bar' = [bar EXCEPT ![p] = Append(bar[p], Pipe!Upstream(p)[Len(bar[p]) + 1])]
      BY <3>2, <3>4, <3>5, <3>6
    <3>8. Len(bar[p]) < Len(Pipe!Upstream(p))
      BY <3>2, <3>5, <3>6
    <3>9. Pipe!Forward(p)
      BY <2>2, <3>7, <3>8 DEF Pipe!Forward, bar
    <3>10. QED
      BY <3>9 DEF Pipe!Next, Pipe!Stages, Stages
  <2>5. QED
    BY <2>1, <2>3, <2>4
<1>5. ASSUME NEW p \in Stages, Transfer(p)
      PROVE  [Pipe!Next]_(Pipe!vars)
  BY <1>2, <1>5 DEF Transfer
<1>6. CASE UNCHANGED vars
  BY <1>2, <1>6 DEF vars
<1>7. QED
  BY <1>3, <1>4, <1>5, <1>6 DEF Next, Finished

(* The stages are a pipe (StageChannel): whatever the order of CPU threads, *)
(* GPUs and transfers, each stage runs the scheduled steps in order, each   *)
(* once, on the activations the stage before it produced for that step.     *)
THEOREM RefinesPipe == Spec => Refines
<1>1. Init => Pipe!Init
  BY DEF Init, Pipe!Init, Pipe!Stages, Stages
<1>2. IInv /\ [Next]_vars => [Pipe!Next]_(Pipe!vars)
  BY PipeStep
<1>3. QED
  BY <1>1, <1>2, NextInv, PTL DEF Spec, Refines, Pipe!InOrder
=============================================================================
