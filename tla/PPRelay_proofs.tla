--------------------------- MODULE PPRelay_proofs ---------------------------
(***************************************************************************)
(* Theorems about PPRelay, for every number of stages, requests, slots and *)
(* speculative steps: the type invariant, and that the ranks post the same *)
(* collectives in the same order.                                          *)
(*                                                                         *)
(* The argument for the collectives: opEnd cuts the sequence of            *)
(* collectives that the schedule calls for into steps; the log of a rank   *)
(* that has completed n steps is the concatenation of the first n cuts,    *)
(* and a receiver's cut of a step is the sampler's cut of the same step.   *)
(***************************************************************************)
EXTENDS PPRelay, SequenceTheorems, FiniteSetTheorems, TLAPS

RowMaps == UNION {[S -> Row] : S \in SUBSET Reqs}
Outputs == [gone : SUBSET Reqs, new : SUBSET Reqs, rows : RowMaps]

(* A sequence over its own entries.                                         *)
Listed(s) == s \in Seq({s[i] : i \in 1..Len(s)})

(* The logs are sequences over fixed sets, or over their own entries: what  *)
(* the library's theorems on sequences ask for.                             *)
Typed ==
  /\ sched \in Seq(Outputs) /\ job \in [Reqs -> Job] /\ aborts \in Nat
  /\ step \in [Ranks -> 0..Len(sched)] /\ phase \in [Ranks -> {"idle", "ran"}]
  /\ \A p \in Ranks : phase[p] = "ran" => step[p] < Len(sched)
  /\ req \in [Ranks -> [Slots -> Reqs \cup {NoReq}]]
  /\ gen \in [Ranks -> [Slots -> Nat]]
  /\ Listed(result) /\ Len(result) = step[Last] /\ seen \in 0..Len(result)
  /\ \A t \in DOMAIN result : Answers(result[t], sched[t].rows)

(* The FIFO of a rank is a sequence over its own entries.                   *)
Fifo(q) == q \in Seq({q[i] : i \in 1..PPSize}) /\ Len(q) = PPSize

Fifos == queue = [p \in NonLast |-> queue[p]] /\ \A p \in NonLast : Fifo(queue[p])

(* ends cuts the collectives of the schedule s into steps.                  *)
Cuts(s, ends) ==
  /\ ends \in Seq(Nat) /\ Len(ends) = Len(s) + 1 /\ ends[1] = 0
  /\ \A t \in 1..Len(s) : ends[t + 1] = ends[t] + Len(Sends(s[t].rows))
  /\ \A t, u \in 1..(Len(s) + 1) : t <= u => ends[t] <= ends[u]
  /\ \A t \in 0..Len(s) : \A i \in 1..ends[t + 1] :
       \E u \in 1..t : ends[u] < i /\ i <= ends[u + 1]

(* log holds the collectives of the first n steps of s.                     *)
Logged(log, n, s, ends) ==
  /\ log \in Seq(Shape) /\ Len(log) = ends[n + 1]
  /\ \A t \in 1..n : \A k \in 1..Len(Sends(s[t].rows)) :
       log[ends[t] + k] = Sends(s[t].rows)[k]

Logs ==
  /\ Cuts(sched, opEnd)
  /\ Logged(sent, step[Last], sched, opEnd)
  /\ posted \in [NonLast -> Seq(Shape)]
  /\ \A p \in NonLast : Logged(posted[p], step[p], sched, opEnd)

IInv == Typed /\ Fifos /\ Logs

USE RelayAssumption
-----------------------------------------------------------------------------
(* What a step sends and receives.                                          *)

(* The receivers of a step post the sampler's collectives: same number,     *)
(* order and width, because the sampler pads and the flag for the drafts    *)
(* comes from the configuration.                                            *)
LEMMA RecvsAreSends == \A p, rows : Recvs(p, rows) = Sends(rows)
  BY DEF Recvs, Sends, Shapes, PaddedWidth, SampledWidth, RelayDraftTokens, MaxSampleLen

LEMMA SendsType ==
  ASSUME NEW rows \in RowMaps
  PROVE  /\ Sends(rows) \in Seq(Shape)
         /\ Len(Sends(rows)) \in Nat
<1>1. DOMAIN rows \subseteq Reqs
  BY DEF RowMaps
<1>2. Cardinality(DOMAIN rows) \in Nat
  BY <1>1, FS_Subset, FS_CardinalityType
<1>3. PaddedWidth(SampledWidth(rows)) \in Nat /\ MaxSampleLen - 1 \in Nat
  BY DEF PaddedWidth, SampledWidth, MaxSampleLen
<1>4. Sends(rows) \in Seq(Shape)
  <2> DEFINE n  == Cardinality(DOMAIN rows)
             w  == PaddedWidth(SampledWidth(rows))
             dr == MaxSampleLen - 1
  <2>1. n \in Nat /\ w \in Nat /\ dr \in Nat
    BY <1>2, <1>3
  <2> HIDE DEF n, w, dr
  <2>2. <<>> \in Seq(Shape)
    OBVIOUS
  <2>3. /\ <<"sampled", n, w>> \in Shape
        /\ <<"combined", n, 2>> \in Shape
        /\ <<"draft", n, dr>> \in Shape
    BY <2>1 DEF Shape
  <2>4. /\ <<<<"sampled", n, w>>, <<"combined", n, 2>>>> \in Seq(Shape)
        /\ <<<<"draft", n, dr>>>> \in Seq(Shape)
    BY <2>3
  <2>5. /\ <<<<"sampled", n, w>>, <<"combined", n, 2>>>> \o <<>> \in Seq(Shape)
        /\ <<<<"sampled", n, w>>, <<"combined", n, 2>>>> \o <<<<"draft", n, dr>>>> \in Seq(Shape)
    BY <2>2, <2>4, ConcatProperties
  <2> QED BY <2>2, <2>5 DEF Sends, Shapes, n, w, dr
<1> QED BY <1>4, LenProperties

(* A step without rows has no collectives.                                  *)
LEMMA SendsEmpty == Empty \in RowMaps /\ Sends(Empty) = <<>> /\ Len(Sends(Empty)) = 0
<1>1. Empty \in [{} -> Row]
  BY DEF Empty
<1>2. Need(Empty) = {}
  BY DEF Need, Empty
<1> QED BY <1>1, <1>2 DEF RowMaps, Sends, Shapes
-----------------------------------------------------------------------------
(* How a log grows.                                                         *)

(* Scheduling a step adds a cut and leaves the others.                      *)
LEMMA CutsGrow ==
  ASSUME NEW s \in Seq(Outputs), NEW ends, NEW o \in Outputs, Cuts(s, ends)
  PROVE  Cuts(Append(s, o), Append(ends, ends[Len(s) + 1] + Len(Sends(o.rows))))
<1> DEFINE m  == Len(s)
           e  == ends[m + 1] + Len(Sends(o.rows))
           s2 == Append(s, o)
           e2 == Append(ends, e)
<1>1. m \in Nat /\ ends \in Seq(Nat) /\ Len(ends) = m + 1 /\ Len(Sends(o.rows)) \in Nat
  BY LenProperties, SendsType DEF Cuts, Outputs
<1>2. ends[m + 1] \in Nat /\ e \in Nat /\ e >= ends[m + 1]
  BY <1>1, ElementOfSeq
<1>3. /\ Len(s2) = m + 1 /\ s2[m + 1] = o
      /\ \A t \in 1..m : s2[t] = s[t]
  BY <1>1
<1>4. /\ e2 \in Seq(Nat) /\ Len(e2) = m + 2 /\ e2[m + 2] = e
      /\ \A t \in 1..(m + 1) : e2[t] = ends[t]
  BY <1>1, <1>2
<1>c. /\ \A t \in 1..m : ends[t + 1] = ends[t] + Len(Sends(s[t].rows))
      /\ \A t, u \in 1..(m + 1) : t <= u => ends[t] <= ends[u]
      /\ \A t \in 0..m : \A i \in 1..ends[t + 1] :
           \E u \in 1..t : ends[u] < i /\ i <= ends[u + 1]
      /\ ends[1] = 0
  BY DEF Cuts, m
<1> HIDE DEF m, e, s2, e2
<1>5. e2[1] = 0
  BY <1>1, <1>4, <1>c
<1>6. ASSUME NEW t \in 1..Len(s2) PROVE e2[t + 1] = e2[t] + Len(Sends(s2[t].rows))
  <2>1. CASE t = m + 1
    BY <2>1, <1>1, <1>3, <1>4 DEF e
  <2>2. CASE t \in 1..m
    <3>0. t \in 1..(m + 1) /\ t + 1 \in 1..(m + 1)
      BY <2>2, <1>1
    <3>1. e2[t + 1] = ends[t + 1] /\ e2[t] = ends[t] /\ s2[t] = s[t]
      BY <2>2, <3>0, <1>3, <1>4
    <3> QED BY <2>2, <3>1, <1>c
  <2> QED BY <1>1, <1>3, <2>1, <2>2
<1>7. ASSUME NEW t \in 1..(Len(s2) + 1), NEW u \in 1..(Len(s2) + 1), t <= u
      PROVE  e2[t] <= e2[u]
  <2>1. CASE u = m + 2 /\ t = m + 2
    BY <2>1, <1>2, <1>4
  <2>2. CASE u = m + 2 /\ t <= m + 1
    <3>1. t \in 1..(m + 1) /\ m + 1 \in 1..(m + 1) /\ t <= m + 1
      BY <2>2, <1>1
    <3>2. ends[t] <= ends[m + 1] /\ ends[t] \in Nat
      BY <3>1, <1>1, <1>c, ElementOfSeq
    <3> QED BY <2>2, <3>1, <3>2, <1>2, <1>4
  <2>3. CASE u <= m + 1
    <3>1. t \in 1..(m + 1) /\ u \in 1..(m + 1)
      BY <2>3, <1>1, <1>3, <1>7
    <3>2. ends[t] <= ends[u]
      BY <3>1, <1>7, <1>c
    <3> QED BY <3>1, <3>2, <1>4
  <2> QED BY <1>1, <1>3, <1>7, <2>1, <2>2, <2>3
<1>8. ASSUME NEW t \in 0..Len(s2), NEW i \in 1..e2[t + 1]
      PROVE  \E u \in 1..t : e2[u] < i /\ i <= e2[u + 1]
  <2>1. CASE t \in 0..m
    <3>1. \E u \in 1..t : ends[u] < i /\ i <= ends[u + 1]
      BY <2>1, <1>1, <1>4, <1>8, <1>c
    <3> QED BY <3>1, <2>1, <1>1, <1>4
  <2>2. CASE t = m + 1 /\ i <= ends[m + 1]
    <3>1. \E u \in 1..m : ends[u] < i /\ i <= ends[u + 1]
      BY <2>2, <1>1, <1>2, <1>4, <1>8, <1>c
    <3> QED BY <3>1, <2>2, <1>1, <1>4
  <2>3. CASE t = m + 1 /\ ~(i <= ends[m + 1])
    <3>1. ends[m + 1] < i /\ i <= e
      BY <2>3, <1>1, <1>2, <1>4
    <3> QED BY <2>3, <3>1, <1>1, <1>4
  <2>4. t \in 0..m \/ t = m + 1
    BY <1>1, <1>3
  <2>5. i <= ends[m + 1] \/ ~(i <= ends[m + 1])
    OBVIOUS
  <2> QED BY <2>1, <2>2, <2>3, <2>4, <2>5
<1>9. Cuts(s2, e2)
  <2>1. e2 \in Seq(Nat) /\ Len(e2) = Len(s2) + 1
    BY <1>1, <1>3, <1>4
  <2> QED BY <2>1, <1>5, <1>6, <1>7, <1>8 DEF Cuts
<1> QED BY <1>9 DEF s2, e2, e, m

(* A log does not mind a step scheduled behind it.                          *)
LEMMA LogKept ==
  ASSUME NEW s \in Seq(Outputs), NEW ends, NEW o, NEW e \in Nat, Cuts(s, ends),
         NEW n \in 0..Len(s), NEW log, Logged(log, n, s, ends)
  PROVE  Logged(log, n, Append(s, o), Append(ends, e))
<1> DEFINE s2 == Append(s, o)
           e2 == Append(ends, e)
<1>1. Len(s) \in Nat /\ ends \in Seq(Nat) /\ Len(ends) = Len(s) + 1
  BY LenProperties DEF Cuts
<1>2. /\ \A t \in 1..(Len(s) + 1) : e2[t] = ends[t]
      /\ \A t \in 1..Len(s) : s2[t] = s[t]
  BY <1>1
<1> HIDE DEF s2, e2
<1>3. /\ log \in Seq(Shape) /\ Len(log) = ends[n + 1]
      /\ \A t \in 1..n : \A k \in 1..Len(Sends(s[t].rows)) :
           log[ends[t] + k] = Sends(s[t].rows)[k]
  BY DEF Logged
<1>4. e2[n + 1] = ends[n + 1]
  BY <1>1, <1>2
<1>5. ASSUME NEW t \in 1..n PROVE e2[t] = ends[t] /\ s2[t] = s[t]
  BY <1>1, <1>2
<1>6. Logged(log, n, s2, e2)
  BY <1>3, <1>4, <1>5, SMTT(30) DEF Logged
<1> QED BY <1>6 DEF s2, e2

(* A rank that posts the collectives of its next step has logged it.        *)
LEMMA LogNext ==
  ASSUME NEW s \in Seq(Outputs), NEW ends, Cuts(s, ends),
         NEW n \in Nat, n < Len(s), NEW log, Logged(log, n, s, ends)
  PROVE  Logged(log \o Sends(s[n + 1].rows), n + 1, s, ends)
<1> DEFINE x == Sends(s[n + 1].rows)
           l == log \o x
<1>1. Len(s) \in Nat /\ s[n + 1] \in Outputs /\ n + 1 \in 1..Len(s)
  BY LenProperties, ElementOfSeq
<1>2. x \in Seq(Shape) /\ Len(x) \in Nat
  BY <1>1, SendsType DEF Outputs
<1>3. log \in Seq(Shape) /\ Len(log) \in Nat /\ Len(log) = ends[n + 1]
  BY LenProperties DEF Logged
<1> HIDE DEF x
<1>a. l \in Seq(Shape) /\ Len(l) = Len(log) + Len(x)
  BY <1>2, <1>3, ConcatProperties
<1>b. \A i \in 1..(Len(log) + Len(x)) : l[i] = IF i <= Len(log) THEN log[i] ELSE x[i - Len(log)]
  BY <1>2, <1>3, ConcatProperties
<1>4. /\ l \in Seq(Shape) /\ Len(l) = Len(log) + Len(x)
      /\ \A i \in 1..(Len(log) + Len(x)) : l[i] = IF i <= Len(log) THEN log[i] ELSE x[i - Len(log)]
  BY <1>a, <1>b
<1> HIDE DEF l
<1>c. /\ \A t \in 1..Len(s) : ends[t + 1] = ends[t] + Len(Sends(s[t].rows))
      /\ \A t, u \in 1..(Len(s) + 1) : t <= u => ends[t] <= ends[u]
      /\ ends \in Seq(Nat) /\ Len(ends) = Len(s) + 1
  BY DEF Cuts
<1>5. ends[n + 2] = ends[n + 1] + Len(x)
  BY <1>1, <1>c DEF x
<1>6. ASSUME NEW t \in 1..(n + 1), NEW k \in 1..Len(Sends(s[t].rows))
      PROVE  l[ends[t] + k] = Sends(s[t].rows)[k]
  <2>1. CASE t = n + 1
    BY <2>1, <1>2, <1>3, <1>4, SMTT(30) DEF x
  <2>2. CASE t \in 1..n
    <3>0. t \in 1..Len(s) /\ t + 1 \in 1..(Len(s) + 1) /\ t \in 1..(Len(s) + 1)
          /\ n + 1 \in 1..(Len(s) + 1) /\ t + 1 <= n + 1
      BY <2>2, <1>1
    <3>1. ends[t] \in Nat
      BY <3>0, <1>c, ElementOfSeq
    <3>a. ends[t + 1] <= ends[n + 1]
      BY <3>0, <1>c
    <3>b. ends[t + 1] = ends[t] + Len(Sends(s[t].rows))
      BY <3>0, <1>c
    <3>2. s[t] \in Outputs
      BY <3>0, ElementOfSeq
    <3>d. Len(Sends(s[t].rows)) \in Nat
      BY <3>2, SendsType DEF Outputs
    <3>3. ends[t] + k \in 1..Len(log)
      BY <3>1, <3>a, <3>b, <3>d, <1>3, SMTT(30)
    <3>4. log[ends[t] + k] = Sends(s[t].rows)[k]
      BY <2>2 DEF Logged
    <3>5. ends[t] + k \in 1..(Len(log) + Len(x)) /\ ends[t] + k <= Len(log)
      BY <3>3, <1>2, <1>3
    <3>6. l[ends[t] + k] = log[ends[t] + k]
      BY <3>5, <1>4
    <3> QED BY <3>4, <3>6
  <2> QED BY <2>1, <2>2
<1>7. Logged(l, n + 1, s, ends)
  BY <1>3, <1>4, <1>5, <1>6 DEF Logged
<1> QED BY <1>7 DEF l, x
-----------------------------------------------------------------------------
(* Typing, action by action.                                                *)

(* What every step of the schedule is.                                      *)
(* The length and domain of a list, and a list grown by one entry.          *)
LEMMA ListedLen == ASSUME NEW s, Listed(s) PROVE Len(s) \in Nat /\ DOMAIN s = 1..Len(s)
  BY LenProperties DEF Listed

LEMMA ListedAppend ==
  ASSUME NEW s, Listed(s), NEW x
  PROVE  /\ Listed(Append(s, x)) /\ Len(Append(s, x)) = Len(s) + 1
         /\ \A i \in 1..Len(s) : Append(s, x)[i] = s[i]
         /\ Append(s, x)[Len(s) + 1] = x
<1> DEFINE S == {s[i] : i \in 1..Len(s)} \cup {x}
           q == Append(s, x)
           T == {q[i] : i \in 1..Len(q)}
<1>1. s \in Seq(S) /\ x \in S /\ Len(s) \in Nat
  <2>1. s \in Seq({s[i] : i \in 1..Len(s)})
    BY DEF Listed
  <2> QED BY <2>1, LenProperties, SeqDef
<1>2. /\ q \in Seq(S) /\ Len(q) = Len(s) + 1
      /\ \A i \in 1..Len(s) : q[i] = s[i]
      /\ q[Len(s) + 1] = x
  <2> HIDE DEF S
  <2> QED BY <1>1, AppendProperties
<1>3. q \in [1..Len(q) -> T] /\ Len(q) \in Nat
  <2>1. q \in [1..Len(q) -> S] /\ Len(q) \in Nat
    BY <1>2, LenProperties
  <2> HIDE DEF q, S
  <2> QED BY <2>1
<1>4. q \in Seq(T)
  <2> HIDE DEF q, T
  <2> QED BY <1>3, SeqDef
<1> QED BY <1>2, <1>4 DEF Listed

LEMMA StepType ==
  ASSUME Typed, NEW t \in 1..Len(sched)
  PROVE  sched[t] \in Outputs /\ sched[t].rows \in RowMaps
<1>1. sched[t] \in Outputs
  BY ElementOfSeq DEF Typed
<1> QED BY <1>1 DEF Outputs

LEMMA RankFacts ==
  /\ Last \in Ranks /\ NonLast \subseteq Ranks /\ Last \notin NonLast
  /\ Ranks = NonLast \cup {Last} /\ Last = PPSize
  BY DEF Last, Ranks, NonLast

(* The rows a request can be offered are rows, and running one leaves the   *)
(* request's record well-formed.                                            *)
LEMMA OfferType ==
  ASSUME NEW r, NEW j \in Job, NEW row \in Offers(r, j), Now \in Nat
  PROVE  row \in Row /\ AfterRow(j, row) \in Job
<1>1. row \in Row
  <2>1. CASE j.c < j.plen
    BY <2>1 DEF Offers, Row, Job
  <2>2. CASE ~(j.c < j.plen)
    BY <2>2 DEF Offers, Row, Job
  <2> QED BY <2>1, <2>2
<1>2. Now + PPSize \in Nat
  OBVIOUS
<1>3. j.c + row.n \in Int
  BY <1>1 DEF Row, Job
<1>4. CASE ProducesSample(row)
  <2>1. AfterRow(j, row) = [j EXCEPT !.c = j.c + row.n, !.due = Now + PPSize, !.awaits = Now]
    BY <1>4 DEF AfterRow
  <2> QED BY <1>1, <1>2, <1>3, <2>1 DEF Job
<1>5. CASE ~ProducesSample(row)
  <2>1. AfterRow(j, row) = [j EXCEPT !.c = j.c + row.n]
    BY <1>5 DEF AfterRow
  <2> QED BY <1>1, <1>3, <2>1 DEF Job
<1> QED BY <1>4, <1>5

LEMMA ScheduleTyped == Typed /\ opEnd \in Seq(Nat) /\ Schedule => Typed'
<1> SUFFICES ASSUME Typed, opEnd \in Seq(Nat), Schedule PROVE Typed'
  OBVIOUS
<1>1. Len(sched) \in Nat /\ Now \in Nat
  BY LenProperties DEF Typed, Now
<1>2. PICK gone \in SUBSET Live, new \in {{}} \cup {{r} : r \in Reqs}, len \in Plens :
        \E rows \in Batches(new, Rebased(gone, new, len)) :
          Emit(gone, new, Rebased(gone, new, len), rows)
  BY DEF Schedule
<1> DEFINE base == Rebased(gone, new, len)
<1>3. new \subseteq Reqs /\ gone \subseteq Reqs /\ CutShort(gone, new) \subseteq Reqs
  BY DEF Live, CutShort
<1>4. base \in [Reqs -> Job]
  <2>1. len \in Nat /\ Arrived(len) \in Job /\ Absent \in Job
    BY <1>1 DEF Arrived, Absent, Job
  <2> QED BY <2>1 DEF Typed, Rebased
<1> HIDE DEF base
<1>6. PICK rows \in Batches(new, base) : Emit(gone, new, base, rows)
  BY <1>2 DEF base
<1>5. aborts' \in Nat
  <2>1. Cardinality(CutShort(gone, new)) \in Nat
    BY <1>3, FS_Subset, FS_CardinalityType
  <2>2. aborts' = aborts + Cardinality(CutShort(gone, new))
    BY <1>6 DEF Emit
  <2>3. aborts \in Nat
    BY DEF Typed
  <2> QED BY <2>1, <2>2, <2>3
<1>7. PICK run \in SUBSET Reqs :
        /\ rows \in [run -> UNION {Offers(r, base[r]) : r \in run}]
        /\ \A r \in run : rows[r] \in Offers(r, base[r])
  <2>1. PICK S \in SUBSET {r \in Reqs \ new : Eligible(base[r])} :
          rows \in {f \in [S \cup new -> UNION {Offers(r, base[r]) : r \in S \cup new}] :
                      \A r \in S \cup new : f[r] \in Offers(r, base[r])}
    BY <1>6 DEF Batches
  <2>2. S \cup new \in SUBSET Reqs
    BY <1>3
  <2> QED BY <2>1, <2>2
<1>9. \A r \in run : rows[r] \in Row /\ AfterRow(base[r], rows[r]) \in Job
  <2> TAKE r \in run
  <2>1. base[r] \in Job /\ rows[r] \in Offers(r, base[r])
    BY <1>4, <1>7
  <2> QED BY <2>1, <1>1, OfferType
<1>10. job' \in [Reqs -> Job]
  <2>1. DOMAIN rows = run
    BY <1>7
  <2> QED BY <2>1, <1>4, <1>6, <1>9 DEF Emit
<1>11. [gone |-> gone, new |-> new, rows |-> rows] \in Outputs
  <2>1. rows \in [run -> Row]
    BY <1>7, <1>9
  <2>2. rows \in RowMaps
    BY <2>1 DEF RowMaps
  <2> QED BY <2>2, <1>3 DEF Outputs
<1>12. /\ sched' \in Seq(Outputs) /\ Len(sched') = Len(sched) + 1
       /\ \A t \in 1..Len(sched) : sched'[t] = sched[t]
  BY <1>6, <1>11, AppendProperties DEF Typed, Emit
<1>13. UNCHANGED <<seen, step, phase, req, gen, result>>
  BY DEF Schedule, slotVars, commVars
<1>14. step' \in [Ranks -> 0..Len(sched')] /\ \A p \in Ranks : step[p] <= Len(sched)
  BY <1>1, <1>12, <1>13 DEF Typed
<1>15. ASSUME NEW t \in DOMAIN result'
       PROVE  Answers(result'[t], sched'[t].rows)
  <2>1. t \in 1..Len(result) /\ Len(result) <= Len(sched) /\ Len(result) \in Nat
    BY <1>13, <1>14, RankFacts, LenProperties DEF Typed
  <2>2. sched'[t] = sched[t]
    BY <2>1, <1>1, <1>12
  <2> QED BY <2>1, <2>2, <1>13 DEF Typed
<1>16. \A p \in Ranks : phase'[p] = "ran" => step'[p] < Len(sched')
  BY <1>1, <1>12, <1>13, <1>14 DEF Typed
<1> QED BY <1>5, <1>10, <1>12, <1>13, <1>14, <1>15, <1>16 DEF Typed

LEMMA ProcessOutputTyped == Typed /\ ProcessOutput => Typed'
<1> SUFFICES ASSUME Typed, ProcessOutput PROVE Typed'
  OBVIOUS
<1> DEFINE rows == sched[seen + 1].rows
           f    == result[seen + 1]
<1>1. /\ Len(result) \in Nat /\ Len(sched) \in Nat /\ Len(result) <= Len(sched)
      /\ DOMAIN result = 1..Len(result)
  BY RankFacts, ListedLen, LenProperties DEF Typed
<1>2. seen + 1 \in 1..Len(result) /\ seen + 1 \in 1..Len(sched) /\ seen' = seen + 1
  <2>1. seen < Len(result) /\ seen' = seen + 1
    BY DEF ProcessOutput
  <2>2. seen \in 0..Len(result)
    BY DEF Typed
  <2> QED BY <1>1, <2>1, <2>2
<1>3. rows \in RowMaps
  BY <1>2, StepType
<1>4. Answers(f, rows)
  BY <1>1, <1>2 DEF Typed
<1>5. \A r \in DOMAIN rows : f[r].sampled \in Nat /\ Rejected(rows[r], f[r].sampled) \in Int
  <2> TAKE r \in DOMAIN rows
  <2>1. f[r].sampled \in Nat
    BY <1>4 DEF Answers, MaxSampleLen
  <2>2. rows[r] \in Row
    BY <1>3 DEF RowMaps
  <2>3. rows[r].d \in Nat
    BY <2>2 DEF Row
  <2> HIDE DEF rows, f
  <2> QED BY <2>1, <2>3 DEF Rejected
<1>6. job' \in [Reqs -> Job]
  <2> DEFINE Back(r) == job[r].live /\ job[r].since <= seen + 1 /\ r \in DOMAIN rows
             After(r) == [job[r] EXCEPT !.c = @ - Rejected(rows[r], f[r].sampled),
                                        !.len = @ + f[r].sampled,
                                        !.done = job[r].len + f[r].sampled >= MaxLen]
  <2>1. job' = [r \in Reqs |-> IF Back(r) THEN After(r) ELSE job[r]]
    BY DEF ProcessOutput
  <2>2. ASSUME NEW r \in Reqs, Back(r) PROVE After(r) \in Job
    <3>1. f[r].sampled \in Nat /\ Rejected(rows[r], f[r].sampled) \in Int
      BY <1>5, <2>2
    <3>2. job[r] \in Job
      BY DEF Typed
    <3> DEFINE x == job[r].c - Rejected(rows[r], f[r].sampled)
               y == job[r].len + f[r].sampled
               z == job[r].len + f[r].sampled >= MaxLen
    <3>3. x \in Int /\ y \in Nat /\ z \in BOOLEAN
      BY <3>1, <3>2 DEF Job
    <3>4. After(r) = [job[r] EXCEPT !.c = x, !.len = y, !.done = z]
      BY <3>2 DEF Job
    <3> HIDE DEF x, y, z, After
    <3> QED BY <3>2, <3>3, <3>4 DEF Job
  <2> HIDE DEF After, Back
  <2>3. \A r \in Reqs : job[r] \in Job
    BY DEF Typed
  <2> QED BY <2>1, <2>2, <2>3
<1>7. UNCHANGED <<sched, aborts, step, phase, req, gen, result>>
  BY DEF ProcessOutput, slotVars, commVars
<1>8. seen' \in 0..Len(result)
  BY <1>1, <1>2
<1> QED BY <1>6, <1>7, <1>8 DEF Typed

(* Beginning a step gives every freed slot a new generation and puts        *)
(* requests of the step into slots.                                         *)
LEMMA BeginTyped ==
  ASSUME Typed, NEW p \in Ranks, NEW o \in Outputs, Begin(p, o)
  PROVE  /\ req' \in [Ranks -> [Slots -> Reqs \cup {NoReq}]]
         /\ gen' \in [Ranks -> [Slots -> Nat]]
<1>1. PICK t, place : BeginStep(p, o, t, place)
  BY DEF Begin
<1>2. gen' \in [Ranks -> [Slots -> Nat]]
  <2>1. BumpGen(gen[p], Freed(p, o)) \in [Slots -> Nat]
    BY DEF Typed, BumpGen
  <2> QED BY <1>1, <2>1 DEF BeginStep, Typed
<1>3. req' \in [Ranks -> [Slots -> Reqs \cup {NoReq}]]
  <2> DEFINE Put(s) == \E r \in o.new : place[r] = s
             Pick(s) == CHOOSE r \in o.new : place[r] = s
             slots == [s \in Slots |-> IF Put(s) THEN Pick(s)
                                       ELSE IF s \in Freed(p, o) THEN NoReq ELSE req[p][s]]
  <2>1. o.new \subseteq Reqs
    BY DEF Outputs
  <2>2. ASSUME NEW s \in Slots, Put(s) PROVE Pick(s) \in Reqs
    BY <2>1, <2>2
  <2>3. \A s \in Slots : req[p][s] \in Reqs \cup {NoReq}
    BY DEF Typed
  <2>4. req' = [req EXCEPT ![p] = slots]
    BY <1>1 DEF BeginStep
  <2> HIDE DEF Put, Pick
  <2>5. slots \in [Slots -> Reqs \cup {NoReq}]
    BY <2>2, <2>3
  <2> HIDE DEF slots
  <2> QED BY <2>4, <2>5 DEF Typed
<1> QED BY <1>2, <1>3

LEMMA ExecuteTyped == ASSUME Typed, NEW p \in Ranks, Execute(p) PROVE Typed'
<1>1. Len(sched) \in Nat /\ step[p] + 1 \in 1..Len(sched)
  BY LenProperties DEF Typed, Execute
<1>2. sched[step[p] + 1] \in Outputs /\ Begin(p, sched[step[p] + 1])
  BY <1>1, StepType DEF Execute
<1>3. /\ req' \in [Ranks -> [Slots -> Reqs \cup {NoReq}]]
      /\ gen' \in [Ranks -> [Slots -> Nat]]
  BY <1>2, BeginTyped
<1>4. UNCHANGED <<sched, job, seen, aborts, step, result>> /\ phase' = [phase EXCEPT ![p] = "ran"]
  BY DEF Execute, schedVars, commVars
<1>5. step[p] < Len(sched)
  BY DEF Execute
<1> QED BY <1>3, <1>4, <1>5 DEF Typed

(* A rank that completes a step.                                            *)
LEMMA StepTyped ==
  ASSUME Typed, NEW p \in Ranks, step[p] < Len(sched),
         UNCHANGED <<sched, job, seen, aborts>>,
         step' = [step EXCEPT ![p] = @ + 1],
         phase' = [phase EXCEPT ![p] = "idle"],
         req' \in [Ranks -> [Slots -> Reqs \cup {NoReq}]],
         gen' \in [Ranks -> [Slots -> Nat]],
         IF p = Last
         THEN \E f : Answers(f, sched[step[p] + 1].rows) /\ result' = Append(result, f)
         ELSE result' = result
  PROVE  Typed'
<1>1. Len(sched) \in Nat /\ Len(result) \in Nat /\ DOMAIN result = 1..Len(result)
  BY LenProperties, ListedLen DEF Typed
<1>2. step[p] \in Nat /\ step[p] + 1 \in 0..Len(sched)
  BY <1>1 DEF Typed
<1>3. step' \in [Ranks -> 0..Len(sched)] /\ step'[p] = step[p] + 1
  BY <1>2 DEF Typed
<1>4. phase' \in [Ranks -> {"idle", "ran"}]
      /\ \A q \in Ranks : phase'[q] = "ran" => q # p
  BY DEF Typed
<1>5. \A q \in Ranks : phase'[q] = "ran" => step'[q] < Len(sched')
  BY <1>4 DEF Typed
<1>6. /\ Listed(result') /\ Len(result') = step'[Last] /\ Len(result) <= Len(result')
      /\ \A t \in 1..Len(result') : Answers(result'[t], sched[t].rows)
  <2>1. CASE p = Last
    <3>1. PICK f : Answers(f, sched[step[p] + 1].rows) /\ result' = Append(result, f)
      BY <2>1
    <3>2. Len(result) = step[p]
      BY <2>1 DEF Typed
    <3>4. /\ Listed(result') /\ Len(result') = Len(result) + 1
          /\ \A t \in 1..Len(result) : result'[t] = result[t]
          /\ result'[Len(result) + 1] = f
      BY <3>1, ListedAppend DEF Typed
    <3>5. ASSUME NEW t \in 1..Len(result')
          PROVE  Answers(result'[t], sched[t].rows)
      <4>1. CASE t = Len(result) + 1
        BY <4>1, <3>1, <3>2, <3>4
      <4>2. CASE t \in 1..Len(result)
        BY <4>2, <1>1, <3>4 DEF Typed
      <4>3. Len(result') = Len(result) + 1 /\ Len(result) \in Nat
        BY <1>1, <3>4
      <4>4. t = Len(result) + 1 \/ t \in 1..Len(result)
        BY <4>3
      <4> QED BY <4>1, <4>2, <4>4
    <3>6. Len(result') = step'[Last] /\ Len(result) <= Len(result')
      BY <3>2, <3>4, <1>1, <1>3, <2>1
    <3> QED BY <3>4, <3>5, <3>6
  <2>2. CASE p # Last
    <3>1. result' = result
      BY <2>2
    <3>2. step'[Last] = step[Last]
      BY <2>2, RankFacts DEF Typed
    <3>3. \A t \in 1..Len(result) : Answers(result[t], sched[t].rows)
      BY <1>1 DEF Typed
    <3>4. Listed(result) /\ Len(result) = step[Last]
      BY DEF Typed
    <3> QED BY <3>1, <3>2, <3>3, <3>4, <1>1
  <2> QED BY <2>1, <2>2
<1>7. seen' \in 0..Len(result') /\ DOMAIN result' = 1..Len(result')
  BY <1>1, <1>6, ListedLen DEF Typed
<1> QED BY <1>3, <1>4, <1>5, <1>6, <1>7 DEF Typed

LEMMA ExecuteEmptyTyped == ASSUME Typed, NEW p \in Ranks, ExecuteEmpty(p) PROVE Typed'
<1>1. Len(sched) \in Nat /\ step[p] + 1 \in 1..Len(sched)
  BY LenProperties DEF Typed, ExecuteEmpty
<1>2. sched[step[p] + 1] \in Outputs /\ Begin(p, sched[step[p] + 1])
  BY <1>1, StepType DEF ExecuteEmpty
<1>3. /\ req' \in [Ranks -> [Slots -> Reqs \cup {NoReq}]]
      /\ gen' \in [Ranks -> [Slots -> Nat]]
  BY <1>2, BeginTyped
<1>4. Answers(Empty, sched[step[p] + 1].rows)
  BY DEF ExecuteEmpty, Empty, Answers
<1>5. /\ UNCHANGED <<sched, job, seen, aborts>> /\ step' = [step EXCEPT ![p] = @ + 1]
      /\ result' = IF p = Last THEN Append(result, Empty) ELSE result
      /\ phase' = phase /\ phase[p] = "idle" /\ step[p] < Len(sched)
  BY DEF ExecuteEmpty, schedVars
<1>6. phase' = [phase EXCEPT ![p] = "idle"]
  BY <1>5 DEF Typed
<1> QED BY <1>3, <1>4, <1>5, <1>6, StepTyped

LEMMA ReceiveTyped == ASSUME Typed, NEW p \in NonLast, Receive(p) PROVE Typed'
<1>1. p \in Ranks /\ p # Last
  BY RankFacts
<1>2. /\ UNCHANGED <<sched, job, seen, aborts, req, gen, result>>
      /\ step' = [step EXCEPT ![p] = @ + 1] /\ phase' = [phase EXCEPT ![p] = "idle"]
      /\ phase[p] = "ran"
  BY DEF Receive, schedVars
<1>3. step[p] < Len(sched)
  BY <1>1, <1>2 DEF Typed
<1>4. /\ req' \in [Ranks -> [Slots -> Reqs \cup {NoReq}]]
      /\ gen' \in [Ranks -> [Slots -> Nat]]
  BY <1>2 DEF Typed
<1> QED BY <1>1, <1>2, <1>3, <1>4, StepTyped

LEMMA SampleTyped == ASSUME Typed, Sample PROVE Typed'
<1>1. Last \in Ranks
  BY RankFacts
<1>2. /\ UNCHANGED <<sched, job, seen, aborts, req, gen>>
      /\ step' = [step EXCEPT ![Last] = @ + 1] /\ phase' = [phase EXCEPT ![Last] = "idle"]
      /\ phase[Last] = "ran"
  BY DEF Sample, schedVars
<1>3. step[Last] < Len(sched)
  BY <1>1, <1>2 DEF Typed
<1>4. \E f : Answers(f, sched[step[Last] + 1].rows) /\ result' = Append(result, f)
  BY DEF Sample, Outcomes, Rows, Answers
<1>5. /\ req' \in [Ranks -> [Slots -> Reqs \cup {NoReq}]]
      /\ gen' \in [Ranks -> [Slots -> Nat]]
  BY <1>2 DEF Typed
<1> QED BY <1>1, <1>2, <1>3, <1>4, <1>5, StepTyped
-----------------------------------------------------------------------------
(* The FIFOs.                                                               *)

LEMMA FifoAny == ASSUME NEW S, NEW q \in Seq(S), Len(q) = PPSize PROVE Fifo(q)
<1> DEFINE T == {q[i] : i \in 1..PPSize}
<1>1. PPSize \in Nat /\ q \in [1..PPSize -> S]
  BY LenProperties
<1>2. q \in [1..PPSize -> T]
  BY <1>1
<1>3. [1..PPSize -> T] \subseteq Seq(T)
  <2> HIDE DEF T
  <2> QED BY <1>1, SeqDef
<1> QED BY <1>2, <1>3 DEF Fifo

(* Popping and reserving keeps the FIFO at PPSize entries.                  *)
LEMMA ReserveFifo == ASSUME NEW q, Fifo(q) PROVE Fifo(Reserve(q))
<1> DEFINE S == {q[i] : i \in 1..PPSize} \cup {NoEntry}
<1>1. q \in Seq(S) /\ Len(q) = PPSize /\ PPSize \in Nat \ {0}
  BY SeqMonotonic DEF Fifo
<1>2. q # <<>>
  BY <1>1
<1>3. Tail(q) \in Seq(S) /\ Len(Tail(q)) = PPSize - 1
  BY <1>1, <1>2, HeadTailProperties
<1>4. NoEntry \in S
  OBVIOUS
<1>5. Reserve(q) \in Seq(S) /\ Len(Reserve(q)) = PPSize
  <2> HIDE DEF S
  <2> QED BY <1>1, <1>3, <1>4, AppendProperties DEF Reserve
<1> HIDE DEF S
<1> QED BY <1>5, FifoAny

LEMMA FillFifo == ASSUME NEW q, NEW e, Fifo(q) PROVE Fifo(Fill(q, e))
<1> DEFINE S == {q[i] : i \in 1..PPSize} \cup {e}
<1>1. q \in Seq(S) /\ Len(q) = PPSize /\ PPSize \in 1..Len(q)
  BY SeqMonotonic DEF Fifo
<1>2. e \in S
  OBVIOUS
<1> HIDE DEF S
<1>3. Fill(q, e) \in Seq(S) /\ Len(Fill(q, e)) = PPSize
  BY <1>1, <1>2, ExceptSeq DEF Fill
<1> QED BY <1>3, FifoAny

LEMMA FifosKept ==
  ASSUME Fifos, NEW p \in NonLast, NEW q, Fifo(q), queue' = [queue EXCEPT ![p] = q]
  PROVE  Fifos'
<1>1. queue' = [x \in NonLast |-> queue'[x]] /\ queue'[p] = q
      /\ \A x \in NonLast : x # p => queue'[x] = queue[x]
  BY DEF Fifos
<1> QED BY <1>1 DEF Fifos

LEMMA BeginFifos == ASSUME Fifos, NEW p \in Ranks, NEW o, Begin(p, o) PROVE Fifos'
<1>1. CASE p = Last
  BY <1>1 DEF Begin, Fifos
<1>2. CASE p # Last
  <2>1. p \in NonLast /\ queue' = [queue EXCEPT ![p] = Reserve(queue[p])]
    BY <1>2, RankFacts DEF Begin
  <2>2. Fifo(Reserve(queue[p]))
    BY <2>1, ReserveFifo DEF Fifos
  <2> QED BY <2>1, <2>2, FifosKept
<1> QED BY <1>1, <1>2

LEMMA ReceiveFifos == ASSUME Fifos, NEW p \in NonLast, Receive(p) PROVE Fifos'
<1>1. CASE queue' = queue
  BY <1>1 DEF Fifos
<1>2. CASE \E e : queue' = [queue EXCEPT ![p] = Fill(queue[p], e)]
  <2>1. PICK e : queue' = [queue EXCEPT ![p] = Fill(queue[p], e)]
    BY <1>2
  <2>2. Fifo(Fill(queue[p], e))
    BY FillFifo DEF Fifos
  <2> QED BY <2>1, <2>2, FifosKept
<1> QED BY <1>1, <1>2 DEF Receive
-----------------------------------------------------------------------------
(* The logs.                                                                *)

LEMMA ScheduleLogs == ASSUME Typed, Logs, Schedule PROVE Logs'
<1>1. /\ Len(sched) \in Nat /\ opEnd \in Seq(Nat) /\ Len(opEnd) = Len(sched) + 1
      /\ sched \in Seq(Outputs)
  BY LenProperties DEF Typed, Logs, Cuts
<1>2. PICK o : /\ sched' = Append(sched, o)
               /\ opEnd' = Append(opEnd, opEnd[Len(sched) + 1] + Len(Sends(o.rows)))
  BY DEF Schedule, Emit, Now
<1>3. o \in Outputs
  <2>1. sched' \in Seq(Outputs) /\ Len(sched') = Len(sched) + 1
    BY <1>1, <1>2, ScheduleTyped, SMTT(30) DEF Typed
  <2>2. sched'[Len(sched) + 1] = o
    BY <1>1, <1>2
  <2> QED BY <1>1, <2>1, <2>2, ElementOfSeq
<1> DEFINE e == opEnd[Len(sched) + 1] + Len(Sends(o.rows))
<1>4. e \in Nat
  <2>1. opEnd[Len(sched) + 1] \in Nat
    BY <1>1, ElementOfSeq
  <2>2. Len(Sends(o.rows)) \in Nat
    BY <1>3, SendsType DEF Outputs
  <2> QED BY <2>1, <2>2
<1>5. Cuts(sched', opEnd')
  BY <1>1, <1>2, <1>3, CutsGrow DEF Logs
<1>6. UNCHANGED <<step, sent, posted>>
  BY DEF Schedule, commVars
<1> HIDE DEF e
<1>7. \A p \in Ranks : step[p] \in 0..Len(sched)
  BY DEF Typed
<1>8. opEnd' = Append(opEnd, e)
  BY <1>2 DEF e
<1>9. Logged(sent', step'[Last], sched', opEnd')
  BY <1>1, <1>2, <1>4, <1>6, <1>7, <1>8, RankFacts, LogKept DEF Logs
<1>10. ASSUME NEW p \in NonLast PROVE Logged(posted'[p], step'[p], sched', opEnd')
  <2>1. Logged(posted[p], step[p], sched, opEnd) /\ step[p] \in 0..Len(sched)
    BY <1>7, RankFacts DEF Logs
  <2> QED BY <2>1, <1>1, <1>2, <1>4, <1>6, <1>8, LogKept DEF Logs
<1> QED BY <1>5, <1>6, <1>9, <1>10 DEF Logs

(* A rank that completes a step has posted the step's collectives.          *)
LEMMA StepLogs ==
  ASSUME Typed, Logs, NEW p \in Ranks, step[p] < Len(sched),
         UNCHANGED <<sched, opEnd>>, step' = [step EXCEPT ![p] = @ + 1],
         IF p = Last
         THEN sent' = sent \o Sends(sched[step[p] + 1].rows) /\ posted' = posted
         ELSE /\ posted' = [posted EXCEPT ![p] = @ \o Sends(sched[step[p] + 1].rows)]
              /\ sent' = sent
  PROVE  Logs'
<1> DEFINE x == Sends(sched[step[p] + 1].rows)
<1>1. /\ sched \in Seq(Outputs) /\ step[p] \in Nat /\ Cuts(sched, opEnd)
      /\ step'[p] = step[p] + 1 /\ \A q \in Ranks : q # p => step'[q] = step[q]
  BY DEF Typed, Logs
<1>2. CASE p = Last
  <2>1. sent' = sent \o x /\ posted' = posted
    BY <1>2
  <2>2. Logged(sent', step'[Last], sched, opEnd)
    BY <1>1, <1>2, <2>1, LogNext DEF Logs
  <2>3. \A q \in NonLast : step'[q] = step[q]
    BY <1>1, <1>2, RankFacts
  <2> QED BY <1>1, <2>1, <2>2, <2>3 DEF Logs
<1>3. CASE p # Last
  <2>1. p \in NonLast /\ posted' = [posted EXCEPT ![p] = posted[p] \o x] /\ sent' = sent
    BY <1>3, RankFacts
  <2>2. Logged(posted[p] \o x, step'[p], sched, opEnd)
    BY <1>1, <2>1, LogNext DEF Logs
  <2>3. posted' \in [NonLast -> Seq(Shape)] /\ posted'[p] = posted[p] \o x
        /\ \A q \in NonLast : q # p => posted'[q] = posted[q]
    <3>1. posted[p] \o x \in Seq(Shape)
      BY <2>2 DEF Logged
    <3> HIDE DEF x
    <3> QED BY <2>1, <3>1 DEF Logs
  <2>4. ASSUME NEW q \in NonLast PROVE Logged(posted'[q], step'[q], sched, opEnd)
    <3>1. CASE q = p
      BY <3>1, <2>2, <2>3
    <3>2. CASE q # p
      BY <3>2, <1>1, <2>3, RankFacts DEF Logs
    <3> QED BY <3>1, <3>2
  <2>5. step'[Last] = step[Last]
    BY <1>1, <1>3, RankFacts
  <2> QED BY <1>1, <2>1, <2>3, <2>4, <2>5 DEF Logs
<1> QED BY <1>2, <1>3

LEMMA ReceiveLogs == ASSUME Typed, Logs, NEW p \in NonLast, Receive(p) PROVE Logs'
<1>1. p \in Ranks /\ p # Last /\ step[p] < Len(sched)
  BY RankFacts DEF Receive, Typed
<1>2. /\ UNCHANGED <<sched, opEnd>> /\ step' = [step EXCEPT ![p] = @ + 1]
      /\ posted' = [posted EXCEPT ![p] = @ \o Sends(sched[step[p] + 1].rows)]
      /\ sent' = sent
  BY RecvsAreSends DEF Receive, Rows, schedVars
<1> QED BY <1>1, <1>2, StepLogs

LEMMA SampleLogs == ASSUME Typed, Logs, Sample PROVE Logs'
<1>1. Last \in Ranks /\ step[Last] < Len(sched)
  BY RankFacts DEF Sample, Typed
<1>2. /\ UNCHANGED <<sched, opEnd, posted>> /\ step' = [step EXCEPT ![Last] = @ + 1]
      /\ sent' = sent \o Sends(sched[step[Last] + 1].rows)
  BY DEF Sample, Rows, schedVars
<1> QED BY <1>1, <1>2, StepLogs

LEMMA ExecuteEmptyLogs ==
  ASSUME Typed, Logs, NEW p \in Ranks, ExecuteEmpty(p) PROVE Logs'
<1>1. /\ UNCHANGED <<sched, opEnd, sent, posted>> /\ step' = [step EXCEPT ![p] = @ + 1]
      /\ step[p] < Len(sched) /\ sched[step[p] + 1].rows = Empty
  BY DEF ExecuteEmpty, schedVars
<1> DEFINE x == Sends(sched[step[p] + 1].rows)
<1>2. x = <<>>
  BY <1>1, SendsEmpty
<1>3. CASE p = Last
  <2>1. sent' = sent \o x /\ posted' = posted
    BY <1>1, <1>2, ConcatEmptySeq DEF Logs, Logged
  <2> HIDE DEF x
  <2> QED BY <1>1, <1>3, <2>1, StepLogs DEF x
<1>4. CASE p # Last
  <2>1. p \in NonLast
    BY <1>4, RankFacts
  <2>2. posted[p] \o x = posted[p]
    BY <1>2, <2>1, ConcatEmptySeq DEF Logs
  <2>3. posted' = [posted EXCEPT ![p] = @ \o x] /\ sent' = sent
    BY <1>1, <2>1, <2>2 DEF Logs
  <2> HIDE DEF x
  <2> QED BY <1>1, <1>4, <2>3, StepLogs DEF x
<1> QED BY <1>3, <1>4
-----------------------------------------------------------------------------
(* The invariant.                                                           *)

THEOREM InitInv == Init => IInv
<1> SUFFICES ASSUME Init PROVE IInv
  OBVIOUS
<1>1. Typed
  <2>1. /\ sched = <<>> /\ result = <<>> /\ Len(sched) = 0 /\ Len(result) = 0
        /\ sched \in Seq(Outputs) /\ Listed(result) /\ DOMAIN result = {}
    BY DEF Init, Listed
  <2>2. Absent \in Job
    BY DEF Absent, Job
  <2>3. job \in [Reqs -> Job] /\ aborts \in Nat /\ seen = 0
    BY <2>2 DEF Init
  <2>4. step \in [Ranks -> 0..0] /\ \A p \in Ranks : step[p] = 0 /\ phase[p] = "idle"
    BY DEF Init
  <2>5. phase \in [Ranks -> {"idle", "ran"}]
    BY DEF Init
  <2>6. /\ req \in [Ranks -> [Slots -> Reqs \cup {NoReq}]]
        /\ gen \in [Ranks -> [Slots -> Nat]]
    BY DEF Init
  <2> QED BY <2>1, <2>3, <2>4, <2>5, <2>6, RankFacts DEF Typed
<1>2. Fifos
  <2>1. queue = [p \in NonLast |-> queue[p]]
        /\ \A p \in NonLast : queue[p] = [i \in 1..PPSize |-> NoEntry]
    BY DEF Init
  <2>2. ASSUME NEW q, q = [i \in 1..PPSize |-> NoEntry] PROVE Fifo(q)
    <3>1. q \in [1..PPSize -> {NoEntry}] /\ PPSize \in Nat
      BY <2>2
    <3>2. q \in Seq({NoEntry})
      BY <3>1, SeqDef
    <3>3. Len(q) = PPSize
      BY <3>1, <3>2, LenProperties
    <3> QED BY <3>2, <3>3, FifoAny
  <2> QED BY <2>1, <2>2 DEF Fifos
<1>3. Logs
  <2>1. /\ sched = <<>> /\ Len(sched) = 0 /\ opEnd = <<0>> /\ sent = <<>>
        /\ \A p \in NonLast : posted[p] = <<>>
        /\ \A p \in Ranks : step[p] = 0
        /\ posted \in [NonLast -> Seq(Shape)]
    BY DEF Init
  <2>2. opEnd \in Seq(Nat) /\ Len(opEnd) = 1 /\ opEnd[1] = 0
    BY <2>1
  <2>3. Cuts(sched, opEnd)
    BY <2>1, <2>2 DEF Cuts
  <2>4. Logged(<<>>, 0, sched, opEnd)
    BY <2>2 DEF Logged
  <2> QED BY <2>1, <2>3, <2>4, RankFacts DEF Logs
<1> QED BY <1>1, <1>2, <1>3 DEF IInv

THEOREM NextInv == IInv /\ [Next]_vars => IInv'
<1> SUFFICES ASSUME IInv, [Next]_vars PROVE IInv'
  OBVIOUS
<1>0. Typed /\ Fifos /\ Logs /\ opEnd \in Seq(Nat)
  BY DEF IInv, Logs, Cuts
<1>1. CASE Schedule
  <2>1. Fifos'
    BY <1>0, <1>1 DEF Schedule, Fifos
  <2> QED BY <1>0, <1>1, <2>1, ScheduleTyped, ScheduleLogs DEF IInv
<1>2. CASE ProcessOutput
  <2>1. UNCHANGED <<sched, opEnd, step, queue, sent, posted>>
    BY <1>2 DEF ProcessOutput, commVars
  <2>2. Fifos' /\ Logs'
    BY <1>0, <2>1 DEF Fifos, Logs
  <2> QED BY <1>0, <1>2, <2>2, ProcessOutputTyped DEF IInv
<1>3. ASSUME NEW p \in Ranks, Execute(p) PROVE IInv'
  <2>1. UNCHANGED <<sched, opEnd, step, sent, posted>>
    BY <1>3 DEF Execute, schedVars, commVars
  <2>2. Logs'
    BY <1>0, <2>1 DEF Logs
  <2>3. Fifos'
    BY <1>0, <1>3, BeginFifos DEF Execute
  <2> QED BY <1>0, <1>3, <2>2, <2>3, ExecuteTyped DEF IInv
<1>4. ASSUME NEW p \in Ranks, ExecuteEmpty(p) PROVE IInv'
  <2>1. Fifos'
    BY <1>0, <1>4, BeginFifos DEF ExecuteEmpty
  <2> QED BY <1>0, <1>4, <2>1, ExecuteEmptyTyped, ExecuteEmptyLogs DEF IInv
<1>5. ASSUME NEW p \in NonLast, Receive(p) PROVE IInv'
  BY <1>0, <1>5, ReceiveTyped, ReceiveFifos, ReceiveLogs DEF IInv
<1>6. CASE Sample
  <2>1. Fifos'
    BY <1>0, <1>6 DEF Sample, Fifos
  <2> QED BY <1>0, <1>6, <2>1, SampleTyped, SampleLogs DEF IInv
<1>7. CASE vars' = vars
  <2>1. UNCHANGED <<sched, job, seen, aborts, opEnd, step, phase, req, gen, queue, sent,
                    posted, result>>
    BY <1>7 DEF vars, schedVars, slotVars, commVars
  <2>2. Typed'
    BY <1>0, <2>1 DEF Typed
  <2>3. Fifos' /\ Logs'
    BY <1>0, <2>1 DEF Fifos, Logs
  <2> QED BY <2>2, <2>3 DEF IInv
<1> QED BY <1>1, <1>2, <1>3, <1>4, <1>5, <1>6, <1>7 DEF Next, Finished

(* The type invariant.                                                      *)
LEMMA InvTypeOK == IInv => TypeOK
<1> SUFFICES ASSUME IInv PROVE TypeOK
  OBVIOUS
<1>0. Typed /\ Fifos /\ Logs
  BY DEF IInv
<1>1. \A t \in DOMAIN sched : Output(sched[t])
  <2> TAKE t \in DOMAIN sched
  <2>1. t \in 1..Len(sched)
    BY <1>0, LenProperties DEF Typed
  <2>2. sched[t] \in Outputs /\ sched[t].rows \in RowMaps
    BY <1>0, <2>1, StepType
  <2>3. DOMAIN sched[t].rows \subseteq Reqs /\ sched[t].rows \in [DOMAIN sched[t].rows -> Row]
    BY <2>2 DEF RowMaps
  <2>4. sched[t].gone \subseteq Reqs /\ sched[t].new \subseteq Reqs
    BY <2>2 DEF Outputs
  <2> QED BY <2>3, <2>4 DEF Output
<1>2. \A p \in NonLast : Len(queue[p]) = PPSize
  BY <1>0 DEF Fifos, Fifo
<1>3. sent \in Seq(Shape) /\ posted \in [NonLast -> Seq(Shape)]
      /\ opEnd \in Seq(Nat) /\ Len(opEnd) = Len(sched) + 1
  BY <1>0 DEF Logs, Logged, Cuts
<1> QED BY <1>0, <1>1, <1>2, <1>3 DEF Typed, TypeOK

(* Two logs of the same schedule agree wherever both have an entry.         *)
LEMMA InvMatch == IInv => CollectivesMatch
<1> SUFFICES ASSUME IInv, NEW p \in NonLast, NEW k \in DOMAIN posted[p] \cap DOMAIN sent
             PROVE  posted[p][k] = sent[k]
  BY DEF CollectivesMatch
<1>1. /\ Typed /\ Cuts(sched, opEnd)
      /\ Logged(posted[p], step[p], sched, opEnd)
      /\ Logged(sent, step[Last], sched, opEnd)
  BY DEF IInv, Logs
<1>2. /\ posted[p] \in Seq(Shape) /\ Len(posted[p]) = opEnd[step[p] + 1]
      /\ sent \in Seq(Shape) /\ Len(sent) = opEnd[step[Last] + 1]
  BY <1>1 DEF Logged
<1>3. k \in 1..opEnd[step[p] + 1] /\ k \in 1..opEnd[step[Last] + 1]
  BY <1>2, LenProperties
<1>4. Len(sched) \in Nat /\ step[p] \in 0..Len(sched) /\ step[Last] \in 0..Len(sched)
  BY <1>1, RankFacts, LenProperties DEF Typed
<1>5. PICK m \in 0..Len(sched) : m <= step[p] /\ m <= step[Last] /\ k \in 1..opEnd[m + 1]
  BY <1>3, <1>4
<1>c. /\ \A t \in 1..Len(sched) : opEnd[t + 1] = opEnd[t] + Len(Sends(sched[t].rows))
      /\ \A t \in 0..Len(sched) : \A i \in 1..opEnd[t + 1] :
           \E u \in 1..t : opEnd[u] < i /\ i <= opEnd[u + 1]
      /\ opEnd \in Seq(Nat) /\ Len(opEnd) = Len(sched) + 1
  BY <1>1 DEF Cuts
<1>6. PICK u \in 1..m : opEnd[u] < k /\ k <= opEnd[u + 1]
  BY <1>5, <1>c
<1>7. /\ u \in 1..Len(sched) /\ u \in 1..step[p] /\ u \in 1..step[Last]
      /\ u \in 1..Len(opEnd)
  <2>1. u \in Nat /\ u >= 1 /\ u <= m /\ m \in Nat /\ m <= Len(sched)
    BY <1>4, <1>5, <1>6
  <2>2. Len(opEnd) = Len(sched) + 1 /\ m <= step[p] /\ m <= step[Last]
    BY <1>c, <1>5
  <2> QED BY <2>1, <2>2, <1>4
<1>8. opEnd[u] \in Nat
  BY <1>7, <1>c, ElementOfSeq
<1>9. opEnd[u + 1] = opEnd[u] + Len(Sends(sched[u].rows))
  BY <1>7, <1>c
<1>10. Len(Sends(sched[u].rows)) \in Nat
  BY <1>1, <1>7, StepType, SendsType
<1>11. k - opEnd[u] \in 1..Len(Sends(sched[u].rows)) /\ opEnd[u] + (k - opEnd[u]) = k
  BY <1>3, <1>6, <1>8, <1>9, <1>10
<1> DEFINE i == k - opEnd[u]
<1>12. posted[p][opEnd[u] + i] = Sends(sched[u].rows)[i]
  BY <1>1, <1>7, <1>11 DEF Logged
<1>13. sent[opEnd[u] + i] = Sends(sched[u].rows)[i]
  BY <1>1, <1>7, <1>11 DEF Logged
<1> QED BY <1>11, <1>12, <1>13

(* Type correctness holds in every reachable state; in particular a relay   *)
(* entry waits in the FIFO for exactly PPSize steps.                        *)
THEOREM TypeCorrect == Spec => []TypeOK
<1>1. Spec => []IInv
  BY InitInv, NextInv, PTL DEF Spec
<1> QED BY <1>1, InvTypeOK, PTL

(* Whatever the number of stages, slots and drafts, and however the ranks   *)
(* run ahead of each other, the collectives on the broadcast communicator   *)
(* are posted in the same order and with the same sizes by every rank.      *)
THEOREM CollectivesAgree == Spec => []CollectivesMatch
<1>1. Spec => []IInv
  BY InitInv, NextInv, PTL DEF Spec
<1> QED BY <1>1, InvMatch, PTL
=============================================================================
