-------------------------- MODULE SpecDrafter_proofs --------------------------
(***************************************************************************)
(* Theorems about SpecDrafter, for every launch: any number of requests    *)
(* and drafts, any length limit, any size of the buffers.                  *)
(*                                                                         *)
(* The argument.  The places of a batch are cut into the spans of its      *)
(* rows, one behind the other (Spread).  What a kernel finds at a place is *)
(* what the kernel before it wrote there for the same row (RowOK, one part *)
(* for each phase of propose), and never what an earlier step left: that   *)
(* stays behind the true length of a row or behind the last row.  Entries  *)
(* of drafts go to positions from computed on, and the next prefill        *)
(* replaces all of them that a later draft attends to.                     *)
(***************************************************************************)
EXTENDS SpecDrafter, SequenceTheorems, WellFoundedInduction, TLAPS

(* The cache of a request holds its first m tokens.                         *)
KvUpTo(s, m) == \A p \in 0..(m - 1) : kv[s][p] = Exact(s, p)

(* The drafts in d, as far as they are behind position p and in range.      *)
Continues(d, s, p, k) == \A j \in 0..(k - 1) : p + j <= MaxModelLen - 1 => d[j] = D(s, p, j)

IdleOK(s) ==
  /\ KvUpTo(s, computed[s])
  /\ computed[s] > 0 => Continues(proposed[s], s, computed[s] - 1, K)

Legal(row) ==
  /\ row.s \in Slots /\ row.c \in Nat /\ row.n \in Nat \ {0} /\ row.keep \in 1..row.n
  /\ Rejected(row) = row.n - row.keep
  /\ row.c + row.n <= MaxModelLen - 1

(* The rows of a step, and that they fit the buffers.                       *)
BatchOK ==
  /\ batch \in Seq({batch[i] : i \in DOMAIN batch}) /\ Len(batch) <= MaxReqs
  /\ \A i \in DOMAIN batch : Legal(batch[i]) /\ computed[batch[i].s] = batch[i].c + batch[i].keep
  /\ \A i, j \in DOMAIN batch : i # j => batch[i].s # batch[j].s
  /\ TokenCount(batch) <= MaxTokens

InBatch(s) == \E i \in DOMAIN batch : batch[i].s = s

(* The position a row's drafts go on from: that of its last true token.     *)
Base(i) == batch[i].c + batch[i].keep - 1

Capped(x, limit) == IF x <= limit THEN x ELSE limit

(* A row in front of the drafter's prefill ...                              *)
ReadyToPrepare(i) ==
  /\ KvUpTo(batch[i].s, batch[i].c)
  /\ NextToken(batch[i]) = T(batch[i].s, Base(i) + 1)

(* ... with its inputs written ...                                          *)
ReadyToPrefill(i) ==
  /\ KvUpTo(batch[i].s, batch[i].c)
  /\ \A j \in 0..(batch[i].keep - 1) :
       /\ ids[Start(i) + j] = T(batch[i].s, batch[i].c + j + 1)
       /\ hid[Start(i) + j] = H(batch[i].s, batch[i].c + j)
       /\ pos[Start(i) + j] = batch[i].c + j
  /\ lastIdx[i] = Start(i) + batch[i].keep - 1

(* ... with draft 0 ...                                                     *)
ReadyToDecode(i) ==
  /\ KvUpTo(batch[i].s, computed[batch[i].s])
  /\ Continues(drafts[i], batch[i].s, Base(i), 1)
  /\ hid[i] = G(batch[i].s, Base(i), 0) /\ pos[i] = Base(i)

(* ... with `step` drafts, and the inputs of the next one ...               *)
ReadyToDraft(i) ==
  /\ KvUpTo(batch[i].s, computed[batch[i].s])
  /\ Continues(drafts[i], batch[i].s, Base(i), step)
  /\ pos[i] = Capped(Base(i) + step, MaxModelLen - 1)
  /\ seq[i] = Capped(Base(i) + step + 1, MaxModelLen)
  /\ Fused => meta[i] = <<pos[i], seq[i]>>
  /\ Base(i) + step <= MaxModelLen - 1 =>
       /\ ids[i] = D(batch[i].s, Base(i), step - 1) /\ hid[i] = G(batch[i].s, Base(i), step - 1)
       /\ \A j \in 1..(step - 1) :
            kv[batch[i].s][Base(i) + j] = Provisional(batch[i].s, Base(i), j)

(* ... with all of them.                                                    *)
ReadyToStore(i) ==
  /\ KvUpTo(batch[i].s, computed[batch[i].s])
  /\ Continues(drafts[i], batch[i].s, Base(i), K)

RowOK(i) ==
  /\ phase = "prepare" => ReadyToPrepare(i)
  /\ phase = "prefill" => ReadyToPrefill(i)
  /\ phase = "decode" => K > 1 /\ ReadyToDecode(i)
  /\ phase = "draft" => step \in 1..(K - 1) /\ ReadyToDraft(i)
  /\ phase = "store" => ReadyToStore(i)

IInv ==
  /\ TypeOK
  /\ phase # "target" => BatchOK /\ \A i \in DOMAIN batch : RowOK(i)
  /\ \A s \in Slots : phase = "target" \/ ~InBatch(s) => IdleOK(s)

-----------------------------------------------------------------------------
(* Induction, and sums.                                                     *)

LEMMA NatMin ==
  ASSUME NEW S, S \subseteq Nat, S # {}
  PROVE  \E x \in S : \A y \in S : x <= y
<1> DEFINE R == {ss \in Nat \X Nat : ss[1] < ss[2]}
<1>1. IsWellFoundedOn(R, Nat)
  BY NatLessThanWellFounded DEF OpToRel
<1>2. \A y, x \in Nat : y < x => <<y, x>> \in R
  OBVIOUS
<1> HIDE DEF R
<1>3. PICK x \in S : \A y \in S : ~(<<y, x>> \in R)
  BY <1>1, WFMin
<1>4. \A y \in S : x <= y
  <2> SUFFICES ASSUME NEW y \in S, y < x PROVE FALSE
    OBVIOUS
  <2>1. QED
    BY <1>2, <1>3
<1>5. QED
  BY <1>4

LEMMA Induct ==
  ASSUME NEW S, 0 \in S, \A n \in Nat : n \in S => n + 1 \in S
  PROVE  Nat \subseteq S
<1> SUFFICES ASSUME Nat \ S # {} PROVE FALSE
  OBVIOUS
<1>1. PICK m \in Nat \ S : \A y \in Nat \ S : m <= y
  BY NatMin
<1>2. QED
  BY <1>1

(* f adds up g from a to m, starting with b.                                *)
IsSum(f, a, b, g, m) == f = [j \in a..m |-> IF j = a THEN b ELSE f[j - 1] + g[j]]

LEMMA SumExists ==
  ASSUME NEW a \in Nat, NEW b, NEW g, NEW m \in Nat
  PROVE  \E f : IsSum(f, a, b, g, m)
<1> DEFINE S == {n \in Nat : \E f : IsSum(f, a, b, g, n)}
<1>1. 0 \in S
  <2> DEFINE f == [j \in a..0 |-> b]
  <2>1. IsSum(f, a, b, g, 0)
    BY DEF IsSum
  <2>2. QED
    BY <2>1
<1>2. ASSUME NEW n \in Nat, n \in S PROVE n + 1 \in S
  <2>1. PICK f : IsSum(f, a, b, g, n)
    BY <1>2
  <2> DEFINE h == [j \in a..(n + 1) |-> IF j = a THEN b ELSE f[j - 1] + g[j]]
  <2>2. \A j \in a..n : h[j] = f[j]
    BY <2>1 DEF IsSum
  <2>3. \A j \in a..(n + 1) : j # a => j - 1 \in a..n
    OBVIOUS
  <2>4. h = [j \in a..(n + 1) |-> IF j = a THEN b ELSE h[j - 1] + g[j]]
    BY <2>2, <2>3
  <2> HIDE DEF h
  <2>5. IsSum(h, a, b, g, n + 1)
    BY <2>4 DEF IsSum
  <2>6. QED
    BY <2>5
<1> HIDE DEF S
<1>3. m \in S
  BY <1>1, <1>2, Induct
<1>4. QED
  BY <1>3 DEF S

LEMMA SumUnique ==
  ASSUME NEW a \in Nat, NEW b, NEW g, NEW m \in Nat, NEW n \in Nat, NEW f, NEW h,
         IsSum(f, a, b, g, m), IsSum(h, a, b, g, n),
         NEW j \in a..m, j <= n
  PROVE  f[j] = h[j]
<1> DEFINE S == {i \in a..m : i <= n /\ f[i] # h[i]}
<1> SUFFICES ASSUME S # {} PROVE FALSE
  OBVIOUS
<1>1. PICK i \in S : \A k \in S : i <= k
  <2>1. S \subseteq Nat
    OBVIOUS
  <2> HIDE DEF S
  <2>2. QED
    BY <2>1, NatMin
<1>2. i # a
  BY DEF IsSum
<1>3. i - 1 \in a..m /\ i - 1 <= n
  BY <1>2
<1>4. f[i - 1] = h[i - 1]
  BY <1>1, <1>3
<1>5. f[i] = f[i - 1] + g[i] /\ h[i] = h[i - 1] + g[i]
  BY <1>2 DEF IsSum
<1>6. QED
  BY <1>4, <1>5

LEMMA SumGrows ==
  ASSUME NEW a \in Nat, NEW b \in Nat, NEW g, NEW m \in Nat, NEW f, IsSum(f, a, b, g, m),
         \A j \in (a + 1)..m : g[j] \in Nat
  PROVE  /\ \A j \in a..m : f[j] \in Nat
         /\ \A j, k \in a..m : j <= k => f[j] <= f[k]
<1>1. \A j \in a..m : j # a => j - 1 \in a..m /\ j \in (a + 1)..m /\ f[j] = f[j - 1] + g[j]
  BY DEF IsSum
<1>2. \A j \in a..m : f[j] \in Nat
  <2> DEFINE S == {i \in a..m : f[i] \notin Nat}
  <2> SUFFICES ASSUME S # {} PROVE FALSE
    OBVIOUS
  <2>1. PICK i \in S : \A k \in S : i <= k
    <3>1. S \subseteq Nat
      OBVIOUS
    <3> HIDE DEF S
    <3>2. QED
      BY <3>1, NatMin
  <2>2. i # a
    BY DEF IsSum
  <2>3. i - 1 \in a..m /\ f[i - 1] \in Nat
    BY <1>1, <2>1, <2>2
  <2>4. QED
    BY <1>1, <2>2, <2>3
<1>3. ASSUME NEW j \in a..m, NEW k \in a..m, j <= k PROVE f[j] <= f[k]
  <2> DEFINE S == {i \in j..m : f[i] < f[j]}
  <2>1. S = {}
    <3> SUFFICES ASSUME S # {} PROVE FALSE
      OBVIOUS
    <3>1. PICK i \in S : \A l \in S : i <= l
      <4>1. S \subseteq Nat
        OBVIOUS
      <4> HIDE DEF S
      <4>2. QED
        BY <4>1, NatMin
    <3>2. i \in a..m /\ i # j
      BY <1>2
    <3>3. i - 1 \in j..m /\ i # a
      BY <3>2
    <3>4. f[i - 1] >= f[j]
      <4>1. i - 1 \in a..m /\ i - 1 \notin S
        BY <3>1, <3>3
      <4>2. QED
        BY <1>2, <3>3, <4>1
    <3>5. f[i] = f[i - 1] + g[i] /\ g[i] \in Nat /\ i - 1 \in a..m
      BY <1>1, <3>2, <3>3
    <3>6. QED
      BY <1>2, <3>2, <3>4, <3>5
  <2>2. QED
    BY <1>2, <1>3, <2>1
<1>4. QED
  BY <1>2, <1>3

-----------------------------------------------------------------------------
(* The spans of the rows.                                                   *)

LEMMA StartIs ==
  ASSUME NEW m \in Nat, NEW g, g = [j \in 1..m |-> batch[j - 1].n], NEW F, IsSum(F, 1, 1, g, m),
         NEW i \in 1..m
  PROVE  Start(i) = F[i]
<1> DEFINE f == CHOOSE f : f = [j \in 1..i |-> IF j = 1 THEN 1 ELSE f[j - 1] + batch[j - 1].n]
<1>1. Start(i) = f[i]
  BY DEF Start
<1>2. \A h : IsSum(h, 1, 1, g, i)
         <=> h = [j \in 1..i |-> IF j = 1 THEN 1 ELSE h[j - 1] + batch[j - 1].n]
  <2> HIDE DEF f
  <2>1. \A j \in 1..i : g[j] = batch[j - 1].n
    OBVIOUS
  <2>2. TAKE h
  <2>3. [j \in 1..i |-> IF j = 1 THEN 1 ELSE h[j - 1] + g[j]]
          = [j \in 1..i |-> IF j = 1 THEN 1 ELSE h[j - 1] + batch[j - 1].n]
    BY <2>1
  <2>4. QED
    BY <2>3 DEF IsSum
<1>3. \E h : IsSum(h, 1, 1, g, i)
  <2>1. 1 \in Nat /\ i \in Nat
    OBVIOUS
  <2>2. QED
    BY ONLY <2>1, SumExists
<1>4. IsSum(f, 1, 1, g, i)
  BY <1>2, <1>3
<1> HIDE DEF f
<1>5. f[i] = F[i]
  <2>1. /\ 1 \in Nat /\ i \in Nat /\ m \in Nat /\ IsSum(f, 1, 1, g, i) /\ IsSum(F, 1, 1, g, m)
        /\ i \in 1..i /\ i <= m
    BY <1>4
  <2>2. QED
    BY ONLY <2>1, SumUnique
<1>6. QED
  BY <1>1, <1>5

LEMMA CountIs ==
  ASSUME NEW rows, Len(rows) \in Nat, NEW g, g = [j \in 1..Len(rows) |-> rows[j].n],
         NEW F, IsSum(F, 0, 0, g, Len(rows))
  PROVE  TokenCount(rows) = F[Len(rows)]
<1> DEFINE m == Len(rows)
           f == CHOOSE f : f = [j \in 0..m |-> IF j = 0 THEN 0 ELSE f[j - 1] + rows[j].n]
<1>1. TokenCount(rows) = f[m]
  BY DEF TokenCount
<1>2. \A h : IsSum(h, 0, 0, g, m)
         <=> h = [j \in 0..m |-> IF j = 0 THEN 0 ELSE h[j - 1] + rows[j].n]
  <2>1. \A j \in 1..m : g[j] = rows[j].n
    OBVIOUS
  <2>2. \A j \in 0..m : j # 0 => j \in 1..m
    OBVIOUS
  <2>3. QED
    BY <2>1, <2>2 DEF IsSum
<1>3. IsSum(f, 0, 0, g, m)
  BY <1>2
<1> HIDE DEF f
<1>4. f[m] = F[m]
  <2>1. /\ 0 \in Nat /\ m \in Nat /\ IsSum(f, 0, 0, g, m) /\ IsSum(F, 0, 0, g, m)
        /\ m \in 0..m /\ m <= m
    BY <1>3
  <2> HIDE DEF m
  <2>2. QED
    BY ONLY <2>1, SumUnique
<1>5. QED
  BY <1>1, <1>4

LEMMA LaunchTyped ==
  ASSUME launch \in Launches
  PROVE  /\ MaxReqs \in Nat \ {0} /\ K \in Nat \ {0}
         /\ MaxModelLen \in Nat /\ MaxModelLen >= 2
         /\ MaxTokens \in Nat /\ MaxTokens >= MaxReqs
         /\ Fused \in BOOLEAN
<1>1. MaxReqs \in Nat \ {0} /\ K \in Nat \ {0} /\ MaxTokens \in Nat /\ MaxTokens >= MaxReqs
  BY DrafterAssumption DEF MaxReqs, K, MaxTokens
<1>2. MaxModelLen \in Nat \ {0, 1}
  BY DrafterAssumption DEF MaxModelLen
<1>3. MaxModelLen \in Nat /\ MaxModelLen >= 2
  BY <1>2
<1>4. Fused \in BOOLEAN
  BY DrafterAssumption, Zenon DEF Fused
<1>5. QED
  BY <1>1, <1>3, <1>4

LEMMA BatchRows ==
  ASSUME launch \in Launches, BatchOK
  PROVE  /\ Len(batch) \in Nat /\ DOMAIN batch = 1..Len(batch)
         /\ Len(batch) <= MaxReqs /\ Len(batch) <= MaxTokens
         /\ DOMAIN batch \subseteq Rows /\ DOMAIN batch \subseteq Places
         /\ DOMAIN batch \subseteq Nat
<1>1. Len(batch) \in Nat /\ DOMAIN batch = 1..Len(batch)
  BY LenProperties DEF BatchOK
<1>2. Len(batch) <= MaxReqs
  BY DEF BatchOK
<1>3. MaxReqs \in Nat /\ MaxTokens \in Nat /\ MaxTokens >= MaxReqs
  BY LaunchTyped
<1>4. QED
  BY <1>1, <1>2, <1>3 DEF Rows, Places

(* One row of a batch.                                                      *)
LEMMA RowFacts ==
  ASSUME launch \in Launches, BatchOK, NEW i \in DOMAIN batch
  PROVE  /\ batch[i].s \in Slots /\ batch[i].c \in Nat
         /\ batch[i].n \in Nat \ {0} /\ batch[i].keep \in Nat \ {0} /\ batch[i].keep <= batch[i].n
         /\ batch[i].c + batch[i].n <= MaxModelLen - 1
         /\ TrueLen(i) = batch[i].keep
         /\ SeqLen(batch[i]) = Base(i) + 1
         /\ Base(i) \in Nat /\ Base(i) <= MaxModelLen - 2
         /\ computed[batch[i].s] = Base(i) + 1
         /\ \A j \in DOMAIN batch : batch[j].s = batch[i].s => j = i
<1>1. Legal(batch[i]) /\ computed[batch[i].s] = batch[i].c + batch[i].keep
      /\ \A j \in DOMAIN batch : i # j => batch[i].s # batch[j].s
  BY DEF BatchOK
<1>2. MaxModelLen \in Nat
  BY LaunchTyped
<1>3. /\ batch[i].s \in Slots /\ batch[i].c \in Nat
      /\ batch[i].n \in Nat \ {0} /\ batch[i].keep \in Nat \ {0} /\ batch[i].keep <= batch[i].n
      /\ batch[i].c + batch[i].n <= MaxModelLen - 1
      /\ Rejected(batch[i]) = batch[i].n - batch[i].keep
  BY <1>1 DEF Legal
<1>4. TrueLen(i) = batch[i].keep
  BY <1>3 DEF TrueLen
<1>5. SeqLen(batch[i]) = Base(i) + 1
  BY <1>3 DEF SeqLen, Base
<1>6. Base(i) \in Nat /\ Base(i) <= MaxModelLen - 2 /\ computed[batch[i].s] = Base(i) + 1
  BY <1>1, <1>2, <1>3 DEF Base
<1>7. QED
  BY <1>1, <1>3, <1>4, <1>5, <1>6

(* The spans lie one behind the other, and all of them within the buffers.  *)
LEMMA Spread ==
  ASSUME launch \in Launches, BatchOK
  PROVE  /\ \A i \in DOMAIN batch :
              /\ Start(i) \in Nat \ {0}
              /\ Start(i) + batch[i].n - 1 <= MaxTokens
         /\ \A i, k \in DOMAIN batch : i < k => Start(i) + batch[i].n <= Start(k)
<1> DEFINE m == Len(batch)
           g == [j \in 1..m |-> batch[j - 1].n]
           h == [j \in 1..m |-> batch[j].n]
<1>1. m \in Nat /\ DOMAIN batch = 1..m /\ MaxTokens \in Nat
  BY BatchRows, LaunchTyped
<1>2. \A i \in 1..m : batch[i].n \in Nat \ {0}
  BY <1>1, RowFacts
<1>3. TokenCount(batch) <= MaxTokens
  BY DEF BatchOK
<1>4. PICK F : IsSum(F, 1, 1, g, m)
  <2>1. 1 \in Nat /\ m \in Nat
    BY <1>1
  <2>2. QED
    BY ONLY <2>1, SumExists
<1>5. PICK Q : IsSum(Q, 0, 0, h, m)
  <2>1. 0 \in Nat /\ m \in Nat
    BY <1>1
  <2>2. QED
    BY ONLY <2>1, SumExists
<1>6. TokenCount(batch) = Q[m]
  <2>1. m \in Nat /\ IsSum(Q, 0, 0, h, m)
    BY <1>1, <1>5
  <2>2. QED
    BY <2>1, CountIs
<1>7. \A i \in 1..m : Start(i) = F[i]
  <2>1. m \in Nat /\ IsSum(F, 1, 1, g, m)
    BY <1>1, <1>4
  <2>2. QED
    BY <2>1, StartIs
<1>8. \A i \in 1..m : h[i] = batch[i].n /\ g[i] = batch[i - 1].n
  OBVIOUS
<1> HIDE DEF m, g, h
<1>9. /\ \A i \in 1..m : F[i] \in Nat
      /\ \A i, k \in 1..m : i <= k => F[i] <= F[k]
  <2>1. \A j \in (1 + 1)..m : g[j] \in Nat
    BY <1>1, <1>2, <1>8
  <2>2. 1 \in Nat /\ m \in Nat /\ IsSum(F, 1, 1, g, m)
    BY <1>1, <1>4
  <2>3. \A i \in 1..m : F[i] \in Nat
    BY ONLY <2>1, <2>2, SumGrows
  <2>4. \A i, k \in 1..m : i <= k => F[i] <= F[k]
    BY ONLY <2>1, <2>2, SumGrows
  <2>5. QED
    BY <2>3, <2>4
<1>10. /\ \A i \in 0..m : Q[i] \in Nat
       /\ \A i, k \in 0..m : i <= k => Q[i] <= Q[k]
  <2>1. \A j \in (0 + 1)..m : h[j] \in Nat
    BY <1>1, <1>2, <1>8
  <2>2. 0 \in Nat /\ m \in Nat /\ IsSum(Q, 0, 0, h, m)
    BY <1>1, <1>5
  <2>3. \A i \in 0..m : Q[i] \in Nat
    BY ONLY <2>1, <2>2, SumGrows
  <2>4. \A i, k \in 0..m : i <= k => Q[i] <= Q[k]
    BY ONLY <2>1, <2>2, SumGrows
  <2>5. QED
    BY <2>3, <2>4
<1>11. \A i \in 1..m : IF i = 1 THEN F[i] = 1 ELSE F[i] = F[i - 1] + batch[i - 1].n
  BY <1>4, <1>8 DEF IsSum
<1>12. Q[0] = 0 /\ \A i \in 1..m : Q[i] = Q[i - 1] + batch[i].n
  <2>1. 0 \in 0..m
    BY <1>1
  <2>2. \A i \in 1..m : i \in 0..m /\ i # 0
    BY <1>1
  <2>3. QED
    BY <1>5, <1>8, <2>1, <2>2 DEF IsSum
<1>13. \A i \in 1..m : Q[i] = F[i] + batch[i].n - 1
  <2> DEFINE S == {i \in 1..m : Q[i] # F[i] + batch[i].n - 1}
  <2> SUFFICES ASSUME S # {} PROVE FALSE
    OBVIOUS
  <2>1. PICK i \in S : \A k \in S : i <= k
    <3>1. S \subseteq Nat
      OBVIOUS
    <3> HIDE DEF S
    <3>2. QED
      BY <3>1, NatMin
  <2>2. i # 1
    <3>1. SUFFICES ASSUME i = 1 PROVE FALSE
      OBVIOUS
    <3>2. 1 \in 1..m
      BY <3>1
    <3>3. F[1] = 1 /\ Q[1] = Q[0] + batch[1].n /\ Q[0] = 0 /\ batch[1].n \in Nat
      BY <1>2, <1>11, <1>12, <3>2
    <3>4. QED
      BY <3>1, <3>3
  <2>3. i - 1 \in 1..m /\ i - 1 \notin S
    BY <1>1, <2>1, <2>2
  <2>4. Q[i - 1] = F[i - 1] + batch[i - 1].n - 1
    BY <2>3
  <2>5. F[i] = F[i - 1] + batch[i - 1].n /\ Q[i] = Q[i - 1] + batch[i].n
    BY <1>11, <1>12, <2>2
  <2>6. F[i - 1] \in Nat /\ batch[i - 1].n \in Nat /\ batch[i].n \in Nat
    BY <1>2, <1>9, <2>3
  <2>7. QED
    BY <2>4, <2>5, <2>6
<1>14. ASSUME NEW i \in 1..m
       PROVE  F[i] \in Nat \ {0} /\ F[i] + batch[i].n - 1 <= MaxTokens
  <2>1. 1 \in 1..m /\ F[1] = 1 /\ F[1] <= F[i]
    BY <1>1, <1>9, <1>11
  <2>2. Q[i] <= Q[m] /\ Q[i] \in Nat /\ Q[m] \in Nat
    BY <1>1, <1>10
  <2>3. QED
    BY <1>1, <1>3, <1>6, <1>9, <1>13, <2>1, <2>2
<1>15. ASSUME NEW i \in 1..m, NEW k \in 1..m, i < k
       PROVE  F[i] + batch[i].n <= F[k]
  <2>1. i + 1 \in 1..m /\ i + 1 # 1 /\ (i + 1) - 1 = i /\ i + 1 <= k
    BY <1>1, <1>15
  <2>2. F[i + 1] = F[i] + batch[i].n
    BY <1>11, <2>1
  <2>3. QED
    BY <1>9, <2>1, <2>2
<1>16. QED
  BY <1>1, <1>7, <1>14, <1>15

(* A place of a span belongs to its row alone.                              *)
LEMMA Placed ==
  ASSUME launch \in Launches, BatchOK, NEW i \in DOMAIN batch, NEW len \in Nat,
         len <= batch[i].n, NEW x \in Int, Spans(i, len, x)
  PROVE  /\ x \in Places /\ Spans(i, batch[i].n, x)
         /\ \A k \in DOMAIN batch : Spans(k, batch[k].n, x) => k = i
         /\ RowAt(x) = i /\ Local(x) = x - Start(i) /\ Local(x) \in 0..(len - 1)
<1>1. batch[i].n \in Nat /\ Start(i) \in Nat \ {0} /\ Start(i) + batch[i].n - 1 <= MaxTokens
      /\ MaxTokens \in Nat
  BY RowFacts, Spread, LaunchTyped
<1>2. x \in Places /\ Spans(i, batch[i].n, x)
  BY <1>1 DEF Places, Spans
<1>3. ASSUME NEW k \in DOMAIN batch, Spans(k, batch[k].n, x) PROVE k = i
  <2>1. k \in Nat /\ i \in Nat /\ Start(k) \in Nat /\ batch[k].n \in Nat
    BY BatchRows, Spread, RowFacts
  <2>2. /\ k < i => Start(k) + batch[k].n <= Start(i)
        /\ i < k => Start(i) + batch[i].n <= Start(k)
    BY Spread
  <2>3. QED
    BY <1>1, <1>2, <1>3, <2>1, <2>2 DEF Spans
<1>4. RowAt(x) = i
  BY <1>2, <1>3 DEF RowAt
<1>5. Local(x) = x - Start(i) /\ Local(x) \in 0..(len - 1)
  BY <1>1, <1>4 DEF Local, Spans
<1>6. QED
  BY <1>2, <1>3, <1>4, <1>5

(* Place j of row i.                                                        *)
LEMMA PlaceOf ==
  ASSUME launch \in Launches, BatchOK, NEW i \in DOMAIN batch, NEW len \in Nat,
         len <= batch[i].n, NEW j \in 0..(len - 1)
  PROVE  /\ Start(i) + j \in Places /\ Spans(i, len, Start(i) + j)
         /\ Spans(i, batch[i].n, Start(i) + j)
         /\ RowAt(Start(i) + j) = i /\ Local(Start(i) + j) = j
<1> DEFINE x == Start(i) + j
<1>1. Start(i) \in Nat
  BY Spread
<1>2. x \in Int /\ Spans(i, len, x)
  BY <1>1 DEF Spans
<1>3. /\ x \in Places /\ Spans(i, batch[i].n, x)
      /\ RowAt(x) = i /\ Local(x) = x - Start(i)
  <2> HIDE DEF x
  <2>1. QED
    BY <1>2, Placed
<1>4. QED
  BY <1>1, <1>2, <1>3

-----------------------------------------------------------------------------
(* The invariant, one action at a time.                                     *)

LEMMA Symbols ==
  ASSUME launch \in Launches, NEW s \in Slots, NEW p \in 0..MaxModelLen, NEW k \in 0..K
  PROVE  /\ Junk \in Symbol
         /\ T(s, p) \in Symbol /\ H(s, p) \in Symbol
         /\ D(s, p, k) \in Symbol /\ G(s, p, k) \in Symbol
<1>1. 0 \in 0..K
  BY LaunchTyped
<1>2. QED
  BY <1>1 DEF Symbol, Junk, T, H, D, G

LEMMA InitInv == Init => IInv
<1> SUFFICES ASSUME Init PROVE IInv
  OBVIOUS
<1>1. launch \in Launches
  BY DEF Init
<1>2. /\ MaxReqs \in Nat \ {0} /\ K \in Nat \ {0}
      /\ MaxModelLen \in Nat /\ MaxModelLen >= 2
      /\ MaxTokens \in Nat /\ MaxTokens >= MaxReqs
  BY <1>1, LaunchTyped
<1>3. 0 \in 0..(MaxModelLen - 1) /\ 0 \in Positions /\ 0 \in 0..MaxModelLen /\ 1 \in Places /\ 0 \in 0..K
  BY <1>2 DEF Positions, Places
<1>4. Junk \in Symbol /\ JunkEntry \in Symbol \X Symbol \X Positions
      /\ NoDrafts \in [0..(K - 1) -> Symbol]
  BY <1>3 DEF Symbol, JunkEntry, NoDrafts
<1>5. TypeOK
  <2>1. /\ plen \in [Slots -> 0..(MaxModelLen - 1)] /\ computed \in [Slots -> Positions]
        /\ last \in [Slots -> Symbol] /\ chunk \in [Slots -> Symbol]
        /\ proposed \in [Slots -> [0..(K - 1) -> Symbol]]
    BY <1>3, <1>4 DEF Init
  <2>2. /\ ids \in [Places -> Symbol] /\ pos \in [Places -> Positions]
        /\ hid \in [Places -> Symbol]
        /\ lastIdx \in [Rows -> Places] /\ seq \in [Rows -> 0..MaxModelLen]
    BY <1>3, <1>4 DEF Init
  <2>3. /\ meta \in [Rows -> Positions \X (0..MaxModelLen)]
        /\ drafts \in [Rows -> [0..(K - 1) -> Symbol]]
        /\ kv \in [Slots -> [Positions -> Symbol \X Symbol \X Positions]]
    BY <1>3, <1>4 DEF Init
  <2>4. QED
    BY <1>1, <1>3, <2>1, <2>2, <2>3 DEF Init, TypeOK
<1>6. \A s \in Slots : IdleOK(s)
  BY DEF Init, IdleOK, KvUpTo
<1>7. QED
  BY <1>5, <1>6 DEF Init, IInv

LEMMA AdmitInv ==
  ASSUME IInv, NEW s \in Slots, NEW len \in 1..(MaxModelLen - 1), Admit(s, len)
  PROVE  IInv'
<1>1. /\ UNCHANGED <<launch, computed, last, chunk, proposed, batch, step, phase, kv>>
      /\ UNCHANGED <<ids, pos, hid, lastIdx, seq, meta, drafts>>
      /\ phase = "target" /\ plen' = [plen EXCEPT ![s] = len]
  BY DEF Admit, buffers
<1>2. plen' \in [Slots -> 0..(MaxModelLen - 1)]
  BY <1>1 DEF IInv, TypeOK
<1>3. TypeOK'
  BY <1>1, <1>2 DEF IInv, TypeOK, Slots, Rows, Places, Positions, Symbol, MaxReqs, K, MaxModelLen,
                    MaxTokens
<1>4. ASSUME NEW t \in Slots PROVE IdleOK(t)'
  BY <1>1 DEF IInv, IdleOK, KvUpTo, Continues, MaxModelLen, K
<1>5. QED
  BY <1>1, <1>3, <1>4 DEF IInv, Slots, MaxReqs

LEMMA StoreInv ==
  ASSUME IInv, Store
  PROVE  IInv'
<1>1. /\ UNCHANGED <<launch, plen, computed, last, chunk, batch, step, kv>>
      /\ UNCHANGED <<ids, pos, hid, lastIdx, seq, meta, drafts>>
      /\ phase = "store" /\ phase' = "target"
  BY DEF Store, buffers
<1>2. proposed' = [s \in Slots |-> IF InBatch(s)
         THEN drafts[CHOOSE i \in DOMAIN batch : batch[i].s = s] ELSE proposed[s]]
  BY DEF Store, InBatch
<1>3. launch \in Launches /\ BatchOK /\ \A i \in DOMAIN batch : ReadyToStore(i)
  BY <1>1 DEF IInv, TypeOK, RowOK
<1>4. ASSUME NEW i \in DOMAIN batch PROVE proposed'[batch[i].s] = drafts[i]
  <2>1. batch[i].s \in Slots /\ InBatch(batch[i].s)
        /\ \A j \in DOMAIN batch : batch[j].s = batch[i].s => j = i
    BY <1>3, RowFacts DEF InBatch
  <2>2. (CHOOSE j \in DOMAIN batch : batch[j].s = batch[i].s) = i
    BY <2>1
  <2>3. QED
    BY <1>2, <2>1, <2>2
<1>5. TypeOK'
  <2>1. ASSUME NEW s \in Slots PROVE proposed'[s] \in [0..(K - 1) -> Symbol]
    <3>1. CASE InBatch(s)
      <4>1. PICK i \in DOMAIN batch : batch[i].s = s
        BY <3>1 DEF InBatch
      <4>2. i \in Rows
        BY <1>3, BatchRows
      <4>3. QED
        BY <1>4, <4>1, <4>2 DEF IInv, TypeOK
    <3>2. CASE ~InBatch(s)
      BY <1>2, <3>2 DEF IInv, TypeOK
    <3>3. QED
      BY <3>1, <3>2
  <2>2. proposed' \in [Slots -> [0..(K - 1) -> Symbol]]
    BY <1>2, <2>1
  <2>3. QED
    BY <1>1, <2>2 DEF IInv, TypeOK, Slots, Rows, Places, Positions, Symbol, MaxReqs, K,
                      MaxModelLen, MaxTokens
<1>6. ASSUME NEW s \in Slots PROVE IdleOK(s)'
  <2>1. CASE InBatch(s)
    <3>1. PICK i \in DOMAIN batch : batch[i].s = s
      BY <2>1 DEF InBatch
    <3>2. computed[s] = Base(i) + 1 /\ Base(i) \in Nat
      BY <1>3, <3>1, RowFacts
    <3>3. computed[s] - 1 = Base(i)
      BY <3>2
    <3>4. KvUpTo(s, computed[s]) /\ Continues(drafts[i], s, computed[s] - 1, K)
      BY <1>3, <3>1, <3>3 DEF ReadyToStore
    <3>5. proposed'[s] = drafts[i]
      BY <1>4, <3>1
    <3>6. QED
      BY <1>1, <3>4, <3>5 DEF IdleOK, KvUpTo, Continues, MaxModelLen, K
  <2>2. CASE ~InBatch(s)
    <3>1. IdleOK(s) /\ proposed'[s] = proposed[s]
      BY <1>2, <2>2 DEF IInv
    <3>2. QED
      BY <1>1, <3>1 DEF IdleOK, KvUpTo, Continues, MaxModelLen, K
  <2>3. QED
    BY <2>1, <2>2
<1>7. QED
  BY <1>1, <1>5, <1>6 DEF IInv, Slots, MaxReqs

(* What the scheduler offers is a legal row of its request.                 *)
LEMMA OfferedIsLegal ==
  ASSUME TypeOK, NEW s \in Slots, NEW row \in Offers(s), Offered(row)
  PROVE  /\ row.s = s /\ row.c = computed[s] /\ row.c \in Nat
         /\ row.n \in Nat \ {0} /\ row.keep \in 1..row.n /\ row.c + row.n <= MaxModelLen - 1
         /\ Rejected(row) = row.n - row.keep
         /\ row.sampled \in Nat
         /\ row.sampled = 0 => row.keep = row.n /\ row.c + row.n < plen[s]
<1>1. computed[s] \in Nat /\ plen[s] \in Nat /\ K \in Nat
  <2>1. launch \in Launches /\ computed[s] \in Positions /\ plen[s] \in 0..(MaxModelLen - 1)
    BY DEF TypeOK
  <2>2. QED
    BY <2>1, LaunchTyped DEF Positions
<1>2. row.c + row.n <= MaxModelLen - 1 /\ row.keep <= row.n
  BY DEF Offered
<1>3. CASE computed[s] < plen[s]
  <2>1. PICK n \in 1..(plen[s] - computed[s]) :
           row = [s |-> s, c |-> computed[s], n |-> n, d |-> 0, keep |-> n,
                  sampled |-> IF computed[s] + n >= plen[s] THEN 1 ELSE 0]
    BY <1>3 DEF Offers
  <2>2. /\ row.s = s /\ row.c = computed[s] /\ row.n = n /\ row.d = 0 /\ row.keep = n
        /\ row.sampled = IF computed[s] + n >= plen[s] THEN 1 ELSE 0
    BY <2>1
  <2>3. Rejected(row) = 0
    BY <2>2 DEF Rejected
  <2>4. QED
    BY <1>1, <1>2, <2>2, <2>3
<1>4. CASE ~(computed[s] < plen[s])
  <2>1. PICK d \in 0..K : \E k \in 1..(K + 1) :
           row = [s |-> s, c |-> computed[s], n |-> d + 1, d |-> d, keep |-> k, sampled |-> k]
    BY <1>4 DEF Offers
  <2>2. PICK k \in 1..(K + 1) :
           row = [s |-> s, c |-> computed[s], n |-> d + 1, d |-> d, keep |-> k, sampled |-> k]
    BY <2>1
  <2>3. /\ row.s = s /\ row.c = computed[s] /\ row.n = d + 1 /\ row.d = d /\ row.keep = k
        /\ row.sampled = k
    BY <2>2
  <2>4. Rejected(row) = d + 1 - k
    BY <2>3 DEF Rejected
  <2>5. QED
    BY <1>1, <1>2, <2>3, <2>4
<1>5. QED
  BY <1>3, <1>4

LEMMA TargetInv ==
  ASSUME IInv, phase = "target", NEW rows \in Batches, Target(rows)
  PROVE  IInv'
<1>1. /\ UNCHANGED <<launch, plen, proposed, step, kv>>
      /\ UNCHANGED <<ids, pos, hid, lastIdx, seq, meta, drafts>>
      /\ phase' = "prepare" /\ batch' = rows
  BY DEF Target, buffers
<1>2. TypeOK /\ launch \in Launches /\ \A s \in Slots : IdleOK(s)
  BY DEF IInv, TypeOK
<1>3. /\ MaxReqs \in Nat \ {0} /\ K \in Nat \ {0} /\ MaxModelLen \in Nat /\ MaxModelLen >= 2
  BY <1>2, LaunchTyped
<1>4. PICK m \in Rows : rows \in [1..m -> UNION {Offers(s) : s \in {x \in Slots : plen[x] # 0}}]
  BY DEF Batches
<1>5. /\ \A i \in DOMAIN rows : Offered(rows[i])
      /\ \A i, j \in DOMAIN rows : i # j => rows[i].s # rows[j].s
      /\ TokenCount(rows) <= MaxTokens
  BY DEF Batches
<1>6. /\ m \in Nat /\ DOMAIN rows = 1..m /\ Len(rows) = m /\ m <= MaxReqs
      /\ rows \in Seq({rows[i] : i \in DOMAIN rows})
  <2>1. m \in Nat /\ DOMAIN rows = 1..m /\ m <= MaxReqs
    BY <1>3, <1>4 DEF Rows
  <2>2. rows \in [1..m -> {rows[i] : i \in DOMAIN rows}]
    BY <1>4
  <2>3. rows \in Seq({rows[i] : i \in DOMAIN rows})
    BY <2>1, <2>2, SeqDef
  <2>4. Len(rows) = m
    BY <2>1, <2>3, LenProperties
  <2>5. QED
    BY <2>1, <2>3, <2>4
<1>7. ASSUME NEW i \in DOMAIN rows
      PROVE  /\ rows[i].s \in Slots /\ rows[i].c = computed[rows[i].s] /\ rows[i].c \in Nat
             /\ rows[i].n \in Nat \ {0} /\ rows[i].keep \in 1..rows[i].n
             /\ rows[i].c + rows[i].n <= MaxModelLen - 1
             /\ Rejected(rows[i]) = rows[i].n - rows[i].keep
             /\ rows[i].sampled \in Nat
             /\ rows[i].sampled = 0 =>
                  rows[i].keep = rows[i].n /\ rows[i].c + rows[i].n < plen[rows[i].s]
  <2>1. PICK s \in Slots : rows[i] \in Offers(s)
    BY <1>4
  <2>2. Offered(rows[i])
    BY <1>5
  <2> DEFINE row == rows[i]
  <2>3. TypeOK /\ s \in Slots /\ row \in Offers(s) /\ Offered(row)
    BY <1>2, <2>1, <2>2
  <2> HIDE DEF row
  <2>4. /\ row.s = s /\ row.c = computed[s] /\ row.c \in Nat
        /\ row.n \in Nat \ {0} /\ row.keep \in 1..row.n /\ row.c + row.n <= MaxModelLen - 1
        /\ Rejected(row) = row.n - row.keep
        /\ row.sampled \in Nat
        /\ row.sampled = 0 => row.keep = row.n /\ row.c + row.n < plen[s]
    BY ONLY <2>3, OfferedIsLegal
  <2>5. QED
    BY <2>3, <2>4 DEF row
<1> DEFINE In(s)  == \E i \in DOMAIN rows : rows[i].s = s
           Row(s) == rows[CHOOSE i \in DOMAIN rows : rows[i].s = s]
           End(s) == Row(s).c + Row(s).n
<1>8. /\ computed' = [s \in Slots |-> IF In(s) THEN End(s) - Rejected(Row(s)) ELSE computed[s]]
      /\ last' = [s \in Slots |-> IF In(s) /\ Row(s).sampled > 0
                                  THEN T(s, Row(s).c + Row(s).keep) ELSE last[s]]
      /\ chunk' = [s \in Slots |-> IF In(s) /\ End(s) < plen[s] THEN T(s, End(s)) ELSE chunk[s]]
  BY DEF Target
<1>9. ASSUME NEW i \in DOMAIN rows PROVE In(rows[i].s) /\ Row(rows[i].s) = rows[i]
  <2>1. \A j \in DOMAIN rows : rows[j].s = rows[i].s => j = i
    BY <1>5
  <2>2. (CHOOSE j \in DOMAIN rows : rows[j].s = rows[i].s) = i
    BY <2>1
  <2>3. QED
    BY <2>2
<1> HIDE DEF Row
(* What the target leaves for a row of the step.                            *)
<1>10. ASSUME NEW i \in DOMAIN rows
       PROVE  /\ computed'[rows[i].s] = rows[i].c + rows[i].keep
              /\ rows[i].sampled > 0 => last'[rows[i].s] = T(rows[i].s, rows[i].c + rows[i].keep)
              /\ rows[i].sampled = 0 => chunk'[rows[i].s] = T(rows[i].s, rows[i].c + rows[i].keep)
  <2>1. In(rows[i].s) /\ Row(rows[i].s) = rows[i] /\ rows[i].s \in Slots
    BY <1>7, <1>9
  <2>2. End(rows[i].s) = rows[i].c + rows[i].n
    BY <2>1
  <2>3. computed'[rows[i].s] = (rows[i].c + rows[i].n) - Rejected(rows[i])
    <3>1. PICK s \in Slots : s = rows[i].s
      BY <2>1
    <3>2. In(s) /\ Row(s) = rows[i]
      BY <2>1, <3>1
    <3>3. computed'[s] = End(s) - Rejected(Row(s))
      BY <1>8, <3>2
    <3>4. End(s) = rows[i].c + rows[i].n /\ Rejected(Row(s)) = Rejected(rows[i])
      BY <3>2
    <3>5. computed'[s] = (rows[i].c + rows[i].n) - Rejected(rows[i])
      BY ONLY <3>3, <3>4
    <3>6. QED
      BY <3>1, <3>5
  <2>4. rows[i].sampled > 0 => last'[rows[i].s] = T(rows[i].s, rows[i].c + rows[i].keep)
    BY <1>8, <2>1
  <2>5. rows[i].sampled = 0 => chunk'[rows[i].s] = T(rows[i].s, rows[i].c + rows[i].n)
    BY <1>7, <1>8, <2>1, <2>2
  <2>6. computed'[rows[i].s] = rows[i].c + rows[i].keep
    <3>1. /\ rows[i].c \in Nat /\ rows[i].n \in Nat /\ rows[i].keep \in Nat
          /\ Rejected(rows[i]) = rows[i].n - rows[i].keep
      BY <1>7
    <3>2. QED
      BY <2>3, <3>1
  <2>7. rows[i].sampled = 0 => rows[i].keep = rows[i].n
    BY <1>7
  <2>8. QED
    BY <2>4, <2>5, <2>6, <2>7
<1>11. ASSUME NEW s \in Slots, ~In(s)
       PROVE  computed'[s] = computed[s] /\ last'[s] = last[s] /\ chunk'[s] = chunk[s]
  BY <1>8, <1>11
<1>12. TypeOK'
  <2>1. ASSUME NEW s \in Slots
        PROVE  computed'[s] \in Positions /\ last'[s] \in Symbol /\ chunk'[s] \in Symbol
    <3>1. computed[s] \in Positions /\ last[s] \in Symbol /\ chunk[s] \in Symbol
      BY <1>2 DEF TypeOK
    <3>2. CASE ~In(s)
      BY <1>11, <3>1, <3>2
    <3>3. CASE In(s)
      <4>1. PICK i \in DOMAIN rows : rows[i].s = s
        BY <3>3
      <4>2. Row(s) = rows[i]
        BY <1>9, <4>1
      <4>3. /\ rows[i].c \in Nat /\ rows[i].n \in Nat /\ rows[i].keep \in Nat
            /\ rows[i].keep <= rows[i].n /\ rows[i].c + rows[i].n <= MaxModelLen - 1
        BY <1>7
      <4>4. computed'[s] = rows[i].c + rows[i].keep
        BY <1>10, <4>1
      <4>5. computed'[s] \in Positions
        BY <1>3, <4>3, <4>4 DEF Positions
      <4>6. rows[i].c + rows[i].keep \in 0..MaxModelLen /\ rows[i].c + rows[i].n \in 0..MaxModelLen
            /\ 0 \in 0..K
        BY <1>3, <4>3
      <4>7. T(s, rows[i].c + rows[i].keep) \in Symbol /\ T(s, rows[i].c + rows[i].n) \in Symbol
        BY <1>2, <4>6, Symbols
      <4>8. last'[s] \in Symbol /\ chunk'[s] \in Symbol
        BY <1>8, <3>1, <4>2, <4>7
      <4>9. QED
        BY <4>5, <4>8
    <3>4. QED
      BY <3>2, <3>3
  <2>2. computed' \in [Slots -> Positions] /\ last' \in [Slots -> Symbol]
        /\ chunk' \in [Slots -> Symbol]
    BY <1>8, <2>1
  <2>3. QED
    BY <1>1, <1>2, <2>2 DEF TypeOK, Slots, Rows, Places, Positions, Symbol, MaxReqs, K,
                            MaxModelLen, MaxTokens
<1>13. BatchOK'
  <2>1. ASSUME NEW i \in DOMAIN rows
        PROVE  Legal(rows[i])' /\ computed'[rows[i].s] = rows[i].c + rows[i].keep
    <3>1. Legal(rows[i])
      BY <1>7 DEF Legal
    <3>2. Legal(rows[i])'
      BY <1>1, <3>1 DEF Legal, Slots, MaxReqs, MaxModelLen
    <3>3. QED
      BY <1>10, <3>2
  <2>2. MaxReqs' = MaxReqs /\ MaxTokens' = MaxTokens
    BY <1>1 DEF MaxReqs, MaxTokens
  <2>3. (\A i \in DOMAIN batch : Legal(batch[i])
            /\ computed[batch[i].s] = batch[i].c + batch[i].keep)'
    BY <1>1, <2>1
  <2>4. (TokenCount(batch) <= MaxTokens)'
    BY <1>1, <1>5, <2>2 DEF TokenCount
  <2>5. QED
    BY <1>1, <1>5, <1>6, <2>2, <2>3, <2>4 DEF BatchOK
<1>14. ASSUME NEW i \in DOMAIN rows PROVE RowOK(i)'
  <2>1. PICK s \in Slots : s = rows[i].s
    BY <1>7
  <2>2. PICK c \in Nat : c = rows[i].c /\ c = computed[s]
    BY <1>7, <2>1
  <2>3. KvUpTo(s, c)
    BY <1>2, <2>2 DEF IdleOK
  <2>4. KvUpTo(s, c)'
    BY <1>1, <2>3 DEF KvUpTo
  <2>5. KvUpTo(batch[i].s, batch[i].c)'
    BY <1>1, <2>1, <2>2, <2>4 DEF KvUpTo
  <2>6. (NextToken(batch[i]) = T(batch[i].s, Base(i) + 1))'
    <3>1. rows[i].c + rows[i].keep = (rows[i].c + rows[i].keep - 1) + 1
      BY <1>7
    <3>2. rows[i].sampled \in Nat
      BY <1>7
    <3>3. NextToken(batch[i])' = T(rows[i].s, rows[i].c + rows[i].keep)
      BY <1>1, <1>10, <3>2 DEF NextToken
    <3>4. (Base(i) + 1)' = rows[i].c + rows[i].keep
      BY <1>1, <3>1 DEF Base
    <3>5. QED
      BY <1>1, <3>3, <3>4 DEF T
  <2>7. QED
    BY <1>1, <2>5, <2>6 DEF RowOK, ReadyToPrepare
<1>15. ASSUME NEW s \in Slots, ~InBatch(s)' PROVE IdleOK(s)'
  <2>1. ~In(s)
    BY <1>1, <1>15 DEF InBatch
  <2>2. computed'[s] = computed[s]
    BY <1>11, <2>1
  <2>3. IdleOK(s)
    BY <1>2
  <2>4. QED
    BY <1>1, <2>2, <2>3 DEF IdleOK, KvUpTo, Continues, MaxModelLen, K
<1>16. QED
  BY <1>1, <1>12, <1>13, <1>14, <1>15 DEF IInv, Slots, MaxReqs

LEMMA PreparePrefillInv ==
  ASSUME IInv, PreparePrefill
  PROVE  IInv'
<1>1. /\ UNCHANGED <<launch, plen, computed, last, chunk, proposed, batch, meta, drafts, kv>>
      /\ phase = "prepare" /\ phase' = "prefill" /\ step' = 0
  BY DEF PreparePrefill, reqVars
<1>2. TypeOK /\ launch \in Launches /\ BatchOK
      /\ \A i \in DOMAIN batch : ReadyToPrepare(i)
  BY <1>1 DEF IInv, TypeOK, RowOK
<1>3. /\ MaxReqs \in Nat \ {0} /\ K \in Nat \ {0} /\ MaxModelLen \in Nat /\ MaxModelLen >= 2
      /\ MaxTokens \in Nat /\ MaxTokens >= MaxReqs
  BY <1>2, LaunchTyped
<1> DEFINE True(x) == \E i \in DOMAIN batch : Spans(i, TrueLen(i), x)
           Used(x) == \E i \in DOMAIN batch : Spans(i, batch[i].n, x)
           rowAt(x) == batch[RowAt(x)]
<1>4. /\ ids' = [x \in Places |->
            IF ~True(x) THEN ids[x]
            ELSE IF Local(x) = TrueLen(RowAt(x)) - 1 THEN NextToken(rowAt(x))
            ELSE TargetId(rowAt(x), Local(x) + 1)]
      /\ pos' = [x \in Places |-> IF True(x) THEN rowAt(x).c + Local(x) ELSE pos[x]]
      /\ hid' = [x \in Places |-> IF Used(x) THEN TargetHidden(rowAt(x), Local(x)) ELSE hid[x]]
      /\ lastIdx' = [i \in Rows |-> IF i \in DOMAIN batch THEN Start(i) + TrueLen(i) - 1 ELSE 1]
      /\ seq' = [i \in Rows |-> IF i \in DOMAIN batch THEN batch[i].c + batch[i].n ELSE 0]
  BY DEF PreparePrefill
(* What the kernel writes at place j of the true tokens of row i.           *)
<1>5. ASSUME NEW i \in DOMAIN batch, NEW x \in Places, Spans(i, TrueLen(i), x)
      PROVE  /\ Local(x) \in 0..(batch[i].keep - 1)
             /\ ids'[x] = T(batch[i].s, batch[i].c + Local(x) + 1)
             /\ pos'[x] = batch[i].c + Local(x)
  <2>1. /\ batch[i].c \in Nat /\ batch[i].n \in Nat /\ batch[i].keep \in Nat \ {0}
        /\ batch[i].keep <= batch[i].n /\ TrueLen(i) = batch[i].keep
    BY <1>2, RowFacts
  <2>2. x \in Int
    BY <1>3 DEF Places
  <2>3. RowAt(x) = i /\ Local(x) \in 0..(batch[i].keep - 1)
    <3>1. /\ launch \in Launches /\ BatchOK /\ i \in DOMAIN batch /\ batch[i].keep \in Nat
          /\ batch[i].keep <= batch[i].n /\ x \in Int /\ Spans(i, batch[i].keep, x)
      BY <1>2, <1>5, <2>1, <2>2
    <3>2. QED
      BY ONLY <3>1, Placed
  <2>4. True(x)
    BY <1>5
  <2>5. NextToken(batch[i]) = T(batch[i].s, batch[i].c + batch[i].keep)
    <3>1. Base(i) + 1 = batch[i].c + batch[i].keep
      BY <2>1 DEF Base
    <3>2. QED
      BY <1>2, <3>1 DEF ReadyToPrepare
  <2>6. ids'[x] = IF Local(x) = batch[i].keep - 1 THEN NextToken(batch[i])
                  ELSE TargetId(batch[i], Local(x) + 1)
    BY <1>4, <2>1, <2>3, <2>4
  <2>7. ids'[x] = T(batch[i].s, batch[i].c + Local(x) + 1)
    <3>1. CASE Local(x) = batch[i].keep - 1
      <4>1. batch[i].c + Local(x) + 1 = batch[i].c + batch[i].keep
        BY <2>1, <3>1
      <4>2. QED
        BY <2>5, <2>6, <3>1, <4>1
    <3>2. CASE Local(x) # batch[i].keep - 1
      <4>1. Local(x) + 1 < batch[i].keep
            /\ batch[i].c + (Local(x) + 1) = batch[i].c + Local(x) + 1
        BY <2>1, <2>3, <3>2
      <4>2. QED
        BY <2>6, <3>2, <4>1 DEF TargetId
    <3>3. QED
      BY <3>1, <3>2
  <2>8. pos'[x] = batch[i].c + Local(x)
    BY <1>4, <2>3, <2>4
  <2>9. QED
    BY <2>3, <2>7, <2>8
<1>6. ASSUME NEW i \in DOMAIN batch, NEW x \in Places, Spans(i, batch[i].n, x)
      PROVE  /\ Local(x) \in 0..(batch[i].n - 1)
             /\ hid'[x] = IF Local(x) < batch[i].keep THEN H(batch[i].s, batch[i].c + Local(x))
                          ELSE Junk
  <2>1. batch[i].n \in Nat /\ batch[i].n <= batch[i].n
    BY <1>2, RowFacts
  <2>2. x \in Int
    BY <1>3 DEF Places
  <2>3. RowAt(x) = i /\ Local(x) \in 0..(batch[i].n - 1)
    <3>1. /\ launch \in Launches /\ BatchOK /\ i \in DOMAIN batch /\ batch[i].n \in Nat
          /\ batch[i].n <= batch[i].n /\ x \in Int /\ Spans(i, batch[i].n, x)
      BY <1>2, <1>6, <2>1, <2>2
    <3>2. QED
      BY ONLY <3>1, Placed
  <2>4. Used(x)
    BY <1>6
  <2>5. hid'[x] = TargetHidden(batch[i], Local(x))
    BY <1>4, <2>3, <2>4
  <2>6. QED
    BY <2>3, <2>5 DEF TargetHidden
<1>7. ASSUME NEW i \in DOMAIN batch
      PROVE  /\ lastIdx'[i] = Start(i) + (batch[i].keep - 1) /\ lastIdx'[i] \in Places
             /\ seq'[i] = batch[i].c + batch[i].n /\ seq'[i] \in 0..MaxModelLen
  <2>1. /\ batch[i].c \in Nat /\ batch[i].n \in Nat /\ batch[i].keep \in Nat \ {0}
        /\ batch[i].keep <= batch[i].n /\ TrueLen(i) = batch[i].keep
        /\ batch[i].c + batch[i].n <= MaxModelLen - 1
    BY <1>2, RowFacts
  <2>2. i \in Rows /\ Start(i) \in Nat
    BY <1>2, BatchRows, Spread
  <2>3. Start(i) + (batch[i].keep - 1) \in Places
    <3>1. PICK k \in Nat \ {0} : k = batch[i].keep
      BY <2>1
    <3>2. k \in Nat /\ k <= batch[i].n /\ k - 1 \in 0..(k - 1)
      BY <2>1, <3>1
    <3>3. Start(i) + (k - 1) \in Places
      BY <1>2, <3>2, PlaceOf
    <3>4. QED
      BY <3>1, <3>3
  <2>4. lastIdx'[i] = Start(i) + (batch[i].keep - 1)
    BY <1>4, <2>1, <2>2
  <2>5. seq'[i] = batch[i].c + batch[i].n /\ seq'[i] \in 0..MaxModelLen
    BY <1>3, <1>4, <2>1, <2>2
  <2>6. QED
    BY <2>3, <2>4, <2>5
<1> HIDE DEF rowAt
<1>8. TypeOK'
  <2>1. ASSUME NEW x \in Places
        PROVE  ids'[x] \in Symbol /\ pos'[x] \in Positions /\ hid'[x] \in Symbol
    <3>1. ids[x] \in Symbol /\ pos[x] \in Positions /\ hid[x] \in Symbol
      BY <1>2 DEF TypeOK
    <3>2. ids'[x] \in Symbol /\ pos'[x] \in Positions
      <4>1. CASE True(x)
        <5>1. PICK i \in DOMAIN batch : Spans(i, TrueLen(i), x)
          BY <4>1
        <5>2. /\ Local(x) \in 0..(batch[i].keep - 1)
              /\ ids'[x] = T(batch[i].s, batch[i].c + Local(x) + 1)
              /\ pos'[x] = batch[i].c + Local(x)
          BY <1>5, <5>1
        <5>3. /\ batch[i].c \in Nat /\ batch[i].n \in Nat /\ batch[i].keep \in Nat \ {0}
              /\ batch[i].keep <= batch[i].n /\ batch[i].s \in Slots
              /\ batch[i].c + batch[i].n <= MaxModelLen - 1
          BY <1>2, RowFacts
        <5>4. batch[i].c + Local(x) + 1 \in 0..MaxModelLen /\ 0 \in 0..K
              /\ batch[i].c + Local(x) \in Positions
          BY <1>3, <5>2, <5>3 DEF Positions
        <5>5. T(batch[i].s, batch[i].c + Local(x) + 1) \in Symbol
          BY <1>2, <5>3, <5>4, Symbols
        <5>6. QED
          BY <5>2, <5>4, <5>5
      <4>2. CASE ~True(x)
        BY <1>4, <3>1, <4>2
      <4>3. QED
        BY <4>1, <4>2
    <3>3. hid'[x] \in Symbol
      <4>1. CASE Used(x)
        <5>1. PICK i \in DOMAIN batch : Spans(i, batch[i].n, x)
          BY <4>1
        <5>2. /\ Local(x) \in 0..(batch[i].n - 1)
              /\ hid'[x] = IF Local(x) < batch[i].keep
                           THEN H(batch[i].s, batch[i].c + Local(x)) ELSE Junk
          BY <1>6, <5>1
        <5>3. /\ batch[i].c \in Nat /\ batch[i].n \in Nat /\ batch[i].s \in Slots
              /\ batch[i].c + batch[i].n <= MaxModelLen - 1
          BY <1>2, RowFacts
        <5>4. batch[i].c + Local(x) \in 0..MaxModelLen /\ 0 \in 0..K
          BY <1>3, <5>2, <5>3
        <5>5. H(batch[i].s, batch[i].c + Local(x)) \in Symbol /\ Junk \in Symbol
          BY <1>2, <5>3, <5>4, Symbols
        <5>6. QED
          BY <5>2, <5>5
      <4>2. CASE ~Used(x)
        BY <1>4, <3>1, <4>2
      <4>3. QED
        BY <4>1, <4>2
    <3>4. QED
      BY <3>2, <3>3
  <2>2. ids' \in [Places -> Symbol] /\ pos' \in [Places -> Positions] /\ hid' \in [Places -> Symbol]
    BY <1>4, <2>1
  <2>3. ASSUME NEW i \in Rows PROVE lastIdx'[i] \in Places /\ seq'[i] \in 0..MaxModelLen
    <3>1. 1 \in Places /\ 0 \in 0..MaxModelLen
      BY <1>3 DEF Places
    <3>2. QED
      BY <1>4, <1>7, <3>1
  <2>4. lastIdx' \in [Rows -> Places] /\ seq' \in [Rows -> 0..MaxModelLen]
    BY <1>4, <2>3
  <2>5. step' \in 0..K
    BY <1>1, <1>3
  <2>6. QED
    BY <1>1, <1>2, <2>2, <2>4, <2>5 DEF TypeOK, Slots, Rows, Places, Positions, Symbol, MaxReqs, K,
                                      MaxModelLen, MaxTokens
<1>9. ASSUME NEW i \in DOMAIN batch PROVE ReadyToPrefill(i)'
  <2>1. PICK st \in Nat : st = Start(i)
    BY <1>2, Spread
  <2>2. Start(i)' = st
    BY <1>1, <2>1 DEF Start
  <2>3. PICK row : row = batch[i]
    OBVIOUS
  <2>4. row.c \in Nat /\ row.n \in Nat /\ row.keep \in Nat \ {0} /\ row.keep <= row.n
        /\ TrueLen(i) = row.keep
    BY <1>2, <2>3, RowFacts
  <2>5. ASSUME NEW j \in 0..(row.keep - 1)
        PROVE  /\ ids'[st + j] = T(row.s, row.c + j + 1)
               /\ hid'[st + j] = H(row.s, row.c + j)
               /\ pos'[st + j] = row.c + j
    <3>1. /\ st + j \in Places /\ Spans(i, row.keep, st + j) /\ Spans(i, batch[i].n, st + j)
          /\ Local(st + j) = j
      <4>1. /\ launch \in Launches /\ BatchOK /\ i \in DOMAIN batch /\ row.keep \in Nat
            /\ row.keep <= batch[i].n /\ j \in 0..(row.keep - 1)
        BY <1>2, <2>3, <2>4
      <4>2. /\ Start(i) + j \in Places /\ Spans(i, row.keep, Start(i) + j)
            /\ Spans(i, batch[i].n, Start(i) + j) /\ Local(Start(i) + j) = j
        BY ONLY <4>1, PlaceOf
      <4>3. QED
        BY <2>1, <4>2
    <3>2. PICK x \in Places : x = st + j
      BY <3>1
    <3>3. Spans(i, TrueLen(i), x) /\ Spans(i, batch[i].n, x) /\ Local(x) = j
      BY <2>4, <3>1, <3>2
    <3>4. /\ ids'[x] = T(row.s, row.c + j + 1) /\ pos'[x] = row.c + j
      BY <1>5, <2>3, <3>3
    <3>5. j < row.keep
      BY <2>4
    <3>6. hid'[x] = H(row.s, row.c + j)
      BY <1>6, <2>3, <3>3, <3>5
    <3>7. QED
      BY <3>2, <3>4, <3>6
  <2>6. lastIdx'[i] = st + row.keep - 1
    BY <1>7, <2>1, <2>3, <2>4
  <2>7. KvUpTo(row.s, row.c)
    BY <1>2, <2>3 DEF ReadyToPrepare
  <2>8. KvUpTo(row.s, row.c)'
    BY <1>1, <2>7 DEF KvUpTo
  <2>9. batch'[i] = row
    BY <1>1, <2>3
  <2>10. KvUpTo(batch[i].s, batch[i].c)'
    BY <2>8, <2>9 DEF KvUpTo
  <2>11. QED
    BY <2>2, <2>5, <2>6, <2>9, <2>10 DEF ReadyToPrefill, T, H
<1>10. BatchOK'
  BY <1>1, <1>2 DEF BatchOK, TokenCount, Legal, Slots, MaxReqs, MaxTokens, MaxModelLen
<1>11. ASSUME NEW s \in Slots, ~InBatch(s) PROVE IdleOK(s)'
  <2>1. IdleOK(s)
    BY <1>11 DEF IInv
  <2>2. QED
    BY <1>1, <2>1 DEF IdleOK, KvUpTo, Continues, MaxModelLen, K
<1>12. QED
  BY <1>1, <1>8, <1>9, <1>10, <1>11 DEF IInv, RowOK, InBatch, Slots, MaxReqs

(* The places whose tokens go to position q of s.                           *)
At(s, q) == {x \in Places : \E i \in DOMAIN batch :
               Spans(i, batch[i].n, x) /\ batch[i].s = s /\ batch[i].c + Local(x) = q}

LEMMA PrefilledAt ==
  ASSUME NEW s, NEW q \in Positions
  PROVE  /\ At(s, q) = {} => Prefilled(s)[q] = kv[s][q]
         /\ At(s, q) # {} => \E x \in At(s, q) : Prefilled(s)[q] = <<ids[x], hid[x], pos[x]>>
<1> DEFINE x == CHOOSE y \in At(s, q) : TRUE
<1>1. Prefilled(s)[q] = IF At(s, q) = {} THEN kv[s][q] ELSE <<ids[x], hid[x], pos[x]>>
  BY DEF Prefilled, At
<1>2. At(s, q) # {} => x \in At(s, q)
  OBVIOUS
<1> HIDE DEF x
<1>3. QED
  BY <1>1, <1>2

LEMMA PrefilledTyped ==
  ASSUME TypeOK, NEW s \in Slots
  PROVE  Prefilled(s) \in [Positions -> Symbol \X Symbol \X Positions]
<1>1. ASSUME NEW q \in Positions PROVE Prefilled(s)[q] \in Symbol \X Symbol \X Positions
  <2>1. kv[s][q] \in Symbol \X Symbol \X Positions
    BY DEF TypeOK
  <2>2. \A x \in At(s, q) : <<ids[x], hid[x], pos[x]>> \in Symbol \X Symbol \X Positions
    BY DEF TypeOK, At
  <2>3. QED
    BY <2>1, <2>2, PrefilledAt
<1>2. Prefilled(s) = [q \in Positions |-> Prefilled(s)[q]]
  BY DEF Prefilled
<1>3. QED
  BY <1>1, <1>2

(* The prefill leaves other requests alone, and what is in front of a row.  *)
LEMMA PrefilledElsewhere ==
  ASSUME launch \in Launches, BatchOK, NEW s \in Slots, NEW q \in Positions,
         \A i \in DOMAIN batch : batch[i].s = s => q < batch[i].c
  PROVE  Prefilled(s)[q] = kv[s][q]
<1>1. At(s, q) = {}
  <2> SUFFICES ASSUME NEW x \in Places, NEW i \in DOMAIN batch,
                      Spans(i, batch[i].n, x), batch[i].s = s, batch[i].c + Local(x) = q
               PROVE  FALSE
    BY DEF At
  <2>1. batch[i].c \in Nat /\ batch[i].n \in Nat /\ batch[i].n <= batch[i].n
    BY RowFacts
  <2>2. Local(x) \in 0..(batch[i].n - 1)
    <3>1. MaxTokens \in Nat
      BY LaunchTyped
    <3>2. x \in Int
      BY <3>1 DEF Places
    <3>3. /\ launch \in Launches /\ BatchOK /\ i \in DOMAIN batch /\ batch[i].n \in Nat
          /\ batch[i].n <= batch[i].n /\ x \in Int /\ Spans(i, batch[i].n, x)
      BY <2>1, <3>2
    <3>4. QED
      BY ONLY <3>3, Placed
  <2>3. q < batch[i].c
    OBVIOUS
  <2>4. QED
    BY <2>1, <2>2, <2>3
<1>2. QED
  BY <1>1, PrefilledAt

(* Behind it, every true token of the row has its entry.                    *)
LEMMA PrefilledRow ==
  ASSUME launch \in Launches, BatchOK, NEW i \in DOMAIN batch, ReadyToPrefill(i),
         NEW q \in Positions, batch[i].c <= q, q <= Base(i)
  PROVE  Prefilled(batch[i].s)[q] = Exact(batch[i].s, q)
<1>1. /\ batch[i].c \in Nat /\ batch[i].n \in Nat /\ batch[i].keep \in Nat
      /\ batch[i].keep <= batch[i].n /\ MaxTokens \in Nat /\ MaxModelLen \in Nat
      /\ Start(i) \in Nat
  BY RowFacts, LaunchTyped, Spread
<1>2. q \in Nat
  BY <1>1 DEF Positions
<1> DEFINE j == q - batch[i].c
<1>3. j \in 0..(batch[i].keep - 1) /\ batch[i].c + j = q /\ j \in Nat
  BY <1>1, <1>2 DEF Base
<1> HIDE DEF j
<1>4. /\ Start(i) + j \in Places /\ Spans(i, batch[i].n, Start(i) + j)
      /\ Local(Start(i) + j) = j
  <2>1. /\ launch \in Launches /\ BatchOK /\ i \in DOMAIN batch /\ batch[i].keep \in Nat
        /\ batch[i].keep <= batch[i].n /\ j \in 0..(batch[i].keep - 1)
    BY <1>1, <1>3
  <2>2. QED
    BY ONLY <2>1, PlaceOf
<1>5. Start(i) + j \in At(batch[i].s, q)
  BY <1>3, <1>4 DEF At
<1>6. ASSUME NEW x \in At(batch[i].s, q) PROVE x = Start(i) + j
  <2>1. x \in Int
    BY <1>1 DEF At, Places
  <2>2. PICK k \in DOMAIN batch : /\ Spans(k, batch[k].n, x) /\ batch[k].s = batch[i].s
                                  /\ batch[k].c + Local(x) = q
    BY DEF At
  <2>3. k = i
    BY <2>2, RowFacts
  <2>4. Local(x) = x - Start(i)
    <3>1. /\ launch \in Launches /\ BatchOK /\ i \in DOMAIN batch /\ batch[i].n \in Nat
          /\ batch[i].n <= batch[i].n /\ x \in Int /\ Spans(i, batch[i].n, x)
      BY <1>1, <2>1, <2>2, <2>3
    <3>2. QED
      BY ONLY <3>1, Placed
  <2>5. batch[i].c + (x - Start(i)) = q
    BY <2>2, <2>3, <2>4
  <2>6. QED
    BY <1>1, <1>3, <2>1, <2>5
<1>7. /\ ids[Start(i) + j] = T(batch[i].s, batch[i].c + j + 1)
      /\ hid[Start(i) + j] = H(batch[i].s, batch[i].c + j)
      /\ pos[Start(i) + j] = batch[i].c + j
  BY <1>3 DEF ReadyToPrefill
<1>8. batch[i].c + j + 1 = q + 1
  BY <1>1, <1>3
<1>9. Prefilled(batch[i].s)[q] = <<ids[Start(i) + j], hid[Start(i) + j], pos[Start(i) + j]>>
  BY <1>5, <1>6, PrefilledAt
<1>10. QED
  BY <1>3, <1>7, <1>8, <1>9 DEF Exact

LEMMA PrefillInv ==
  ASSUME IInv, Prefill
  PROVE  IInv'
<1>1. /\ UNCHANGED <<launch, plen, computed, last, chunk, proposed, batch, ids, lastIdx, seq, meta,
                     step>>
      /\ phase = "prefill" /\ phase' = IF K = 1 THEN "store" ELSE "decode"
  BY DEF Prefill, reqVars
<1>2. TypeOK /\ launch \in Launches /\ BatchOK
      /\ \A i \in DOMAIN batch : ReadyToPrefill(i)
  BY <1>1 DEF IInv, TypeOK, RowOK
<1>3. /\ MaxReqs \in Nat \ {0} /\ K \in Nat \ {0} /\ MaxModelLen \in Nat /\ MaxModelLen >= 2
      /\ MaxTokens \in Nat /\ MaxTokens >= MaxReqs
  BY <1>2, LaunchTyped
<1>4. /\ DOMAIN batch \subseteq Rows /\ DOMAIN batch \subseteq Places
  BY <1>2, BatchRows
<1> DEFINE p(i)   == batch[RowAt(lastIdx[i])].c + Local(lastIdx[i])
           s(i)   == batch[RowAt(lastIdx[i])].s
           Ok(i)  == Answers(s(i), Prefilled(s(i)), p(i), 0, p(i) + 1, pos[lastIdx[i]])
<1>5. /\ kv' = [t \in Slots |-> Prefilled(t)]
      /\ drafts' = [i \in Rows |-> IF i \in DOMAIN batch
           THEN [drafts[i] EXCEPT ![0] = IF Ok(i) THEN D(s(i), p(i), 0) ELSE Junk]
           ELSE drafts[i]]
      /\ hid' = [x \in Places |-> IF x \in DOMAIN batch
           THEN IF Ok(x) THEN G(s(x), p(x), 0) ELSE Junk ELSE hid[x]]
      /\ pos' = [x \in Places |-> IF x \in DOMAIN batch THEN pos[lastIdx[x]] ELSE pos[x]]
  BY DEF Prefill
(* The cache of a row's request, up to its last true token.                 *)
<1>6. ASSUME NEW i \in DOMAIN batch, NEW q \in 0..Base(i)
      PROVE  Prefilled(batch[i].s)[q] = Exact(batch[i].s, q)
  <2>1. /\ batch[i].s \in Slots /\ batch[i].c \in Nat /\ Base(i) \in Nat
        /\ Base(i) <= MaxModelLen - 2
        /\ \A j \in DOMAIN batch : batch[j].s = batch[i].s => j = i
    BY <1>2, RowFacts
  <2>2. q \in Positions
    BY <1>3, <2>1 DEF Positions
  <2>3. CASE q < batch[i].c
    <3>1. Prefilled(batch[i].s)[q] = kv[batch[i].s][q]
      <4>1. \A j \in DOMAIN batch : batch[j].s = batch[i].s => q < batch[j].c
        BY <2>1, <2>3
      <4>2. QED
        BY <1>2, <2>1, <2>2, <4>1, PrefilledElsewhere
    <3>2. q \in 0..(batch[i].c - 1)
      BY <2>1, <2>3
    <3>3. QED
      BY <1>2, <3>1, <3>2 DEF ReadyToPrefill, KvUpTo
  <2>4. CASE ~(q < batch[i].c)
    <3>1. batch[i].c <= q /\ q <= Base(i)
      BY <2>1, <2>4
    <3>2. QED
      BY <1>2, <2>2, <3>1, PrefilledRow
  <2>5. QED
    BY <2>3, <2>4
(* Each row samples behind its last true token.                             *)
<1>7. ASSUME NEW i \in DOMAIN batch
      PROVE  s(i) = batch[i].s /\ p(i) = Base(i) /\ pos[lastIdx[i]] = Base(i) /\ Ok(i)
  <2>1. /\ batch[i].c \in Nat /\ batch[i].n \in Nat /\ batch[i].keep \in Nat \ {0}
        /\ batch[i].keep <= batch[i].n /\ Start(i) \in Nat /\ Base(i) \in Nat
    BY <1>2, RowFacts, Spread
  <2>2. PICK k \in Nat \ {0} : k = batch[i].keep
    BY <2>1
  <2>3. k - 1 \in 0..(k - 1)
    OBVIOUS
  <2>4. RowAt(Start(i) + (k - 1)) = i /\ Local(Start(i) + (k - 1)) = k - 1
    <3>1. /\ launch \in Launches /\ BatchOK /\ i \in DOMAIN batch /\ k \in Nat
          /\ k <= batch[i].n /\ k - 1 \in 0..(k - 1)
      BY <1>2, <2>1, <2>2, <2>3
    <3>2. QED
      BY ONLY <3>1, PlaceOf
  <2>5. lastIdx[i] = Start(i) + (k - 1) /\ pos[Start(i) + (k - 1)] = batch[i].c + (k - 1)
    BY <1>2, <2>2, <2>3 DEF ReadyToPrefill
  <2>6. RowAt(lastIdx[i]) = i /\ Local(lastIdx[i]) = k - 1
    BY <2>4, <2>5
  <2>7. batch[i].c + (k - 1) = Base(i)
    BY <2>1, <2>2 DEF Base
  <2>8. s(i) = batch[i].s /\ p(i) = Base(i) /\ pos[lastIdx[i]] = Base(i)
    BY <2>5, <2>6, <2>7
  <2>9. Answers(batch[i].s, Prefilled(batch[i].s), Base(i), 0, Base(i) + 1, Base(i))
    <3>1. Base(i) + 1 = Base(i) + 0 + 1 /\ Base(i) = Base(i) + 0
      BY <2>1
    <3>2. QED
      BY <1>6, <3>1 DEF Answers
  <2>10. QED
    BY <2>8, <2>9
<1> HIDE DEF p, s, Ok
<1>8. ASSUME NEW i \in DOMAIN batch
      PROVE  /\ drafts'[i] = [drafts[i] EXCEPT ![0] = D(batch[i].s, Base(i), 0)]
             /\ hid'[i] = G(batch[i].s, Base(i), 0) /\ pos'[i] = Base(i)
  BY <1>4, <1>5, <1>7
<1>9. TypeOK'
  <2>1. kv' \in [Slots -> [Positions -> Symbol \X Symbol \X Positions]]
    BY <1>2, <1>5, PrefilledTyped
  <2>2. ASSUME NEW i \in DOMAIN batch
        PROVE  /\ D(batch[i].s, Base(i), 0) \in Symbol /\ G(batch[i].s, Base(i), 0) \in Symbol
               /\ Base(i) \in Positions
    <3>1. batch[i].s \in Slots /\ Base(i) \in Nat /\ Base(i) <= MaxModelLen - 2
      BY <1>2, RowFacts
    <3>2. Base(i) \in 0..MaxModelLen /\ Base(i) \in Positions /\ 0 \in 0..K
      BY <1>3, <3>1 DEF Positions
    <3>3. QED
      BY <1>2, <3>1, <3>2, Symbols
  <2>3. 0 \in 0..(K - 1)
    BY <1>3
  <2>4. ASSUME NEW i \in Rows PROVE drafts'[i] \in [0..(K - 1) -> Symbol]
    <3>1. drafts[i] \in [0..(K - 1) -> Symbol]
      BY <1>2 DEF TypeOK
    <3>2. CASE i \in DOMAIN batch
      BY <1>8, <2>2, <2>3, <3>1, <3>2
    <3>3. CASE i \notin DOMAIN batch
      BY <1>5, <3>1, <3>3
    <3>4. QED
      BY <3>2, <3>3
  <2>5. ASSUME NEW x \in Places PROVE hid'[x] \in Symbol /\ pos'[x] \in Positions
    <3>1. hid[x] \in Symbol /\ pos[x] \in Positions
      BY <1>2 DEF TypeOK
    <3>2. CASE x \in DOMAIN batch
      BY <1>8, <2>2, <3>2
    <3>3. CASE x \notin DOMAIN batch
      BY <1>5, <3>1, <3>3
    <3>4. QED
      BY <3>2, <3>3
  <2>6. /\ drafts' \in [Rows -> [0..(K - 1) -> Symbol]]
        /\ hid' \in [Places -> Symbol] /\ pos' \in [Places -> Positions]
    BY <1>5, <2>4, <2>5
  <2>7. QED
    BY <1>1, <1>2, <2>1, <2>6 DEF TypeOK, Slots, Rows, Places, Positions, Symbol, MaxReqs, K,
                                  MaxModelLen, MaxTokens
<1>10. ASSUME NEW i \in DOMAIN batch
       PROVE  /\ (K = 1 => ReadyToStore(i))'
              /\ (K > 1 => ReadyToDecode(i))'
  <2>1. PICK t \in Slots : t = batch[i].s
    BY <1>2, RowFacts
  <2>2. PICK b \in Nat : b = Base(i) /\ computed[t] = b + 1
    BY <1>2, <2>1, RowFacts
  <2>3. batch'[i].s = t /\ Base(i)' = b /\ computed'[t] = b + 1 /\ K' = K
        /\ MaxModelLen' = MaxModelLen
    BY <1>1, <2>1, <2>2 DEF Base, K, MaxModelLen
  <2>4. KvUpTo(t, b + 1)'
    <3>1. \A q \in 0..((b + 1) - 1) : q \in 0..b
      OBVIOUS
    <3>2. \A q \in 0..((b + 1) - 1) : kv'[t][q] = Exact(t, q)
      BY <1>5, <1>6, <2>1, <2>2, <3>1
    <3>3. QED
      BY <3>2 DEF KvUpTo, Exact, T, H
  <2>5. KvUpTo(batch[i].s, computed[batch[i].s])'
    BY <2>3, <2>4 DEF KvUpTo
  <2>6. drafts'[i][0] = D(t, b, 0) /\ hid'[i] = G(t, b, 0) /\ pos'[i] = b
    <3>1. drafts[i] \in [0..(K - 1) -> Symbol] /\ 0 \in 0..(K - 1)
      BY <1>2, <1>3, <1>4 DEF TypeOK
    <3>2. QED
      BY <1>8, <2>1, <2>2, <3>1
  <2>7. Continues(drafts[i], batch[i].s, Base(i), 1)'
    <3>1. \A j \in 0..(1 - 1) : j = 0
      OBVIOUS
    <3>2. QED
      BY <2>3, <2>6, <3>1 DEF Continues, D
  <2>8. (K = 1 => ReadyToStore(i))'
    BY <2>5, <2>7 DEF ReadyToStore, Continues
  <2>9. ReadyToDecode(i)'
    BY <2>3, <2>5, <2>6, <2>7 DEF ReadyToDecode, G
  <2>10. QED
    BY <2>8, <2>9
<1>11. BatchOK'
  BY <1>1, <1>2 DEF BatchOK, TokenCount, Legal, Slots, MaxReqs, MaxTokens, MaxModelLen
<1>12. ASSUME NEW t \in Slots, ~InBatch(t) PROVE IdleOK(t)'
  <2>1. IdleOK(t)
    BY <1>12 DEF IInv
  <2>2. computed[t] \in Positions
    BY <1>2 DEF TypeOK
  <2>3. ASSUME NEW q \in 0..(computed[t] - 1) PROVE kv'[t][q] = kv[t][q]
    <3>1. q \in Positions
      BY <1>3, <2>2 DEF Positions
    <3>2. \A i \in DOMAIN batch : batch[i].s = t => q < batch[i].c
      BY <1>12 DEF InBatch
    <3>3. QED
      BY <1>2, <1>5, <3>1, <3>2, PrefilledElsewhere
  <2>4. KvUpTo(t, computed[t])'
    BY <1>1, <2>1, <2>3 DEF IdleOK, KvUpTo
  <2>5. QED
    BY <1>1, <2>1, <2>4 DEF IdleOK, Continues, MaxModelLen, K
<1>13. ASSUME NEW i \in DOMAIN batch PROVE RowOK(i)'
  <2>1. K' = K /\ (K # 1 => K > 1)
    BY <1>1, <1>3 DEF K
  <2>2. QED
    BY <1>1, <1>10, <2>1 DEF RowOK
<1>14. QED
  BY <1>1, <1>9, <1>11, <1>12, <1>13 DEF IInv, InBatch, Slots, MaxReqs

LEMMA PrepareDecodeInv ==
  ASSUME IInv, PrepareDecode
  PROVE  IInv'
<1>1. /\ UNCHANGED <<launch, plen, computed, last, chunk, proposed, batch, hid, lastIdx, drafts, kv>>
      /\ phase = "decode" /\ phase' = "draft" /\ step' = 1
      /\ meta' = IF Fused THEN Metadata(pos', seq') ELSE meta
  BY DEF PrepareDecode, reqVars
<1>2. TypeOK /\ launch \in Launches /\ BatchOK
      /\ \A i \in DOMAIN batch : K > 1 /\ ReadyToDecode(i)
  BY <1>1 DEF IInv, TypeOK, RowOK
<1>3. /\ MaxReqs \in Nat \ {0} /\ K \in Nat \ {0} /\ MaxModelLen \in Nat /\ MaxModelLen >= 2
      /\ MaxTokens \in Nat /\ MaxTokens >= MaxReqs
  BY <1>2, LaunchTyped
<1>4. /\ DOMAIN batch \subseteq Rows /\ DOMAIN batch \subseteq Places
  BY <1>2, BatchRows
<1>5. /\ ids' = [x \in Places |-> IF x \in DOMAIN batch THEN drafts[x][0] ELSE ids[x]]
      /\ pos' = [x \in Places |-> IF x \in DOMAIN batch THEN Advanced(pos[x], MaxModelLen - 1)
                                  ELSE pos[x]]
      /\ seq' = [i \in Rows |-> IF i \in DOMAIN batch
            THEN Advanced(SeqLen(batch[i]), MaxModelLen) ELSE 0]
  BY DEF PrepareDecode
<1>6. ASSUME NEW i \in DOMAIN batch
      PROVE  /\ ids'[i] = D(batch[i].s, Base(i), 0)
             /\ pos'[i] = Capped(Base(i) + 1, MaxModelLen - 1) /\ pos'[i] \in Positions
             /\ seq'[i] = Capped(Base(i) + 1 + 1, MaxModelLen) /\ seq'[i] \in 0..MaxModelLen
  <2>1. Base(i) \in Nat /\ Base(i) <= MaxModelLen - 2 /\ SeqLen(batch[i]) = Base(i) + 1
    BY <1>2, RowFacts
  <2>2. pos[i] = Base(i) /\ Continues(drafts[i], batch[i].s, Base(i), 1)
    BY <1>2 DEF ReadyToDecode
  <2>3. drafts[i][0] = D(batch[i].s, Base(i), 0)
    <3>1. 0 \in 0..(1 - 1) /\ Base(i) + 0 <= MaxModelLen - 1
      BY <1>3, <2>1
    <3>2. QED
      BY <2>2, <3>1 DEF Continues
  <2>4. ids'[i] = D(batch[i].s, Base(i), 0)
    BY <1>4, <1>5, <2>3
  <2>5. pos'[i] = Advanced(Base(i), MaxModelLen - 1)
    BY <1>4, <1>5, <2>2
  <2>6. seq'[i] = Advanced(Base(i) + 1, MaxModelLen)
    BY <1>4, <1>5, <2>1
  <2>7. pos'[i] = Capped(Base(i) + 1, MaxModelLen - 1) /\ pos'[i] \in Positions
    BY <1>3, <2>1, <2>5 DEF Advanced, Capped, Positions
  <2>8. seq'[i] = Capped(Base(i) + 1 + 1, MaxModelLen) /\ seq'[i] \in 0..MaxModelLen
    BY <1>3, <2>1, <2>6 DEF Advanced, Capped
  <2>9. QED
    BY <2>4, <2>7, <2>8
<1>7. TypeOK'
  <2>1. ASSUME NEW x \in Places PROVE ids'[x] \in Symbol /\ pos'[x] \in Positions
    <3>1. ids[x] \in Symbol /\ pos[x] \in Positions
      BY <1>2 DEF TypeOK
    <3>2. CASE x \in DOMAIN batch
      <4>1. drafts[x] \in [0..(K - 1) -> Symbol] /\ 0 \in 0..(K - 1)
        BY <1>2, <1>3, <1>4, <3>2 DEF TypeOK
      <4>2. QED
        BY <1>5, <1>6, <3>2, <4>1
    <3>3. CASE x \notin DOMAIN batch
      BY <1>5, <3>1, <3>3
    <3>4. QED
      BY <3>2, <3>3
  <2>2. ASSUME NEW i \in Rows PROVE seq'[i] \in 0..MaxModelLen
    <3>1. 0 \in 0..MaxModelLen
      BY <1>3
    <3>2. QED
      BY <1>5, <1>6, <3>1
  <2>3. ids' \in [Places -> Symbol] /\ pos' \in [Places -> Positions]
        /\ seq' \in [Rows -> 0..MaxModelLen]
    BY <1>5, <2>1, <2>2
  <2>4. meta' \in [Rows -> Positions \X (0..MaxModelLen)]
    <3>1. Rows \subseteq Places
      BY <1>3 DEF Rows, Places
    <3>2. Metadata(pos', seq') \in [Rows -> Positions \X (0..MaxModelLen)]
      BY <2>3, <3>1 DEF Metadata
    <3>3. QED
      BY <1>1, <1>2, <3>2 DEF TypeOK
  <2>5. step' \in 0..K
    BY <1>1, <1>3
  <2>6. QED
    BY <1>1, <1>2, <2>3, <2>4, <2>5 DEF TypeOK, Slots, Rows, Places, Positions, Symbol, MaxReqs, K,
                                        MaxModelLen, MaxTokens
<1>8. ASSUME NEW i \in DOMAIN batch PROVE RowOK(i)'
  <2>1. PICK t \in Slots : t = batch[i].s
    BY <1>2, RowFacts
  <2>2. PICK b \in Nat : b = Base(i) /\ computed[t] = b + 1
    BY <1>2, <2>1, RowFacts
  <2>3. batch'[i].s = t /\ Base(i)' = b /\ computed'[t] = b + 1 /\ K' = K
        /\ MaxModelLen' = MaxModelLen /\ Fused' = Fused /\ step' = 1
    BY <1>1, <2>1, <2>2 DEF Base, K, MaxModelLen, Fused
  <2>4. ReadyToDecode(i) /\ K > 1 /\ step' \in 1..(K - 1)
    BY <1>1, <1>2, <1>3
  <2>5. KvUpTo(batch[i].s, computed[batch[i].s])'
    BY <1>1, <2>4 DEF ReadyToDecode, KvUpTo
  <2>6. Continues(drafts[i], batch[i].s, Base(i), step)'
    BY <1>1, <2>1, <2>2, <2>3, <2>4 DEF ReadyToDecode, Continues
  <2>7. /\ pos'[i] = Capped(b + 1, MaxModelLen - 1)
        /\ seq'[i] = Capped(b + 1 + 1, MaxModelLen)
        /\ ids'[i] = D(t, b, 1 - 1) /\ hid'[i] = G(t, b, 1 - 1)
    <3>1. hid'[i] = G(t, b, 0) /\ 1 - 1 = 0
      BY <1>1, <2>1, <2>2, <2>4 DEF ReadyToDecode
    <3>2. QED
      BY <1>6, <2>1, <2>2, <3>1
  <2>8. (Fused => meta[i] = <<pos[i], seq[i]>>)'
    BY <1>1, <1>4, <2>3 DEF Metadata
  <2>9. \A j \in 1..(1 - 1) : FALSE
    OBVIOUS
  <2>10. ReadyToDraft(i)'
    BY <2>3, <2>5, <2>6, <2>7, <2>8, <2>9 DEF ReadyToDraft, Capped, D, G
  <2>11. QED
    BY <1>1, <2>3, <2>4, <2>10 DEF RowOK
<1>9. BatchOK'
  BY <1>1, <1>2 DEF BatchOK, TokenCount, Legal, Slots, MaxReqs, MaxTokens, MaxModelLen
<1>10. ASSUME NEW t \in Slots, ~InBatch(t) PROVE IdleOK(t)'
  <2>1. IdleOK(t)
    BY <1>10 DEF IInv
  <2>2. QED
    BY <1>1, <2>1 DEF IdleOK, KvUpTo, Continues, MaxModelLen, K
<1>11. QED
  BY <1>1, <1>7, <1>8, <1>9, <1>10 DEF IInv, InBatch, Slots, MaxReqs

(* The row of a draft step writes its entry and samples from it.            *)
Entry(i) == <<ids[i], hid[i], pos[i]>>
After(i) == [kv[batch[i].s] EXCEPT ![Current[i][1]] = Entry(i)]
Sound(i) == /\ Base(i) + step <= MaxModelLen - 1
            /\ Answers(batch[i].s, After(i), Base(i), step, Current[i][2], pos[i])

LEMMA DraftRow ==
  ASSUME TypeOK, BatchOK, NEW i \in DOMAIN batch, step \in 1..(K - 1), ReadyToDraft(i)
  PROVE  /\ Current[i] = <<pos[i], seq[i]>>
         /\ After(i) \in [Positions -> Symbol \X Symbol \X Positions]
         /\ \A q \in 0..Base(i) : After(i)[q] = Exact(batch[i].s, q)
         /\ Base(i) + step <= MaxModelLen - 1 =>
              /\ Sound(i)
              /\ \A j \in 1..step : After(i)[Base(i) + j] = Provisional(batch[i].s, Base(i), j)
<1>1. launch \in Launches
  BY DEF TypeOK
<1>2. /\ MaxReqs \in Nat \ {0} /\ K \in Nat \ {0} /\ MaxModelLen \in Nat /\ MaxModelLen >= 2
      /\ MaxTokens \in Nat /\ MaxTokens >= MaxReqs
  BY <1>1, LaunchTyped
<1>3. /\ i \in Rows /\ i \in Places /\ batch[i].s \in Slots /\ Base(i) \in Nat
      /\ Base(i) <= MaxModelLen - 2 /\ computed[batch[i].s] = Base(i) + 1 /\ step \in Nat \ {0}
  BY <1>1, <1>2, BatchRows, RowFacts
<1>4. Current[i] = <<pos[i], seq[i]>>
  BY <1>3 DEF Current, Metadata, ReadyToDraft
<1>5. PICK old \in [Positions -> Symbol \X Symbol \X Positions] : old = kv[batch[i].s]
  BY <1>3 DEF TypeOK
<1>6. Entry(i) \in Symbol \X Symbol \X Positions /\ pos[i] \in Positions
  BY <1>3 DEF TypeOK, Entry
<1>7. After(i) = [old EXCEPT ![pos[i]] = Entry(i)]
  BY <1>4, <1>5 DEF After
<1>8. After(i) \in [Positions -> Symbol \X Symbol \X Positions]
  BY <1>6, <1>7
<1>9. pos[i] = Capped(Base(i) + step, MaxModelLen - 1) /\ pos[i] >= Base(i) + 1
  BY <1>2, <1>3 DEF ReadyToDraft, Capped
<1>10. ASSUME NEW q \in 0..Base(i) PROVE After(i)[q] = Exact(batch[i].s, q)
  <2>1. q \in Positions /\ q # pos[i] /\ q \in 0..(computed[batch[i].s] - 1)
    BY <1>2, <1>3, <1>9 DEF Positions
  <2>2. old[q] = Exact(batch[i].s, q)
    BY <1>5, <2>1 DEF ReadyToDraft, KvUpTo
  <2>3. QED
    BY <1>7, <2>1, <2>2
<1>11. ASSUME Base(i) + step <= MaxModelLen - 1
       PROVE  /\ Sound(i)
              /\ \A j \in 1..step : After(i)[Base(i) + j] = Provisional(batch[i].s, Base(i), j)
  <2>1. pos[i] = Base(i) + step /\ seq[i] = Base(i) + step + 1
    BY <1>2, <1>3, <1>9, <1>11 DEF ReadyToDraft, Capped
  <2>2. Entry(i) = Provisional(batch[i].s, Base(i), step)
    BY <1>11, <2>1 DEF ReadyToDraft, Entry, Provisional
  <2>3. ASSUME NEW j \in 1..step
        PROVE  After(i)[Base(i) + j] = Provisional(batch[i].s, Base(i), j)
    <3>1. Base(i) + j \in Positions
      BY <1>2, <1>3, <1>11 DEF Positions
    <3>2. CASE j = step
      BY <1>7, <2>1, <2>2, <3>1, <3>2
    <3>3. CASE j # step
      <4>1. j \in 1..(step - 1) /\ Base(i) + j # pos[i]
        BY <1>3, <2>1, <3>3
      <4>2. old[Base(i) + j] = Provisional(batch[i].s, Base(i), j)
        BY <1>5, <1>11, <4>1 DEF ReadyToDraft
      <4>3. QED
        BY <1>7, <3>1, <4>1, <4>2
    <3>4. QED
      BY <3>2, <3>3
  <2>4. Current[i][2] = Base(i) + step + 1
    BY <1>4, <2>1
  <2>5. Sound(i)
    BY <1>10, <1>11, <2>1, <2>3, <2>4 DEF Sound, Answers
  <2>6. QED
    BY <2>3, <2>5
<1>12. QED
  BY <1>4, <1>8, <1>10, <1>11

LEMMA DraftInv ==
  ASSUME IInv, Draft
  PROVE  IInv'
<1>1. /\ UNCHANGED <<launch, plen, computed, last, chunk, proposed, batch, lastIdx>>
      /\ phase = "draft" /\ phase' = IF More THEN "draft" ELSE "store"
      /\ step' = IF More THEN step + 1 ELSE step
      /\ meta' = Refreshed(pos', seq')
  BY DEF Draft, reqVars
<1>2. TypeOK /\ launch \in Launches /\ BatchOK
      /\ \A i \in DOMAIN batch : step \in 1..(K - 1) /\ ReadyToDraft(i)
  BY <1>1 DEF IInv, TypeOK, RowOK
<1>3. /\ MaxReqs \in Nat \ {0} /\ K \in Nat \ {0} /\ MaxModelLen \in Nat /\ MaxModelLen >= 2
      /\ MaxTokens \in Nat /\ MaxTokens >= MaxReqs
  BY <1>2, LaunchTyped
<1>4. /\ DOMAIN batch \subseteq Rows /\ DOMAIN batch \subseteq Places
  BY <1>2, BatchRows
<1> DEFINE tokens  == [i \in DOMAIN batch |-> IF Sound(i) THEN D(batch[i].s, Base(i), step) ELSE Junk]
           hiddens == [i \in DOMAIN batch |-> IF Sound(i) THEN G(batch[i].s, Base(i), step) ELSE Junk]
<1>5. /\ kv' = [t \in Slots |-> IF \E i \in DOMAIN batch : batch[i].s = t
                  THEN After(CHOOSE i \in DOMAIN batch : batch[i].s = t) ELSE kv[t]]
      /\ UpdateDraftInputs(tokens, hiddens)
  BY DEF Draft, Sound, After, Entry, Base
<1> HIDE DEF tokens, hiddens
<1>6. /\ drafts' = [i \in Rows |-> IF i \in DOMAIN batch
                   THEN [drafts[i] EXCEPT ![step] = tokens[i]] ELSE drafts[i]]
      /\ ids' = [x \in Places |-> IF x \in DOMAIN batch /\ More THEN tokens[x] ELSE ids[x]]
      /\ hid' = [x \in Places |-> IF x \in DOMAIN batch /\ More THEN hiddens[x] ELSE hid[x]]
      /\ pos' = [x \in Places |-> IF x \in DOMAIN batch /\ More
                 THEN Advanced(pos[x], MaxModelLen - 1) ELSE pos[x]]
      /\ seq' = [i \in Rows |-> IF i \in DOMAIN batch /\ More
                 THEN Advanced(seq[i], MaxModelLen) ELSE seq[i]]
  BY <1>5 DEF UpdateDraftInputs
<1>7. ASSUME NEW i \in DOMAIN batch PROVE kv'[batch[i].s] = After(i)
  <2>1. batch[i].s \in Slots /\ \A j \in DOMAIN batch : batch[j].s = batch[i].s => j = i
    BY <1>2, RowFacts
  <2>2. (CHOOSE j \in DOMAIN batch : batch[j].s = batch[i].s) = i
    BY <2>1
  <2>3. QED
    BY <1>5, <2>1, <2>2
<1>8. ASSUME NEW i \in DOMAIN batch
      PROVE  /\ tokens[i] = IF Sound(i) THEN D(batch[i].s, Base(i), step) ELSE Junk
             /\ hiddens[i] = IF Sound(i) THEN G(batch[i].s, Base(i), step) ELSE Junk
             /\ tokens[i] \in Symbol /\ hiddens[i] \in Symbol
  <2>1. /\ tokens[i] = IF Sound(i) THEN D(batch[i].s, Base(i), step) ELSE Junk
        /\ hiddens[i] = IF Sound(i) THEN G(batch[i].s, Base(i), step) ELSE Junk
    BY DEF tokens, hiddens
  <2>2. batch[i].s \in Slots /\ Base(i) \in 0..MaxModelLen /\ step \in 0..K
    <3>1. batch[i].s \in Slots /\ Base(i) \in Nat /\ Base(i) <= MaxModelLen - 2
      BY <1>2, RowFacts
    <3>2. QED
      BY <1>2, <1>3, <3>1
  <2>3. /\ Junk \in Symbol
        /\ D(batch[i].s, Base(i), step) \in Symbol /\ G(batch[i].s, Base(i), step) \in Symbol
    BY <1>2, <2>2, Symbols
  <2>4. QED
    BY <2>1, <2>3
<1>9. TypeOK'
  <2>1. kv' \in [Slots -> [Positions -> Symbol \X Symbol \X Positions]]
    <3>1. ASSUME NEW t \in Slots PROVE kv'[t] \in [Positions -> Symbol \X Symbol \X Positions]
      <4>1. CASE \E i \in DOMAIN batch : batch[i].s = t
        <5>1. PICK i \in DOMAIN batch : batch[i].s = t
          BY <4>1
        <5>2. After(i) \in [Positions -> Symbol \X Symbol \X Positions]
          BY <1>2, DraftRow
        <5>3. QED
          BY <1>7, <5>1, <5>2
      <4>2. CASE ~(\E i \in DOMAIN batch : batch[i].s = t)
        BY <1>2, <1>5, <4>2 DEF TypeOK
      <4>3. QED
        BY <4>1, <4>2
    <3>2. QED
      BY <1>5, <3>1
  <2>2. drafts' \in [Rows -> [0..(K - 1) -> Symbol]]
    <3>1. ASSUME NEW i \in Rows PROVE drafts'[i] \in [0..(K - 1) -> Symbol]
      <4>1. drafts[i] \in [0..(K - 1) -> Symbol]
        BY <1>2 DEF TypeOK
      <4>2. QED
        BY <1>6, <1>8, <4>1
    <3>2. QED
      BY <1>6, <3>1
  <2>3. ASSUME NEW x \in Places
        PROVE  ids'[x] \in Symbol /\ hid'[x] \in Symbol /\ pos'[x] \in Positions
    <3>1. ids[x] \in Symbol /\ hid[x] \in Symbol /\ pos[x] \in Positions
      BY <1>2 DEF TypeOK
    <3>2. Advanced(pos[x], MaxModelLen - 1) \in Positions
      BY <1>3, <3>1 DEF Advanced, Positions
    <3>3. QED
      BY <1>6, <1>8, <3>1, <3>2
  <2>4. ASSUME NEW i \in Rows PROVE seq'[i] \in 0..MaxModelLen
    <3>1. seq[i] \in 0..MaxModelLen
      BY <1>2 DEF TypeOK
    <3>2. Advanced(seq[i], MaxModelLen) \in 0..MaxModelLen
      BY <1>3, <3>1 DEF Advanced
    <3>3. QED
      BY <1>6, <3>1, <3>2
  <2>5. /\ ids' \in [Places -> Symbol] /\ hid' \in [Places -> Symbol]
        /\ pos' \in [Places -> Positions] /\ seq' \in [Rows -> 0..MaxModelLen]
    BY <1>6, <2>3, <2>4
  <2>6. meta' \in [Rows -> Positions \X (0..MaxModelLen)]
    <3>1. Rows \subseteq Places
      BY <1>3 DEF Rows, Places
    <3>2. Metadata(pos', seq') \in [Rows -> Positions \X (0..MaxModelLen)]
      BY <2>5, <3>1 DEF Metadata
    <3>3. Metadata(pos, seq) \in [Rows -> Positions \X (0..MaxModelLen)]
      BY <1>2, <3>1 DEF Metadata, TypeOK
    <3>4. Current \in [Rows -> Positions \X (0..MaxModelLen)]
      BY <1>2, <3>3 DEF Current, TypeOK
    <3>5. QED
      BY <1>1, <3>2, <3>4 DEF Refreshed
  <2>7. step' \in 0..K /\ phase' \in {"draft", "store"}
    BY <1>1, <1>2, <1>3 DEF TypeOK, More
  <2>8. QED
    BY <1>1, <1>2, <2>1, <2>2, <2>5, <2>6, <2>7
       DEF TypeOK, Slots, Rows, Places, Positions, Symbol, MaxReqs, K, MaxModelLen, MaxTokens
<1>10. ASSUME NEW i \in DOMAIN batch PROVE RowOK(i)'
  <2>1. PICK t \in Slots : t = batch[i].s
    BY <1>2, RowFacts
  <2>2. PICK b \in Nat : b = Base(i) /\ computed[t] = b + 1 /\ b <= MaxModelLen - 2
    BY <1>2, <2>1, RowFacts
  <2>3. PICK n \in 1..(K - 1) : n = step
    BY <1>2
  <2>4. batch'[i].s = t /\ Base(i)' = b /\ computed'[t] = b + 1 /\ K' = K
        /\ MaxModelLen' = MaxModelLen /\ Fused' = Fused
    BY <1>1, <2>1, <2>2 DEF Base, K, MaxModelLen, Fused
  <2>5. /\ kv'[t] = After(i)
        /\ \A q \in 0..b : After(i)[q] = Exact(t, q)
        /\ b + n <= MaxModelLen - 1 =>
             /\ Sound(i)
             /\ \A j \in 1..n : After(i)[b + j] = Provisional(t, b, j)
    <3>1. TypeOK /\ BatchOK /\ i \in DOMAIN batch /\ step \in 1..(K - 1) /\ ReadyToDraft(i)
      BY <1>2
    <3>2. /\ \A q \in 0..Base(i) : After(i)[q] = Exact(batch[i].s, q)
          /\ Base(i) + step <= MaxModelLen - 1 =>
               /\ Sound(i)
               /\ \A j \in 1..step : After(i)[Base(i) + j] = Provisional(batch[i].s, Base(i), j)
      BY ONLY <3>1, DraftRow
    <3>3. QED
      BY <1>7, <2>1, <2>2, <2>3, <3>2
  <2>6. KvUpTo(batch[i].s, computed[batch[i].s])'
    <3>1. \A q \in 0..((b + 1) - 1) : q \in 0..b
      OBVIOUS
    <3>2. KvUpTo(t, b + 1)'
      BY <2>5, <3>1 DEF KvUpTo, Exact, T, H
    <3>3. QED
      BY <2>4, <3>2 DEF KvUpTo
  <2>7. ASSUME b + n <= MaxModelLen - 1
        PROVE  tokens[i] = D(t, b, n) /\ hiddens[i] = G(t, b, n)
    BY <1>8, <2>1, <2>2, <2>3, <2>5, <2>7
  <2>8. ASSUME NEW j \in 0..n, b + j <= MaxModelLen - 1 PROVE drafts'[i][j] = D(t, b, j)
    <3>1. PICK old \in [0..(K - 1) -> Symbol] : old = drafts[i]
      BY <1>2, <1>4 DEF TypeOK
    <3>2. drafts'[i] = [old EXCEPT ![n] = tokens[i]]
      BY <1>4, <1>6, <2>3, <3>1
    <3>3. CASE j = n
      BY <2>7, <2>8, <3>2, <3>3
    <3>4. CASE j # n
      <4>1. j \in 0..(n - 1) /\ j \in 0..(K - 1)
        BY <1>3, <3>4
      <4>2. Continues(drafts[i], t, b, n)
        BY <1>2, <2>1, <2>2, <2>3 DEF ReadyToDraft
      <4>3. old[j] = D(t, b, j)
        BY <2>8, <3>1, <4>1, <4>2 DEF Continues
      <4>4. QED
        BY <3>2, <3>4, <4>1, <4>3
    <3>5. QED
      BY <3>3, <3>4
  <2>9. CASE More
    <3>1. step' = n + 1 /\ n + 1 \in 1..(K - 1) /\ phase' = "draft"
      BY <1>1, <1>3, <2>3, <2>9 DEF More
    <3>2. Continues(drafts[i], batch[i].s, Base(i), step)'
      <4>1. \A j \in 0..((n + 1) - 1) : j \in 0..n
        OBVIOUS
      <4>2. QED
        BY <2>4, <2>8, <3>1, <4>1 DEF Continues, D
    <3>3. /\ pos[i] = Capped(b + n, MaxModelLen - 1)
          /\ seq[i] = Capped(b + n + 1, MaxModelLen)
      BY <1>2, <2>2, <2>3 DEF ReadyToDraft
    <3>4. /\ pos'[i] = Advanced(pos[i], MaxModelLen - 1)
          /\ seq'[i] = Advanced(seq[i], MaxModelLen)
          /\ ids'[i] = tokens[i] /\ hid'[i] = hiddens[i]
      BY <1>4, <1>6, <2>9
    <3>5. /\ pos'[i] = Capped(b + (n + 1), MaxModelLen - 1)
          /\ seq'[i] = Capped(b + (n + 1) + 1, MaxModelLen)
      BY <1>3, <3>3, <3>4 DEF Advanced, Capped
    <3>6. (Fused => meta[i] = <<pos[i], seq[i]>>)'
      <4>1. Fused => meta' = Metadata(pos', seq')
        BY <1>1, <2>9 DEF Refreshed
      <4>2. Fused => meta'[i] = <<pos'[i], seq'[i]>>
        BY <1>4, <4>1 DEF Metadata
      <4>3. QED
        BY <2>4, <4>2
    <3>7. ASSUME b + (n + 1) <= MaxModelLen - 1
          PROVE  /\ ids'[i] = D(t, b, (n + 1) - 1) /\ hid'[i] = G(t, b, (n + 1) - 1)
                 /\ \A j \in 1..((n + 1) - 1) : kv'[t][b + j] = Provisional(t, b, j)
      <4>1. b + n <= MaxModelLen - 1 /\ (n + 1) - 1 = n
        BY <1>3, <3>7
      <4>2. QED
        BY <2>5, <2>7, <3>4, <4>1
    <3>8. ReadyToDraft(i)'
      BY <2>4, <2>6, <3>1, <3>2, <3>5, <3>6, <3>7
         DEF ReadyToDraft, Capped, D, G, Provisional
    <3>9. QED
      BY <2>4, <3>1, <3>8 DEF RowOK
  <2>10. CASE ~More
    <3>1. n = K - 1 /\ phase' = "store"
      BY <1>1, <1>3, <2>3, <2>10 DEF More
    <3>2. ReadyToStore(i)'
      BY <2>4, <2>6, <2>8, <3>1 DEF ReadyToStore, Continues, D
    <3>3. QED
      BY <3>1, <3>2 DEF RowOK
  <2>11. QED
    BY <2>9, <2>10
<1>11. BatchOK'
  BY <1>1, <1>2 DEF BatchOK, TokenCount, Legal, Slots, MaxReqs, MaxTokens, MaxModelLen
<1>12. ASSUME NEW t \in Slots, ~InBatch(t) PROVE IdleOK(t)'
  <2>1. IdleOK(t)
    BY <1>12 DEF IInv
  <2>2. kv'[t] = kv[t]
    BY <1>5, <1>12 DEF InBatch
  <2>3. QED
    BY <1>1, <2>1, <2>2 DEF IdleOK, KvUpTo, Continues, MaxModelLen, K
<1>13. QED
  BY <1>1, <1>9, <1>10, <1>11, <1>12 DEF IInv, InBatch, Slots, MaxReqs

-----------------------------------------------------------------------------
(* The theorems.                                                            *)

LEMMA NextInv == IInv /\ [Next]_vars => IInv'
<1> SUFFICES ASSUME IInv, [Next]_vars PROVE IInv'
  OBVIOUS
<1>1. ASSUME NEW s \in Slots, NEW len \in 1..(MaxModelLen - 1), Admit(s, len) PROVE IInv'
  BY <1>1, AdmitInv
<1>2. ASSUME phase = "target", NEW rows \in Batches, Target(rows) PROVE IInv'
  BY <1>2, TargetInv
<1>3. CASE PreparePrefill
  BY <1>3, PreparePrefillInv
<1>4. CASE Prefill
  BY <1>4, PrefillInv
<1>5. CASE PrepareDecode
  BY <1>5, PrepareDecodeInv
<1>6. CASE Draft
  BY <1>6, DraftInv
<1>7. CASE Store
  BY <1>7, StoreInv
<1>8. CASE UNCHANGED vars
  <2>1. /\ UNCHANGED <<launch, plen, computed, last, chunk, proposed, batch, step, phase, kv>>
        /\ UNCHANGED <<ids, pos, hid, lastIdx, seq, meta, drafts>>
    BY <1>8 DEF vars, reqVars, buffers
  <2>2. TypeOK'
    BY <2>1 DEF IInv, TypeOK, Slots, Rows, Places, Positions, Symbol, MaxReqs, K, MaxModelLen,
                MaxTokens
  <2>3. BatchOK => BatchOK'
    BY <2>1 DEF BatchOK, TokenCount, Legal, Slots, MaxReqs, MaxTokens, MaxModelLen
  <2>4. ASSUME NEW i \in DOMAIN batch, RowOK(i) PROVE RowOK(i)'
    BY <2>1, <2>4 DEF RowOK, ReadyToPrepare, ReadyToPrefill, ReadyToDecode, ReadyToDraft,
       ReadyToStore, KvUpTo, Continues, Start, Base, NextToken, K, MaxModelLen, Fused
  <2>5. ASSUME NEW s \in Slots, IdleOK(s) PROVE IdleOK(s)'
    BY <2>1, <2>5 DEF IdleOK, KvUpTo, Continues, K, MaxModelLen
  <2>6. QED
    BY <2>1, <2>2, <2>3, <2>4, <2>5 DEF IInv, InBatch, Slots, MaxReqs
<1>9. QED
  BY <1>1, <1>2, <1>3, <1>4, <1>5, <1>6, <1>7, <1>8 DEF Next

LEMMA Inductive == Spec => []IInv
<1>1. QED
  BY InitInv, NextInv, PTL DEF Spec

(* In every launch the drafter's variables keep their shape; positions,     *)
(* slots and sequence lengths never pass the model length, and no row       *)
(* reaches outside the buffers.                                             *)
THEOREM TypeCorrect == Spec => []TypeOK
<1>1. IInv => TypeOK
  BY DEF IInv
<1>2. QED
  BY <1>1, Inductive, PTL

(* In every launch, between two steps of the target, no rejected token and  *)
(* no draft is left in the drafter's cache among the computed tokens: the   *)
(* prefill has replaced each of them with the entry of the true token.      *)
THEOREM KvStaysExact == Spec => []KvExact
<1>1. IInv => KvExact
  BY DEF IInv, KvExact, IdleOK, KvUpTo
<1>2. QED
  BY <1>1, Inductive, PTL

(* In every launch the drafts handed to the next step continue exactly the  *)
(* computed tokens of their request, however many tokens of the batch were  *)
(* rejected, and with the metadata of one graph replayed for every step.    *)
THEOREM DraftsStaySound == Spec => []DraftsSound
<1>1. IInv => DraftsSound
  BY DEF IInv, DraftsSound, IdleOK, Continues
<1>2. QED
  BY <1>1, Inductive, PTL
=============================================================================
