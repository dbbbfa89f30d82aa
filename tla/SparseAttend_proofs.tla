-------------------------- MODULE SparseAttend_proofs --------------------------
(***************************************************************************)
(* Theorems of IndexerSelect and, through Composition, of SparseAttend:    *)
(* the layout of a batch is right for every batch, table and budget.       *)
(*                                                                         *)
(* The sections are in the order of the code.  Prefix sums: a token lies   *)
(* in exactly one request (LocPlace).  The split into decodes and prefills *)
(* (DecodesTyped).  The three decode layouts give every token a row with   *)
(* its own context and table (NativeLaid, FlatLaid).  Slices lie behind    *)
(* one another and cover the prefills (SlicesRight, SpecsRight); the       *)
(* gathered keys are at the offsets that ks and ke name (GatherRight,      *)
(* ChunkRowRight).  RowInv then says at each pc what the parts of the step *)
(* that have run established: the decode layout is right for every decode  *)
(* (DecodeIs), the rows of the chunks that ran are exact and the others    *)
(* are in a chunk still to come, and a chunk that shares a gather finds it *)
(* (LoopIs).  SlotInv adds to RowInv that the request ids are those of the *)
(* batch; a row is its positions, each in one column (RowHolds), and a     *)
(* position is one slot of its request's pages (SlotIs).                   *)
(***************************************************************************)
EXTENDS SparseAttend, FiniteSetTheorems, SequenceTheorems, WellFoundedInduction, TLAPS

-----------------------------------------------------------------------------
(* Division.                                                                *)

LEMMA DivMod ==
  ASSUME NEW a \in Nat, NEW k \in Nat \ {0}
  PROVE  /\ a \div k \in Nat /\ a % k \in Nat /\ a % k < k
         /\ a = ((a \div k) * k) + (a % k)
  OBVIOUS

LEMMA MulMono ==
  ASSUME NEW a \in Int, NEW b \in Int, NEW k \in Nat, a < b
  PROVE  /\ a * k + k <= b * k
         /\ a * k \in Int /\ b * k \in Int
<1>1. (b - a - 1) * k >= 0
  OBVIOUS
<1>2. (b - a - 1) * k = b * k - a * k - k
  OBVIOUS
<1>3. a * k \in Int /\ b * k \in Int
  OBVIOUS
<1>4. QED
  BY <1>1, <1>2, <1>3

LEMMA DivLess ==
  ASSUME NEW a \in Nat, NEW n \in Nat, NEW k \in Nat \ {0}
  PROVE  a < n * k <=> a \div k < n
<1> DEFINE d == a \div k
           m == a % k
<1>1. d \in Nat /\ m \in Nat /\ m < k /\ a = (d * k) + m
  BY DivMod
<1> HIDE DEF d, m
<1>2. d * k \in Int /\ n * k \in Int
  BY <1>1
<1>3. CASE d < n
  <2>1. d * k + k <= n * k
    BY <1>1, <1>3, MulMono
  <2>2. QED
    BY <1>1, <1>2, <1>3, <2>1 DEF d
<1>4. CASE d >= n
  <2>1. d = n \/ n * k + k <= d * k
    BY <1>1, <1>4, MulMono
  <2>2. QED
    BY <1>1, <1>2, <1>4, <2>1 DEF d
<1>5. QED
  BY <1>1, <1>3, <1>4

LEMMA DivMono ==
  ASSUME NEW a \in Nat, NEW b \in Nat, NEW k \in Nat \ {0}, a <= b
  PROVE  a \div k <= b \div k
<1> DEFINE d == a \div k
           e == b \div k
           n == b % k
<1>1. d \in Nat /\ e \in Nat /\ n \in Nat /\ n < k /\ b = (e * k) + n
  BY DivMod
<1>2. a < (e + 1) * k => d < e + 1
  BY <1>1, DivLess
<1> HIDE DEF d, e, n
<1>3. (e + 1) * k = e * k + k /\ e * k \in Int
  BY <1>1
<1>4. QED
  BY <1>1, <1>2, <1>3 DEF d, e

LEMMA DivUnique ==
  ASSUME NEW k \in Nat \ {0}, NEW q \in Nat, NEW i \in Nat, i < k
  PROVE  (q * k + i) \div k = q /\ (q * k + i) % k = i
<1> DEFINE a == q * k + i
           d == a \div k
           m == a % k
<1>1. a \in Nat
  OBVIOUS
<1>2. d \in Nat /\ m \in Nat /\ m < k /\ a = (d * k) + m
  BY <1>1, DivMod
<1>3. a < (q + 1) * k <=> d < q + 1
  BY <1>1, DivLess
<1>4. a < q * k <=> d < q
  BY <1>1, DivLess
<1>5. (q + 1) * k = q * k + k /\ q * k \in Int
  OBVIOUS
<1>6. a = q * k + i
  OBVIOUS
<1> HIDE DEF a, d, m
<1>7. d = q
  BY <1>1, <1>2, <1>3, <1>4, <1>5, <1>6
<1>8. m = i
  BY <1>1, <1>2, <1>5, <1>6, <1>7
<1>9. QED
  BY <1>7, <1>8 DEF a, d, m

-----------------------------------------------------------------------------
(* Sums.                                                                    *)

LEMMA NatMin ==
  ASSUME NEW S, S \subseteq Nat, S # {}
  PROVE  \E x \in S : \A y \in S : x <= y
<1> DEFINE R == {ss \in Nat \X Nat : ss[1] < ss[2]}
<1>1. IsWellFoundedOn(R, Nat)
  BY NatLessThanWellFounded DEF OpToRel
<1>2. \A y, x \in Nat : y < x => <<y, x>> \in R
  OBVIOUS
<1> HIDE DEF R
<1>3. PICK x \in S : \A y \in S : ~(<<y, x>> \in R)
  BY <1>1, WFMin
<1>4. \A y \in S : x <= y
  <2> SUFFICES ASSUME NEW y \in S, y < x PROVE FALSE
    OBVIOUS
  <2>1. QED
    BY <1>2, <1>3
<1>5. QED
  BY <1>4

LEMMA Induct ==
  ASSUME NEW S, 0 \in S, \A n \in Nat : n \in S => n + 1 \in S
  PROVE  Nat \subseteq S
<1> SUFFICES ASSUME Nat \ S # {} PROVE FALSE
  OBVIOUS
<1>1. PICK m \in Nat \ S : \A y \in Nat \ S : m <= y
  BY NatMin
<1>2. QED
  BY <1>1

(* s has the prefix sums of f up to n.                                      *)
Sums(s, f, n) == s = [k \in 0..n |-> IF k = 0 THEN 0 ELSE s[k - 1] + f[k - 1]]

LEMMA SumsExist ==
  ASSUME NEW f, NEW m \in Nat
  PROVE  \E s : Sums(s, f, m)
<1> DEFINE S == {n \in Nat : \E s : Sums(s, f, n)}
<1>1. 0 \in S
  <2> DEFINE s == [k \in 0..0 |-> 0]
  <2>1. Sums(s, f, 0)
    BY DEF Sums
  <2>2. QED
    BY <2>1
<1>2. ASSUME NEW n \in Nat, n \in S PROVE n + 1 \in S
  <2>1. PICK s : Sums(s, f, n)
    BY <1>2
  <2> DEFINE h == [k \in 0..(n + 1) |-> IF k = 0 THEN 0 ELSE s[k - 1] + f[k - 1]]
  <2>2. \A k \in 0..n : h[k] = s[k]
    BY <2>1 DEF Sums
  <2>3. \A k \in 0..(n + 1) : k # 0 => k - 1 \in 0..n
    OBVIOUS
  <2>4. h = [k \in 0..(n + 1) |-> IF k = 0 THEN 0 ELSE h[k - 1] + f[k - 1]]
    BY <2>2, <2>3
  <2> HIDE DEF h
  <2>5. Sums(h, f, n + 1)
    BY <2>4 DEF Sums
  <2>6. QED
    BY <2>5
<1> HIDE DEF S
<1>3. m \in S
  BY <1>1, <1>2, Induct
<1>4. QED
  BY <1>3 DEF S

LEMMA SumsUnique ==
  ASSUME NEW f, NEW m \in Nat, NEW n \in Nat, NEW s, NEW h,
         Sums(s, f, m), Sums(h, f, n), NEW j \in 0..m, j <= n
  PROVE  s[j] = h[j]
<1> DEFINE S == {i \in 0..j : s[i] # h[i]}
<1> SUFFICES ASSUME S # {} PROVE FALSE
  OBVIOUS
<1>1. PICK i \in S : \A k \in S : i <= k
  <2>1. S \subseteq Nat
    OBVIOUS
  <2> HIDE DEF S
  <2>2. QED
    BY <2>1, NatMin
<1>2. i # 0
  BY DEF Sums
<1>3. i - 1 \in 0..j
  BY <1>2
<1>4. s[i - 1] = h[i - 1]
  BY <1>1, <1>3
<1>5. s[i] = s[i - 1] + f[i - 1] /\ h[i] = h[i - 1] + f[i - 1]
  BY <1>2 DEF Sums
<1>6. QED
  BY <1>4, <1>5

LEMMA SumToIs ==
  ASSUME NEW f, NEW n \in Nat
  PROVE  \E s : Sums(s, f, n) /\ \A i \in 0..n : SumTo(f, i) = s[i]
<1>1. PICK s : Sums(s, f, n)
  BY SumsExist
<1>2. ASSUME NEW i \in 0..n PROVE SumTo(f, i) = s[i]
  <2> DEFINE c == CHOOSE c : Sums(c, f, i)
  <2>1. SumTo(f, i) = c[i]
    BY DEF SumTo, Sums
  <2>2. Sums(c, f, i)
    <3>1. i \in Nat
      OBVIOUS
    <3>2. \E x : Sums(x, f, i)
      BY ONLY <3>1, SumsExist
    <3>3. QED
      BY <3>2
  <2> HIDE DEF c
  <2>3. c[i] = s[i]
    <3>1. i \in Nat /\ i \in 0..i /\ i <= n
      OBVIOUS
    <3>2. QED
      BY ONLY <1>1, <2>2, <3>1, n \in Nat, SumsUnique
  <2>4. QED
    BY <2>1, <2>3
<1>3. QED
  BY <1>1, <1>2

(* A sum adds its last term to the sum before.                              *)
LEMMA SumStep ==
  ASSUME NEW f
  PROVE  /\ SumTo(f, 0) = 0
         /\ \A n \in Nat : SumTo(f, n + 1) = SumTo(f, n) + f[n]
<1>1. ASSUME NEW n \in Nat
      PROVE  SumTo(f, 0) = 0 /\ SumTo(f, n + 1) = SumTo(f, n) + f[n]
  <2>1. PICK s : Sums(s, f, n + 1) /\ \A i \in 0..(n + 1) : SumTo(f, i) = s[i]
    BY SumToIs
  <2>2. 0 \in 0..(n + 1) /\ n \in 0..(n + 1) /\ n + 1 \in 0..(n + 1) /\ n + 1 # 0
        /\ (n + 1) - 1 = n
    OBVIOUS
  <2>3. s[0] = 0 /\ s[n + 1] = s[n] + f[n]
    BY <2>1, <2>2 DEF Sums
  <2>4. QED
    BY <2>1, <2>2, <2>3
<1>2. QED
  BY <1>1

(* Sums of the same terms are equal.                                        *)
LEMMA SumSame ==
  ASSUME NEW f, NEW g, NEW n \in Nat, \A k \in 0..(n - 1) : f[k] = g[k]
  PROVE  SumTo(f, n) = SumTo(g, n)
<1> DEFINE S == {m \in Nat : m <= n => SumTo(f, m) = SumTo(g, m)}
<1>1. 0 \in S
  BY SumStep
<1>2. ASSUME NEW m \in Nat, m \in S PROVE m + 1 \in S
  <2> SUFFICES ASSUME m + 1 <= n PROVE SumTo(f, m + 1) = SumTo(g, m + 1)
    OBVIOUS
  <2>1. f[m] = g[m] /\ SumTo(f, m) = SumTo(g, m)
    BY <1>2
  <2>2. QED
    BY <2>1, SumStep
<1> HIDE DEF S
<1>3. n \in S
  BY <1>1, <1>2, Induct
<1>4. QED
  BY <1>3 DEF S

(* Sums of naturals are naturals and do not fall.                           *)
LEMMA SumGrows ==
  ASSUME NEW f, NEW n \in Nat, \A k \in 0..(n - 1) : f[k] \in Nat
  PROVE  /\ \A i \in 0..n : SumTo(f, i) \in Nat
         /\ \A i, j \in 0..n : i <= j => SumTo(f, i) <= SumTo(f, j)
<1> DEFINE S == {m \in Nat : m <= n => /\ SumTo(f, m) \in Nat
                                       /\ \A i \in 0..m : SumTo(f, i) <= SumTo(f, m)}
<1>1. 0 \in S
  BY SumStep
<1>2. ASSUME NEW m \in Nat, m \in S PROVE m + 1 \in S
  <2> SUFFICES ASSUME m + 1 <= n
               PROVE  /\ SumTo(f, m + 1) \in Nat
                      /\ \A i \in 0..(m + 1) : SumTo(f, i) <= SumTo(f, m + 1)
    OBVIOUS
  <2>1. m \in 0..(n - 1) /\ m <= n
    OBVIOUS
  <2>2. f[m] \in Nat
    BY <2>1
  <2>3. SumTo(f, m) \in Nat /\ \A i \in 0..m : SumTo(f, i) <= SumTo(f, m)
    BY <1>2, <2>1
  <2>4. SumTo(f, m + 1) = SumTo(f, m) + f[m]
    BY SumStep
  <2>5. \A i \in 0..(m + 1) : i \in 0..m \/ i = m + 1
    OBVIOUS
  <2>6. \A i \in 0..m : SumTo(f, i) \in Nat
    <3> DEFINE T == {i \in Nat : i <= m => SumTo(f, i) \in Nat}
    <3>1. 0 \in T
      BY SumStep
    <3>2. ASSUME NEW i \in Nat, i \in T PROVE i + 1 \in T
      <4> SUFFICES ASSUME i + 1 <= m PROVE SumTo(f, i + 1) \in Nat
        OBVIOUS
      <4>1. SumTo(f, i) \in Nat /\ i \in 0..(n - 1)
        BY <3>2, <2>1
      <4>2. SumTo(f, i + 1) = SumTo(f, i) + f[i]
        BY SumStep
      <4>3. QED
        BY <4>1, <4>2
    <3> HIDE DEF T
    <3>3. Nat \subseteq T
      BY <3>1, <3>2, Induct
    <3>4. QED
      BY <3>3 DEF T
  <2>7. \A i \in 0..m : SumTo(f, i) <= SumTo(f, m) + f[m]
    BY <2>2, <2>3, <2>6
  <2>8. QED
    BY <2>2, <2>3, <2>4, <2>5, <2>7
<1> HIDE DEF S
<1>3. Nat \subseteq S
  BY <1>1, <1>2, Induct
<1>4. \A m \in 0..n : SumTo(f, m) \in Nat /\ \A i \in 0..m : SumTo(f, i) <= SumTo(f, m)
  BY <1>3 DEF S
<1>5. \A i, j \in 0..n : i <= j => i \in 0..j
  OBVIOUS
<1>6. QED
  BY <1>4, <1>5

(* What lies below a sum lies in exactly one of its terms.                  *)
LEMMA SumSpread ==
  ASSUME NEW f, NEW n \in Nat, \A k \in 0..(n - 1) : f[k] \in Nat,
         NEW a \in 0..n, NEW x \in Nat, SumTo(f, a) <= x, x < SumTo(f, n)
  PROVE  \E i \in a..(n - 1) : SumTo(f, i) <= x /\ x < SumTo(f, i + 1)
<1> DEFINE S == {m \in a..n : x < SumTo(f, m)}
<1>1. n \in S
  OBVIOUS
<1>2. PICK m \in S : \A y \in S : m <= y
  <2>1. S \subseteq Nat
    OBVIOUS
  <2> HIDE DEF S
  <2>2. QED
    BY <1>1, <2>1, NatMin
<1>3. SumTo(f, a) \in Nat /\ SumTo(f, m) \in Nat
  BY SumGrows
<1>4. m # a
  BY <1>3
<1>5. m - 1 \in a..(n - 1) /\ m - 1 \in 0..n /\ (m - 1) + 1 = m
  BY <1>4
<1>6. ~(x < SumTo(f, m - 1))
  BY <1>2, <1>5
<1>7. SumTo(f, m - 1) \in Nat
  BY <1>5, SumGrows
<1>8. QED
  BY <1>5, <1>6, <1>7

LEMMA SumPlace ==
  ASSUME NEW f, NEW n \in Nat, \A k \in 0..(n - 1) : f[k] \in Nat,
         NEW i \in 0..(n - 1), NEW j \in 0..(n - 1), NEW x \in Nat,
         SumTo(f, i) <= x, x < SumTo(f, i + 1), SumTo(f, j) <= x, x < SumTo(f, j + 1)
  PROVE  i = j
<1>1. /\ i \in 0..n /\ i + 1 \in 0..n /\ j \in 0..n /\ j + 1 \in 0..n
  OBVIOUS
<1>2. /\ SumTo(f, i) \in Nat /\ SumTo(f, i + 1) \in Nat
      /\ SumTo(f, j) \in Nat /\ SumTo(f, j + 1) \in Nat
      /\ i + 1 <= j => SumTo(f, i + 1) <= SumTo(f, j)
      /\ j + 1 <= i => SumTo(f, j + 1) <= SumTo(f, i)
  BY <1>1, SumGrows
<1>3. QED
  BY <1>2

-----------------------------------------------------------------------------
(* Batches.                                                                 *)

Ready(b) == launch \in Launches /\ b \in Batches(launch)

Reqs(b) == Len(b.reqs)

LEMMA LaunchTyped ==
  ASSUME launch \in Launches
  PROVE  /\ KPool \in Nat \ {0} /\ Workspace \in Nat \ {0} /\ MaxLogits \in Nat \ {0}
         /\ Factor \in Nat \ {0} /\ NumSpec \in Nat /\ NextN \in Nat \ {0}
         /\ DeepGemm \in BOOLEAN /\ TopK \in Nat /\ TopK % KPool = 0
         /\ MaxTokens \in Nat \ {0} /\ MaxSteps \in Nat
<1>1. /\ {launch.kpool, launch.workspace, launch.maxLogits, launch.factor} \subseteq Nat \ {0}
      /\ launch.spec \in Nat /\ launch.deepGemm \in BOOLEAN
      /\ launch.topk \in Nat /\ launch.topk % launch.kpool = 0
  BY SelectAssumption
<1>2. MaxTokens \in Nat \ {0} /\ MaxSteps \in Nat
  BY SelectAssumption
<1>3. QED
  BY <1>1, <1>2 DEF KPool, Workspace, MaxLogits, Factor, NumSpec, NextN, DeepGemm, TopK

LEMMA BatchTyped ==
  ASSUME NEW b, Ready(b)
  PROVE  /\ Reqs(b) \in Nat \ {0} /\ b.pads \in Nat
         /\ Rows(b) = Reqs(b) + b.pads /\ Rows(b) \in Nat \ {0} /\ Reqs(b) <= Rows(b)
         /\ \A i \in 0..(Reqs(b) - 1) :
              /\ Q(b, i) = b.reqs[i + 1].q /\ Seq_(b, i) = b.reqs[i + 1].seq
              /\ Ub(b, i) = b.reqs[i + 1].ub
              /\ Q(b, i) \in Nat \ {0} /\ Seq_(b, i) \in Nat /\ Ub(b, i) \in Nat
              /\ Q(b, i) <= Seq_(b, i) /\ Seq_(b, i) <= Ub(b, i)
              /\ Pooled(Ub(b, i)) <= Workspace
              /\ b.pads > 0 => Q(b, i) = Q(b, 0) /\ Q(b, i) <= NextN
         /\ \A i \in Reqs(b)..(Rows(b) - 1) :
              Q(b, i) = 0 /\ Seq_(b, i) = 0 /\ Ub(b, i) = 0
         /\ b.tokens <= MaxTokens
         /\ b.pads = 0 => b.tokens = Loc(b, Reqs(b))
         /\ b.pads > 0 => b.tokens = Rows(b) * Q(b, 0)
<1>1. WellFormed(launch, b)
  BY BatchAssumption DEF Ready
<1>2. Reqs(b) \in Nat \ {0} /\ b.pads \in Nat
  BY <1>1 DEF WellFormed, Reqs
<1>3. Rows(b) = Reqs(b) + b.pads
  BY DEF Rows, Reqs
<1>4. Rows(b) \in Nat \ {0} /\ Reqs(b) <= Rows(b)
  BY <1>2, <1>3
<1>5. \A i \in 0..(Reqs(b) - 1) :
        /\ Q(b, i) = b.reqs[i + 1].q /\ Seq_(b, i) = b.reqs[i + 1].seq
        /\ Ub(b, i) = b.reqs[i + 1].ub
  BY <1>2 DEF Q, Seq_, Ub, Reqs
<1>6. \A i \in 1..Reqs(b) :
        /\ b.reqs[i].q \in Nat \ {0} /\ b.reqs[i].seq \in Nat /\ b.reqs[i].ub \in Nat
        /\ b.reqs[i].q <= b.reqs[i].seq /\ b.reqs[i].seq <= b.reqs[i].ub
        /\ b.reqs[i].ub \div launch.kpool <= launch.workspace
        /\ b.pads > 0 => b.reqs[i].q = b.reqs[1].q /\ b.reqs[i].q <= launch.spec + 1
  BY <1>1 DEF WellFormed, Reqs
<1>7. \A i \in 0..(Reqs(b) - 1) : i + 1 \in 1..Reqs(b)
  BY <1>2
<1>8. Q(b, 0) = b.reqs[1].q
  BY <1>2, <1>5
<1>9. \A i \in 0..(Reqs(b) - 1) :
              /\ Q(b, i) \in Nat \ {0} /\ Seq_(b, i) \in Nat /\ Ub(b, i) \in Nat
              /\ Q(b, i) <= Seq_(b, i) /\ Seq_(b, i) <= Ub(b, i)
              /\ Pooled(Ub(b, i)) <= Workspace
              /\ b.pads > 0 => Q(b, i) = Q(b, 0) /\ Q(b, i) <= NextN
  BY <1>5, <1>6, <1>7, <1>8 DEF Pooled, KPool, Workspace, NextN, NumSpec
<1>10. \A i \in Reqs(b)..(Rows(b) - 1) : Q(b, i) = 0 /\ Seq_(b, i) = 0 /\ Ub(b, i) = 0
  BY <1>2, <1>4 DEF Q, Seq_, Ub, Reqs
<1>11. /\ b.tokens <= MaxTokens
       /\ b.pads = 0 => b.tokens = Loc(b, Reqs(b))
       /\ b.pads > 0 => b.tokens = Rows(b) * Q(b, 0)
  BY <1>1, <1>2, <1>8 DEF WellFormed, Reqs
<1>12. QED
  BY <1>2, <1>3, <1>4, <1>5, <1>9, <1>10, <1>11

LEMMA Token ==
  ASSUME NEW b, Ready(b), NEW i \in 0..(Rows(b) - 1)
  PROVE  Q(b, i) \in Nat /\ Seq_(b, i) \in Nat /\ Ub(b, i) \in Nat
         /\ Seq_(b, i) <= Ub(b, i)
  BY BatchTyped

(* Tokens lie behind one another, request by request.                       *)
LEMMA LocTyped ==
  ASSUME NEW b, Ready(b)
  PROVE  /\ Loc(b, 0) = 0
         /\ \A i \in 0..(Rows(b) - 1) : Loc(b, i + 1) = Loc(b, i) + Q(b, i)
         /\ \A i \in 0..Rows(b) : Loc(b, i) \in Nat
         /\ \A i, j \in 0..Rows(b) : i <= j => Loc(b, i) <= Loc(b, j)
<1> DEFINE f == [k \in Below(Rows(b)) |-> Q(b, k)]
<1>1. \A i : Loc(b, i) = SumTo(f, i)
  BY DEF Loc
<1>2. Rows(b) \in Nat /\ \A k \in 0..(Rows(b) - 1) : Q(b, k) \in Nat
  BY BatchTyped, Token
<1>3. \A k \in 0..(Rows(b) - 1) : f[k] = Q(b, k)
  BY DEF Below
<1> HIDE DEF f
<1>4. \A k \in 0..(Rows(b) - 1) : f[k] \in Nat
  BY <1>2, <1>3
<1>5. /\ \A i \in 0..Rows(b) : SumTo(f, i) \in Nat
      /\ \A i, j \in 0..Rows(b) : i <= j => SumTo(f, i) <= SumTo(f, j)
  BY <1>2, <1>4, SumGrows
<1>6. \A i \in 0..(Rows(b) - 1) : SumTo(f, i + 1) = SumTo(f, i) + f[i]
  BY <1>2, SumStep
<1>7. SumTo(f, 0) = 0
  BY SumStep
<1>8. QED
  BY <1>1, <1>3, <1>5, <1>6, <1>7

LEMMA PadLoc ==
  ASSUME NEW b, Ready(b)
  PROVE  /\ \A i \in Reqs(b)..Rows(b) : Loc(b, i) = Loc(b, Reqs(b))
         /\ \A i \in 0..Reqs(b) : i <= Loc(b, i)
<1>1. Reqs(b) \in Nat \ {0} /\ Rows(b) \in Nat \ {0} /\ Reqs(b) <= Rows(b)
  BY BatchTyped
<1>2. \A i \in Reqs(b)..Rows(b) : Loc(b, i) = Loc(b, Reqs(b))
  <2> DEFINE S == {m \in Nat : Reqs(b) + m <= Rows(b) => Loc(b, Reqs(b) + m) = Loc(b, Reqs(b))}
  <2>1. 0 \in S
    BY <1>1
  <2>2. ASSUME NEW m \in Nat, m \in S PROVE m + 1 \in S
    <3> SUFFICES ASSUME Reqs(b) + (m + 1) <= Rows(b)
                 PROVE  Loc(b, Reqs(b) + (m + 1)) = Loc(b, Reqs(b))
      OBVIOUS
    <3>1. PICK i \in Reqs(b)..(Rows(b) - 1) : i = Reqs(b) + m /\ i + 1 = Reqs(b) + (m + 1)
      BY <1>1
    <3>2. i \in 0..(Rows(b) - 1) /\ i \in 0..Rows(b)
      BY <1>1
    <3>3. Loc(b, i + 1) = Loc(b, i) + Q(b, i) /\ Q(b, i) = 0 /\ Loc(b, i) \in Nat
      BY <3>2, LocTyped, BatchTyped
    <3>4. Loc(b, i) = Loc(b, Reqs(b))
      BY <2>2, <3>1, <3>2, <1>1
    <3>5. QED
      BY <3>1, <3>3, <3>4
  <2> HIDE DEF S
  <2>3. Nat \subseteq S
    BY <2>1, <2>2, Induct
  <2>4. \A i \in Reqs(b)..Rows(b) : i - Reqs(b) \in Nat /\ Reqs(b) + (i - Reqs(b)) = i
    BY <1>1
  <2>5. QED
    BY <2>3, <2>4, <1>1 DEF S
<1>3. \A i \in 0..Reqs(b) : i <= Loc(b, i)
  <2> DEFINE S == {m \in Nat : m <= Reqs(b) => m <= Loc(b, m)}
  <2>1. 0 \in S
    BY LocTyped
  <2>2. ASSUME NEW m \in Nat, m \in S PROVE m + 1 \in S
    <3> SUFFICES ASSUME m + 1 <= Reqs(b) PROVE m + 1 <= Loc(b, m + 1)
      OBVIOUS
    <3>1. m \in 0..(Rows(b) - 1) /\ m \in 0..Rows(b) /\ m \in 0..(Reqs(b) - 1)
      BY <1>1
    <3>2. Loc(b, m + 1) = Loc(b, m) + Q(b, m) /\ Loc(b, m) \in Nat
      BY <3>1, LocTyped
    <3>3. Q(b, m) \in Nat \ {0}
      BY <3>1, BatchTyped
    <3>4. m <= Loc(b, m)
      BY <1>1, <2>2
    <3>5. QED
      BY <3>2, <3>3, <3>4
  <2> HIDE DEF S
  <2>3. Nat \subseteq S
    BY <2>1, <2>2, Induct
  <2>4. QED
    BY <2>3 DEF S
<1>4. QED
  BY <1>2, <1>3

(* The rows and tokens of a batch fit the buffers.                          *)
LEMMA BatchSize ==
  ASSUME NEW b, Ready(b)
  PROVE  /\ b.tokens \in Nat /\ Rows(b) <= b.tokens /\ b.tokens <= MaxTokens
         /\ Loc(b, Reqs(b)) <= b.tokens /\ Loc(b, Reqs(b)) \in Nat
         /\ b.pads = 0 => b.tokens = Loc(b, Rows(b)) /\ Rows(b) = Reqs(b)
<1>1. /\ Reqs(b) \in Nat \ {0} /\ Rows(b) \in Nat \ {0} /\ Reqs(b) <= Rows(b)
      /\ Rows(b) = Reqs(b) + b.pads /\ b.pads \in Nat /\ b.tokens <= MaxTokens
  BY BatchTyped
<1>2. Reqs(b) \in 0..Reqs(b) /\ Reqs(b) \in 0..Rows(b) /\ 0 \in 0..(Reqs(b) - 1)
  BY <1>1
<1>3. Reqs(b) <= Loc(b, Reqs(b)) /\ Loc(b, Reqs(b)) \in Nat
  BY <1>2, PadLoc, LocTyped
<1>4. CASE b.pads = 0
  <2>1. b.tokens = Loc(b, Reqs(b)) /\ Rows(b) = Reqs(b)
    BY <1>1, <1>4, BatchTyped
  <2>2. QED
    BY <1>1, <1>3, <1>4, <2>1
<1>5. CASE b.pads > 0
  <2> DEFINE q == Q(b, 0)
  <2>1. q \in Nat \ {0} /\ b.tokens = Rows(b) * q /\ \A i \in 0..(Reqs(b) - 1) : Q(b, i) = q
    BY <1>2, <1>5, BatchTyped
  <2> HIDE DEF q
  <2>2. \A i \in 0..Reqs(b) : Loc(b, i) = i * q
    <3> DEFINE S == {m \in Nat : m <= Reqs(b) => Loc(b, m) = m * q}
    <3>1. 0 \in S
      BY LocTyped, <2>1
    <3>2. ASSUME NEW m \in Nat, m \in S PROVE m + 1 \in S
      <4> SUFFICES ASSUME m + 1 <= Reqs(b) PROVE Loc(b, m + 1) = (m + 1) * q
        OBVIOUS
      <4>1. m \in 0..(Rows(b) - 1) /\ m \in 0..(Reqs(b) - 1)
        BY <1>1
      <4>2. Loc(b, m + 1) = Loc(b, m) + Q(b, m) /\ Q(b, m) = q /\ Loc(b, m) = m * q
        <5>1. Loc(b, m) = m * q
          BY <1>1, <3>2
        <5>2. Loc(b, m + 1) = Loc(b, m) + Q(b, m)
          BY <4>1, LocTyped
        <5>3. QED
          BY <4>1, <5>1, <5>2, <2>1
      <4>3. (m + 1) * q = m * q + q
        BY <2>1
      <4>4. QED
        BY <4>2, <4>3
    <3> HIDE DEF S
    <3>3. Nat \subseteq S
      BY <3>1, <3>2, Induct
    <3>4. QED
      BY <3>3 DEF S
  <2>3. Loc(b, Reqs(b)) = Reqs(b) * q
    BY <1>2, <2>2
  <2>4. \A m \in Nat : m * q \in Nat /\ m <= m * q
    <3> SUFFICES ASSUME NEW m \in Nat PROVE m * q \in Nat /\ m <= m * q
      OBVIOUS
    <3>1. q = 1 \/ 1 < q
      BY <2>1
    <3>2. 1 < q => 1 * m + m <= q * m
      BY <2>1, MulMono
    <3>3. q * m = m * q /\ m * q \in Nat
      BY <2>1
    <3>4. QED
      BY <3>1, <3>2, <3>3
  <2>5. Reqs(b) * q <= Rows(b) * q
    <3>1. Reqs(b) = Rows(b) \/ Reqs(b) < Rows(b)
      BY <1>1
    <3>2. Reqs(b) < Rows(b) => Reqs(b) * q + q <= Rows(b) * q
      BY <1>1, <2>1, MulMono
    <3>3. Reqs(b) * q \in Nat /\ Rows(b) * q \in Nat
      BY <1>1, <2>4
    <3>4. QED
      BY <3>1, <3>2, <3>3, <2>1
  <2>6. QED
    BY <1>1, <1>3, <1>5, <2>1, <2>3, <2>4, <2>5
<1>6. QED
  BY <1>1, <1>4, <1>5

(* Row i has token t.                                                       *)
Holds(b, i, t) == Loc(b, i) <= t /\ t < Loc(b, i + 1)

LEMMA LocSpread ==
  ASSUME NEW b, Ready(b), NEW t \in Nat, NEW n \in 0..Rows(b), t < Loc(b, n)
  PROVE  \E i \in 0..(n - 1) : Holds(b, i, t)
<1> DEFINE f == [k \in Below(Rows(b)) |-> Q(b, k)]
<1>1. \A i : Loc(b, i) = SumTo(f, i)
  BY DEF Loc
<1>2. Rows(b) \in Nat /\ \A k \in 0..(Rows(b) - 1) : Q(b, k) \in Nat
  BY BatchTyped, Token
<1>3. \A k \in 0..(Rows(b) - 1) : f[k] = Q(b, k)
  BY DEF Below
<1> HIDE DEF f
<1>4. n \in Nat /\ \A k \in 0..(n - 1) : f[k] \in Nat
  BY <1>2, <1>3
<1>5. 0 \in 0..n /\ SumTo(f, 0) <= t /\ t < SumTo(f, n)
  BY <1>1, <1>4, SumStep
<1>6. \E i \in 0..(n - 1) : SumTo(f, i) <= t /\ t < SumTo(f, i + 1)
  BY <1>4, <1>5, SumSpread
<1>7. QED
  BY <1>1, <1>6 DEF Holds

LEMMA LocPlace ==
  ASSUME NEW b, Ready(b), NEW t \in Nat, NEW i \in 0..(Rows(b) - 1), NEW j \in 0..(Rows(b) - 1),
         Holds(b, i, t), Holds(b, j, t)
  PROVE  i = j
<1>1. /\ i \in 0..Rows(b) /\ i + 1 \in 0..Rows(b) /\ j \in 0..Rows(b) /\ j + 1 \in 0..Rows(b)
  BY BatchTyped
<1>2. /\ Loc(b, i) \in Nat /\ Loc(b, i + 1) \in Nat /\ Loc(b, j) \in Nat /\ Loc(b, j + 1) \in Nat
      /\ i + 1 <= j => Loc(b, i + 1) <= Loc(b, j)
      /\ j + 1 <= i => Loc(b, j + 1) <= Loc(b, i)
  BY <1>1, LocTyped
<1>3. QED
  BY <1>2 DEF Holds

(* The row and the position of a token.                                     *)
LEMMA RowOfIs ==
  ASSUME NEW b, Ready(b), NEW t \in Nat, t < Loc(b, Reqs(b))
  PROVE  /\ RowOf(b, t) \in 0..(Reqs(b) - 1) /\ Holds(b, RowOf(b, t), t)
         /\ \A i \in 0..(Rows(b) - 1) : Holds(b, i, t) => i = RowOf(b, t)
<1>1. /\ Reqs(b) \in Nat \ {0} /\ Rows(b) \in Nat \ {0} /\ Reqs(b) <= Rows(b)
  BY BatchTyped
<1>2. \E i \in 0..(Reqs(b) - 1) : Holds(b, i, t)
  BY <1>1, LocSpread
<1>3. RowOf(b, t) = CHOOSE i \in 0..(Reqs(b) - 1) : Holds(b, i, t)
  BY DEF RowOf, Below, Reqs, Holds
<1>4. RowOf(b, t) \in 0..(Reqs(b) - 1) /\ Holds(b, RowOf(b, t), t)
  BY <1>2, <1>3
<1>5. RowOf(b, t) \in 0..(Rows(b) - 1)
  BY <1>1, <1>4
<1>6. QED
  BY <1>4, <1>5, LocPlace

LEMMA PositionIs ==
  ASSUME NEW b, Ready(b), NEW t \in Nat, NEW i \in 0..(Reqs(b) - 1), Holds(b, i, t)
  PROVE  /\ RowOf(b, t) = i /\ t < Loc(b, Reqs(b)) /\ t < Loc(b, i) + Q(b, i)
         /\ Position(b, t) = (Seq_(b, i) - Q(b, i)) + (t - Loc(b, i))
         /\ Position(b, t) \in Nat /\ Position(b, t) < Seq_(b, i)
<1>1. /\ Reqs(b) \in Nat \ {0} /\ Rows(b) \in Nat \ {0} /\ Reqs(b) <= Rows(b)
  BY BatchTyped
<1>2. i \in 0..(Rows(b) - 1) /\ i \in 0..Rows(b) /\ i + 1 \in 0..Rows(b) /\ Reqs(b) \in 0..Rows(b)
      /\ i + 1 <= Reqs(b)
  BY <1>1
<1>3. Loc(b, i + 1) <= Loc(b, Reqs(b)) /\ Loc(b, i + 1) = Loc(b, i) + Q(b, i)
      /\ Loc(b, i) \in Nat /\ Loc(b, i + 1) \in Nat /\ Loc(b, Reqs(b)) \in Nat
  BY <1>2, LocTyped
<1>4. t < Loc(b, Reqs(b)) /\ t < Loc(b, i) + Q(b, i) /\ Loc(b, i) <= t
  BY <1>3 DEF Holds
<1>5. RowOf(b, t) = i
  BY <1>2, <1>4, RowOfIs
<1>6. Q(b, i) \in Nat \ {0} /\ Seq_(b, i) \in Nat /\ Q(b, i) <= Seq_(b, i)
  BY BatchTyped
<1>7. Position(b, t) = (Seq_(b, i) - Q(b, i)) + (t - Loc(b, i))
  BY <1>5 DEF Position
<1>8. QED
  BY <1>3, <1>4, <1>5, <1>6, <1>7

-----------------------------------------------------------------------------
(* The split into decodes and prefills.                                     *)

LEMMA DecodesTyped ==
  ASSUME NEW b, Ready(b)
  PROVE  /\ NumDecodes(b) \in 0..Rows(b)
         /\ NumDecodes(b) < Rows(b) => b.pads = 0 /\ Rows(b) = Reqs(b)
         /\ \A i \in 0..(NumDecodes(b) - 1) :
              \/ (UseFlattening \/ NextN = 1) /\ Q(b, i) <= NextN
              \/ NextN = 2 /\ Q(b, 0) <= NextN /\ Q(b, i) \in {0, Q(b, 0)}
         /\ \A i \in 0..(Reqs(b) - 1) : Leading(launch, b, i + 1) => i < NumDecodes(b)
<1> DEFINE D == NumDecodes(b)
           R == Rows(b)
           Flat == UseFlattening \/ NextN = 1
           P(i) == \/ Flat /\ Q(b, i) <= NextN
                   \/ Q(b, 0) <= NextN /\ Q(b, i) \in {0, Q(b, 0)}
           Allowed(i) == \/ Flat /\ Q(b, i) <= NextN
                         \/ NextN = 2 /\ Q(b, 0) <= NextN /\ Q(b, i) \in {0, Q(b, 0)}
<1>1. /\ Reqs(b) \in Nat \ {0} /\ R \in Nat \ {0} /\ Reqs(b) <= R
      /\ b.pads \in Nat /\ R = Reqs(b) + b.pads
      /\ \A i \in 0..(Reqs(b) - 1) : Q(b, i) \in Nat \ {0}
      /\ \A i \in Reqs(b)..(R - 1) : Q(b, i) = 0
      /\ b.pads > 0 => \A i \in 0..(Reqs(b) - 1) : Q(b, i) = Q(b, 0) /\ Q(b, i) <= NextN
  BY BatchTyped
<1>2. NextN \in Nat \ {0} /\ (~Flat => NextN = 2) /\ NextN = launch.spec + 1 /\ launch.spec \in Nat
  BY LaunchTyped DEF UseFlattening, Ready, NextN, NumSpec
<1>3. \A i \in 0..(R - 1) : Q(b, i) \in Nat
  BY Token
<1>4. 0 \in 0..(R - 1) /\ 0 \in 0..(Reqs(b) - 1)
  BY <1>1
<1>5. D = CASE \A i \in Below(R) : P(i) -> R
            [] Q(b, 0) > NextN -> 0
            [] OTHER -> CHOOSE n \in 0..R : /\ \A i \in Below(n) : DecodeRow(b, i)
                                            /\ n < R => ~DecodeRow(b, n)
  BY DEF NumDecodes
<1>6. \A i \in 0..(R - 1) : P(i) => Allowed(i)
  BY <1>2, <1>3, <1>4
<1>7. b.pads > 0 => \A i \in Below(R) : P(i)
  <2> SUFFICES ASSUME b.pads > 0, NEW i \in 0..(R - 1) PROVE P(i)
    BY DEF Below
  <2>1. i \in 0..(Reqs(b) - 1) \/ i \in Reqs(b)..(R - 1)
    BY <1>1
  <2>2. Q(b, 0) <= NextN
    BY <1>1, <1>4
  <2>3. QED
    BY <1>1, <2>1, <2>2
<1>8. \A i \in 0..(Reqs(b) - 1) : Leading(launch, b, i + 1) =>
        \A j \in 0..i : /\ Q(b, j) <= NextN
                        /\ NextN = 2 => Q(b, j) = Q(b, 0)
  <2> SUFFICES ASSUME NEW i \in 0..(Reqs(b) - 1), Leading(launch, b, i + 1), NEW j \in 0..i
               PROVE  Q(b, j) <= NextN /\ (NextN = 2 => Q(b, j) = Q(b, 0))
    OBVIOUS
  <2>1. j + 1 \in 1..(i + 1) /\ j \in 0..(Reqs(b) - 1)
    BY <1>1
  <2>2. b.reqs[j + 1].q <= launch.spec + 1 /\ (launch.spec = 1 => b.reqs[j + 1].q = b.reqs[1].q)
    BY <2>1 DEF Leading
  <2>3. Q(b, j) = b.reqs[j + 1].q /\ Q(b, 0) = b.reqs[0 + 1].q
    BY <2>1, <1>4, BatchTyped
  <2>4. QED
    BY <1>2, <2>2, <2>3
<1> HIDE DEF D
<1>9. CASE \A i \in Below(R) : P(i)
  <2>1. D = R
    <3>1. ~(Q(b, 0) > NextN)
      BY <1>2, <1>3, <1>4, <1>9 DEF Below
    <3> HIDE DEF P, Flat
    <3>2. QED
      BY <1>5, <1>9, <3>1
  <2>2. \A i \in 0..(R - 1) : Allowed(i)
    BY <1>6, <1>9 DEF Below
  <2>3. QED
    BY <1>1, <2>1, <2>2 DEF D
<1>10. CASE ~(\A i \in Below(R) : P(i)) /\ Q(b, 0) > NextN
  <2>1. D = 0
    BY <1>5, <1>10
  <2>2. \A i \in 0..(Reqs(b) - 1) : ~Leading(launch, b, i + 1)
    BY <1>1, <1>2, <1>4, <1>8, <1>10
  <2>3. b.pads = 0
    BY <1>1, <1>7, <1>10
  <2>4. QED
    BY <1>1, <2>1, <2>2, <2>3 DEF D
<1>11. CASE ~(\A i \in Below(R) : P(i)) /\ ~(Q(b, 0) > NextN)
  <2> DEFINE First(n) == (\A i \in Below(n) : DecodeRow(b, i)) /\ (n < R => ~DecodeRow(b, n))
  <2>1. \E n \in 0..R : First(n)
    <3> DEFINE S == {m \in 0..R : m = R \/ ~DecodeRow(b, m)}
    <3>1. R \in S
      BY <1>1
    <3>2. PICK m \in S : \A y \in S : m <= y
      <4>1. S \subseteq Nat
        OBVIOUS
      <4> HIDE DEF S
      <4>2. QED
        BY <3>1, <4>1, NatMin
    <3>3. \A i \in Below(m) : DecodeRow(b, i)
      <4> SUFFICES ASSUME NEW i \in 0..(m - 1) PROVE DecodeRow(b, i)
        BY DEF Below
      <4>1. m \in 0..R /\ ~(m <= i) /\ i \in 0..R /\ i # R
        BY <1>1
      <4>2. i \notin S
        BY <3>2, <4>1
      <4>3. QED
        BY <4>1, <4>2
    <3>4. QED
      BY <3>2, <3>3
  <2>2. D = CHOOSE n \in 0..R : First(n)
    BY <1>5, <1>11
  <2>3. D \in 0..R /\ First(D)
    BY <2>1, <2>2
  <2>4. \A i \in 0..(D - 1) : Allowed(i)
    <3> SUFFICES ASSUME NEW i \in 0..(D - 1) PROVE Allowed(i)
      OBVIOUS
    <3>1. DecodeRow(b, i)
      BY <2>3 DEF Below
    <3>2. QED
      BY <1>1, <1>2, <1>3, <1>4, <1>11, <3>1 DEF DecodeRow
  <2>5. \A i \in 0..(Reqs(b) - 1) : Leading(launch, b, i + 1) => i < D
    <3> SUFFICES ASSUME NEW i \in 0..(Reqs(b) - 1), Leading(launch, b, i + 1), D <= i
                 PROVE  FALSE
      BY <2>3, <1>1
    <3>1. D < R /\ D \in 0..i
      BY <2>3, <1>1
    <3>2. ~DecodeRow(b, D)
      BY <2>3, <3>1
    <3>3. Q(b, D) <= NextN /\ (NextN = 2 => Q(b, D) = Q(b, 0))
      BY <1>8, <3>1
    <3>4. QED
      BY <1>2, <3>2, <3>3 DEF DecodeRow
  <2>6. b.pads = 0 /\ R = Reqs(b)
    BY <1>1, <1>7, <1>11
  <2>7. QED
    BY <2>3, <2>4, <2>5, <2>6 DEF D
<1>12. QED
  BY <1>9, <1>10, <1>11

(* Without padding the decodes' tokens are those of the rows in front.      *)
LEMMA DecodeTokensTyped ==
  ASSUME NEW b, Ready(b)
  PROVE  /\ DecodeTokens(b) \in Nat /\ DecodeTokens(b) <= b.tokens
         /\ Loc(b, NumDecodes(b)) <= DecodeTokens(b) /\ Loc(b, NumDecodes(b)) \in Nat
         /\ b.pads = 0 => DecodeTokens(b) = Loc(b, NumDecodes(b))
         /\ Loc(b, NumDecodes(b)) <= Loc(b, Reqs(b))
         /\ NumDecodes(b) <= DecodeTokens(b)
<1>1. /\ Reqs(b) \in Nat \ {0} /\ Rows(b) \in Nat \ {0} /\ Reqs(b) <= Rows(b)
      /\ NumDecodes(b) \in 0..Rows(b)
      /\ NumDecodes(b) < Rows(b) => b.pads = 0 /\ Rows(b) = Reqs(b)
  BY BatchTyped, DecodesTyped
<1>2. /\ b.tokens \in Nat /\ Loc(b, Reqs(b)) <= b.tokens /\ Loc(b, Reqs(b)) \in Nat
      /\ b.pads = 0 => b.tokens = Loc(b, Rows(b)) /\ Rows(b) = Reqs(b)
      /\ Rows(b) <= b.tokens
  BY BatchSize
<1>3. Reqs(b) \in 0..Rows(b) /\ Rows(b) \in 0..Rows(b) /\ Rows(b) \in Reqs(b)..Rows(b)
  BY <1>1
<1>4. Loc(b, NumDecodes(b)) <= Loc(b, Rows(b)) /\ Loc(b, Rows(b)) = Loc(b, Reqs(b))
      /\ Loc(b, NumDecodes(b)) \in Nat
  BY <1>1, <1>3, LocTyped, PadLoc
<1>5. CASE NumDecodes(b) = Rows(b)
  BY <1>1, <1>2, <1>4, <1>5 DEF DecodeTokens
<1>6. CASE NumDecodes(b) # Rows(b)
  <2>1. DecodeTokens(b) = Loc(b, NumDecodes(b))
    BY <1>6 DEF DecodeTokens
  <2>2. NumDecodes(b) \in 0..Reqs(b)
    BY <1>1, <1>6
  <2>3. NumDecodes(b) <= Loc(b, NumDecodes(b))
    BY <2>2, PadLoc
  <2>4. QED
    BY <1>1, <1>2, <1>4, <2>1, <2>3
<1>7. QED
  BY <1>5, <1>6

-----------------------------------------------------------------------------
(* The lengths of the decodes.                                              *)

LEMMA MaxIs ==
  ASSUME NEW S, S \subseteq Nat, S # {}, NEW m \in Nat, \A x \in S : x <= m
  PROVE  Max(S) \in S /\ \A x \in S : x <= Max(S)
<1> DEFINE T == {k \in Nat : \E x \in S : k = m - x}
<1>1. T # {}
  <2>1. PICK x \in S : TRUE
    OBVIOUS
  <2>2. m - x \in T
    BY <2>1
  <2>3. QED
    BY <2>2
<1>2. PICK k \in T : \A j \in T : k <= j
  <2>1. T \subseteq Nat
    OBVIOUS
  <2> HIDE DEF T
  <2>2. QED
    BY <1>1, <2>1, NatMin
<1>3. PICK x \in S : k = m - x
  BY <1>2
<1>4. \A y \in S : y <= x
  <2> SUFFICES ASSUME NEW y \in S PROVE y <= x
    OBVIOUS
  <2>1. m - y \in T
    OBVIOUS
  <2>2. k <= m - y
    BY <1>2, <2>1
  <2>3. QED
    BY <1>3, <2>2
<1>5. \E a \in S : \A y \in S : a >= y
  BY <1>4
<1>6. Max(S) \in S /\ \A y \in S : Max(S) >= y
  BY <1>5 DEF Max
<1>7. QED
  BY <1>6

LEMMA MinIs ==
  ASSUME NEW S, S \subseteq Nat, S # {}
  PROVE  Min(S) \in S /\ \A x \in S : Min(S) <= x
<1>1. \E a \in S : \A y \in S : a <= y
  BY NatMin
<1>2. QED
  BY <1>1 DEF Min

LEMMA LensTyped ==
  ASSUME NEW b, Ready(b), NumDecodes(b) > 0
  PROVE  /\ MaxLen(b) \in Nat \ {0} /\ MinLen(b) \in Nat /\ MaxLen(b) <= NextN
         /\ \A i \in 0..(NumDecodes(b) - 1) :
              Q(b, i) \in Nat /\ MinLen(b) <= Q(b, i) /\ Q(b, i) <= MaxLen(b)
         /\ \E i \in 0..(NumDecodes(b) - 1) : MinLen(b) = Q(b, i)
         /\ \E i \in 0..(NumDecodes(b) - 1) : MaxLen(b) = Q(b, i)
<1> DEFINE S == Range(DecodeLens(b))
           D == NumDecodes(b)
<1>1. D \in 0..Rows(b) /\ Rows(b) \in Nat /\ Reqs(b) \in Nat \ {0} /\ Reqs(b) <= Rows(b)
  BY DecodesTyped, BatchTyped
<1>2. NextN \in Nat \ {0}
  BY LaunchTyped DEF Ready
<1>3. \A i \in 0..(D - 1) : Q(b, i) \in Nat
  BY <1>1, Token
<1>4. 0 \in 0..(D - 1) /\ 0 \in 0..(Reqs(b) - 1)
  BY <1>1
<1>5. Q(b, 0) \in Nat \ {0}
  BY <1>4, BatchTyped
<1>6. \A i \in 0..(D - 1) : Q(b, i) <= NextN
  BY <1>2, <1>3, <1>4, DecodesTyped
<1>7. S = {Q(b, i) : i \in 0..(D - 1)}
  BY DEF Range, DecodeLens, Below
<1> HIDE DEF S, D
<1>8. S \subseteq Nat /\ S # {} /\ \A x \in S : x <= NextN
  BY <1>3, <1>4, <1>6, <1>7
<1>9. Max(S) \in S /\ \A x \in S : x <= Max(S)
  BY <1>2, <1>8, MaxIs
<1>10. Min(S) \in S /\ \A x \in S : Min(S) <= x
  BY <1>8, MinIs
<1>11. MaxLen(b) = Max(S) /\ MinLen(b) = Min(S)
  BY DEF MaxLen, MinLen, S
<1>12. \A i \in 0..(D - 1) : Q(b, i) \in S
  BY <1>7
<1>13. MaxLen(b) \in Nat \ {0} /\ MaxLen(b) <= NextN /\ MinLen(b) \in Nat
  <2>1. Q(b, 0) <= Max(S) /\ Max(S) \in Nat /\ Max(S) <= NextN /\ Min(S) \in Nat
    BY <1>4, <1>8, <1>9, <1>10, <1>12
  <2>2. QED
    BY <1>5, <1>11, <2>1
<1>14. \A i \in 0..(D - 1) : Q(b, i) \in Nat /\ MinLen(b) <= Q(b, i) /\ Q(b, i) <= MaxLen(b)
  BY <1>3, <1>9, <1>10, <1>11, <1>12
<1>15. /\ \E i \in 0..(D - 1) : MinLen(b) = Q(b, i)
       /\ \E i \in 0..(D - 1) : MaxLen(b) = Q(b, i)
  BY <1>7, <1>9, <1>10, <1>11
<1>16. QED
  BY <1>13, <1>14, <1>15 DEF D

(* Rows of the same length: the place of a token by division.               *)
LEMMA EvenRows ==
  ASSUME NEW b, Ready(b), NEW m \in Nat \ {0}, NEW n \in 0..Rows(b),
         \A i \in 0..(n - 1) : Q(b, i) = m
  PROVE  /\ \A i \in 0..n : Loc(b, i) = i * m
         /\ \A i \in 0..(n - 1), t \in Nat : Holds(b, i, t) =>
              t \div m = i /\ t % m = t - Loc(b, i) /\ t - Loc(b, i) \in Nat
              /\ t = i * m + (t - Loc(b, i))
<1>1. Rows(b) \in Nat \ {0}
  BY BatchTyped
<1>2. \A i \in 0..n : Loc(b, i) = i * m
  <2> DEFINE S == {k \in Nat : k <= n => Loc(b, k) = k * m}
  <2>1. 0 \in S
    BY LocTyped
  <2>2. ASSUME NEW k \in Nat, k \in S PROVE k + 1 \in S
    <3> SUFFICES ASSUME k + 1 <= n PROVE Loc(b, k + 1) = (k + 1) * m
      OBVIOUS
    <3>1. k \in 0..(Rows(b) - 1) /\ k \in 0..(n - 1) /\ k <= n
      BY <1>1
    <3>2. Loc(b, k + 1) = Loc(b, k) + Q(b, k)
      BY <3>1, LocTyped
    <3>3. Q(b, k) = m /\ Loc(b, k) = k * m
      BY <2>2, <3>1
    <3>4. (k + 1) * m = k * m + m
      OBVIOUS
    <3>5. QED
      BY <3>2, <3>3, <3>4
  <2> HIDE DEF S
  <2>3. Nat \subseteq S
    BY <2>1, <2>2, Induct
  <2>4. QED
    BY <2>3 DEF S
<1>3. ASSUME NEW i \in 0..(n - 1), NEW t \in Nat, Holds(b, i, t)
      PROVE  t \div m = i /\ t % m = t - Loc(b, i) /\ t - Loc(b, i) \in Nat
             /\ t = i * m + (t - Loc(b, i))
  <2>1. i \in 0..(Rows(b) - 1) /\ i \in 0..n /\ i \in 0..Rows(b) /\ i \in Nat
    BY <1>1
  <2>2. Loc(b, i + 1) = Loc(b, i) + m /\ Loc(b, i) = i * m /\ Loc(b, i) \in Nat
    BY <1>2, <2>1, LocTyped
  <2>3. t - Loc(b, i) \in Nat /\ t - Loc(b, i) < m
    BY <1>3, <2>2 DEF Holds
  <2>4. PICK j \in Nat : j = t - Loc(b, i)
    BY <2>3
  <2>5. t = i * m + j
    BY <2>2, <2>4
  <2>6. (i * m + j) \div m = i /\ (i * m + j) % m = j
    BY <2>1, <2>3, <2>4, DivUnique
  <2>7. QED
    BY <2>3, <2>4, <2>5, <2>6
<1>4. QED
  BY <1>2, <1>3

-----------------------------------------------------------------------------
(* The decode layouts: what metadata d says of the row of a token.          *)

KeysOf(b, i) == Translate(RawRow(b, i))

WidthIn(d, b) == IF d.padding THEN d.longest ELSE DecodeTokens(b) \div d.rows

PlaceIn(d, b, t) ==
  IF d.padding THEN <<RowOf(b, t), t - Loc(b, RowOf(b, t))>>
  ELSE <<t \div WidthIn(d, b), t % WidthIn(d, b)>>

ContextIn(d, p) == d.context[p[1] * d.perRow + IF d.perRow > 1 THEN p[2] ELSE 0]

ComparedIn(d, b, p, pool) ==
  IF DeepGemm THEN pool < ContextIn(d, p)
  ELSE pool < d.context[p[1]] /\ pool <= d.context[p[1]] - WidthIn(d, b) + p[2]

(* The row of token t has its context, its table, and compares all of its   *)
(* pools.                                                                   *)
LaidOut(d, b, t) ==
  /\ ContextIn(d, PlaceIn(d, b, t)) = Pooled(Position(b, t) + 1)
  /\ d.table[PlaceIn(d, b, t)[1]] = KeysOf(b, RowOf(b, t))
  /\ \A pool \in 0..(Pooled(Position(b, t) + 1) - 1) :
       ComparedIn(d, b, PlaceIn(d, b, t), pool)

Buffers ==
  /\ DOMAIN seqs = Slots /\ DOMAIN tables = Slots
  /\ DOMAIN perReq = Slots /\ DOMAIN lens = Slots

LEMMA PooledTyped ==
  ASSUME launch \in Launches, NEW n \in Nat
  PROVE  Pooled(n) \in Nat
<1>1. KPool \in Nat \ {0}
  BY LaunchTyped
<1>2. QED
  BY <1>1, DivMod DEF Pooled

(* Where the row of the decode layout is the request.                       *)
LEMMA NativeLaid ==
  ASSUME NEW b, Ready(b), RowsAssumed, NumDecodes(b) > 0, UseNative(b), Buffers,
         NEW t \in Nat, t < Loc(b, NumDecodes(b))
  PROVE  LaidOut(DecodeMeta(b), b, t)
<1> DEFINE D == NumDecodes(b)
           m == MaxLen(b)
           i == RowOf(b, t)
           j == t - Loc(b, i)
           d == DecodeMeta(b)
           p == PlaceIn(d, b, t)
<1>1. /\ D \in 0..Rows(b) /\ D > 0 /\ Rows(b) \in Nat /\ Reqs(b) \in Nat \ {0} /\ Reqs(b) <= Rows(b)
      /\ Rows(b) = Reqs(b) + b.pads /\ b.pads \in Nat
      /\ D < Rows(b) => b.pads = 0
      /\ t < Loc(b, Reqs(b)) /\ DecodeTokens(b) \in Nat /\ D <= DecodeTokens(b)
      /\ Loc(b, D) <= DecodeTokens(b) /\ Loc(b, D) \in Nat
      /\ b.pads = 0 => DecodeTokens(b) = Loc(b, D)
      /\ DecodeTokens(b) <= b.tokens /\ b.tokens \in Nat
      /\ b.tokens <= MaxTokens
  BY DecodesTyped, BatchTyped, DecodeTokensTyped, BatchSize
<1>2. /\ m \in Nat \ {0} /\ m <= NextN /\ NextN \in {1, 2} /\ MinLen(b) \in Nat
      /\ MaxTokens \in Nat
  BY LensTyped, LaunchTyped DEF UseNative, UseFlattening, Ready
<1>3. i \in 0..(Reqs(b) - 1) /\ Holds(b, i, t)
  BY <1>1, RowOfIs
<1>4. i < D
  <2> SUFFICES ASSUME D <= i PROVE FALSE
    BY <1>1, <1>3
  <2>1. Loc(b, D) <= Loc(b, i)
    BY <1>1, <1>3, LocTyped
  <2>2. Loc(b, i) \in Nat
    BY <1>1, <1>3, LocTyped
  <2>3. QED
    BY <1>1, <1>3, <2>1, <2>2 DEF Holds
<1>5. \A k \in 0..(D - 1) : k < Reqs(b) => Q(b, k) = m
  <2>1. \A k \in 0..(D - 1) : k < Reqs(b) => Q(b, k) \in Nat \ {0}
    BY <1>1, BatchTyped
  <2>2. PICK x \in 0..(D - 1) : m = Q(b, x)
    BY LensTyped
  <2>3. 0 \in 0..(D - 1) /\ 0 < Reqs(b)
    BY <1>1
  <2>4. \A k \in 0..(D - 1) : Q(b, k) \in Nat /\ Q(b, k) <= m
    BY LensTyped
  <2>5. \A k \in 0..(D - 1) :
          \/ NextN = 1 /\ Q(b, k) <= NextN
          \/ NextN = 2 /\ Q(b, k) \in {0, Q(b, 0)}
    <3>1. ~UseFlattening
      BY DEF UseNative
    <3>2. QED
      BY <1>1, <3>1, DecodesTyped
  <2> HIDE DEF D, m
  <2>6. CASE NextN = 1
    BY <1>2, <2>1, <2>4, <2>6
  <2>7. CASE NextN = 2
    <3>1. \A k \in 0..(D - 1) : Q(b, k) \in {0, Q(b, 0)}
      BY <2>5, <2>7
    <3>2. m = Q(b, 0)
      BY <1>2, <2>2, <3>1
    <3>3. QED
      BY <2>1, <3>1, <3>2
  <2>8. QED
    BY <1>2, <2>6, <2>7
<1>6. PICK n \in Nat : n = (IF D < Reqs(b) THEN D ELSE Reqs(b))
  BY <1>1
<1>7. n \in 0..Rows(b) /\ (\A k \in 0..(n - 1) : Q(b, k) = m) /\ i \in 0..(n - 1) /\ n <= D
  <2>1. n \in 0..Rows(b) /\ n <= D /\ n <= Reqs(b) /\ i \in 0..(n - 1)
    BY <1>1, <1>3, <1>4, <1>6
  <2>2. \A k \in 0..(n - 1) : k \in 0..(D - 1) /\ k < Reqs(b)
    BY <1>1, <2>1
  <2>3. QED
    BY <1>5, <2>1, <2>2
<1>8. /\ t \div m = i /\ t % m = j /\ j \in Nat /\ t = i * m + j
      /\ Loc(b, n) = n * m
  <2>1. n \in 0..n
    OBVIOUS
  <2>2. QED
    BY <1>2, <1>3, <1>7, <2>1, EvenRows
<1>9. Position(b, t) = (Seq_(b, i) - m) + j /\ Position(b, t) \in Nat
      /\ Seq_(b, i) \in Nat /\ j < m /\ Q(b, i) = m
  <2>1. Q(b, i) = m
    BY <1>7
  <2>2. Position(b, t) = (Seq_(b, i) - Q(b, i)) + j /\ Position(b, t) \in Nat
        /\ t < Loc(b, i) + Q(b, i)
    BY <1>3, PositionIs
  <2>3. Loc(b, i) \in Nat /\ Seq_(b, i) \in Nat
    BY <1>1, <1>3, LocTyped, BatchTyped
  <2>4. QED
    BY <1>2, <2>1, <2>2, <2>3
<1>10. /\ d.rows = D /\ d.context = Contexts(b) /\ d.perRow = (IF NextN > 1 THEN m ELSE 1)
       /\ d.table = DecodeTable(b) /\ d.padding = (MinLen(b) # m) /\ d.longest = m
  BY DEF DecodeMeta
<1>11. p = <<i, j>> /\ WidthIn(d, b) = m
  <2>1. CASE d.padding
    BY <1>10, <2>1 DEF PlaceIn, WidthIn
  <2>2. CASE ~d.padding
    <3>1. MinLen(b) = m
      BY <1>10, <2>2
    <3>2. D <= Reqs(b)
      <4> SUFFICES ASSUME Reqs(b) < D PROVE FALSE
        BY <1>1
      <4>1. Q(b, Reqs(b)) = 0
        BY <1>1, BatchTyped
      <4>2. MinLen(b) <= Q(b, Reqs(b))
        BY <1>1, LensTyped
      <4>3. QED
        BY <1>2, <3>1, <4>1, <4>2
    <3>3. n = D /\ b.pads = 0
      <4>1. n = D
        BY <1>1, <1>6, <3>2
      <4>2. QED
        BY <1>1, <3>2, <4>1
    <3>4. DecodeTokens(b) = D * m + 0
      BY <1>1, <1>2, <1>8, <3>3
    <3>5. DecodeTokens(b) \div D = m
      <4>1. D * m + 0 = m * D + 0
        BY <1>1, <1>2
      <4>2. (m * D + 0) \div D = m
        BY <1>1, <1>2, DivUnique
      <4>3. QED
        BY <3>4, <4>1, <4>2
    <3>6. WidthIn(d, b) = m
      BY <1>10, <2>2, <3>5 DEF WidthIn
    <3>7. QED
      BY <1>8, <2>2, <3>6 DEF PlaceIn
  <2>3. d.padding \in BOOLEAN
    BY <1>10
  <2>4. QED
    BY <2>1, <2>2, <2>3
<1>12. p[1] = i /\ p[2] = j
  BY <1>11
<1>13. d.table[i] = KeysOf(b, i)
  <2>1. DecodeTable(b) = [x \in 0..(D - 1) |-> Translate(RawRow(b, x))]
    BY DEF DecodeTable, Below
  <2>2. i \in 0..(D - 1)
    BY <1>1, <1>3, <1>4
  <2> HIDE DEF D, i, d
  <2>3. QED
    BY <1>10, <2>1, <2>2 DEF KeysOf
<1>14. ContextIn(d, p) = Pooled(Position(b, t) + 1)
       /\ (NextN = 1 => d.context[i] = Pooled(Position(b, t) + 1))
  <2>1. CASE NextN = 1
    <3>1. m = 1 /\ j = 0 /\ d.perRow = 1
      BY <1>2, <1>8, <1>9, <1>10, <2>1
    <3>2. ContextIn(d, p) = d.context[i * 1 + 0]
      BY <1>12, <3>1 DEF ContextIn
    <3>3. i \in 0..(DecodeTokens(b) - 1) /\ i * 1 + 0 = i
      BY <1>1, <1>3, <1>4
    <3>4. Contexts(b) = [x \in Below(DecodeTokens(b)) |->
                            IF x < NumDecodes(b) THEN Pooled(Seq_(b, x)) ELSE 0]
      BY <2>1 DEF Contexts
    <3>5. Contexts(b)[i] = Pooled(Seq_(b, i))
      BY <1>4, <3>3, <3>4 DEF Below
    <3>6. Position(b, t) + 1 = Seq_(b, i)
      BY <1>9, <3>1
    <3>7. QED
      BY <1>10, <3>2, <3>3, <3>5, <3>6
  <2>2. CASE NextN = 2
    <3>1. ContextIn(d, p) = d.context[t]
      <4>1. d.perRow = m
        BY <1>10, <2>2
      <4>2. i * m + (IF m > 1 THEN j ELSE 0) = t
        BY <1>2, <1>8, <1>9
      <4>3. QED
        BY <1>12, <4>1, <4>2 DEF ContextIn
    <3>2. t < D * m /\ t \in 0..(D * m - 1)
      <4>1. i * m + m <= D * m /\ D * m \in Int
        BY <1>1, <1>2, <1>3, <1>4, MulMono
      <4>2. i * m \in Int
        BY <1>2, <1>3
      <4>3. PICK im, Dm \in Int : im = i * m /\ Dm = D * m
        BY <4>1, <4>2
      <4>4. t = im + j /\ im + m <= Dm /\ j < m /\ j \in Nat /\ m \in Nat
        BY <1>2, <1>8, <1>9, <4>1, <4>3
      <4>5. t < Dm /\ t \in 0..(Dm - 1)
        BY ONLY <4>4, im \in Int, Dm \in Int, t \in Nat
      <4>6. QED
        BY <4>3, <4>5
    <3>3. t \in Slots
      BY <1>1, <1>2 DEF Slots
    <3>4. Contexts(b) = [x \in Below(D * m) |-> Pooled(NewSeqs(b)[x])]
      BY <2>2 DEF Contexts
    <3>5. NewSeqs(b) = Over(seqs, D * m, LAMBDA x : UniformSeq(b, x))
      BY <2>2 DEF NewSeqs
    <3>6. NewSeqs(b)[t] = UniformSeq(b, t)
      BY <3>2, <3>3, <3>5 DEF Over, Buffers
    <3>7. UniformSeq(b, t) = Position(b, t) + 1
      BY <1>2, <1>8, <1>9 DEF UniformSeq
    <3>8. Contexts(b)[t] = Pooled(Position(b, t) + 1)
      BY <3>2, <3>4, <3>6, <3>7 DEF Below
    <3>9. QED
      BY <1>10, <2>2, <3>1, <3>8
  <2>3. QED
    BY <1>2, <2>1, <2>2
<1>15. ASSUME NEW pool \in 0..(Pooled(Position(b, t) + 1) - 1) PROVE ComparedIn(d, b, p, pool)
  <2>1. Pooled(Position(b, t) + 1) \in Nat
    BY <1>9, PooledTyped DEF Ready
  <2>2. CASE DeepGemm
    BY <1>14, <2>1, <2>2 DEF ComparedIn
  <2>3. CASE ~DeepGemm
    <3>1. NextN = 1
      BY <1>2, <2>3, LaunchTyped
         DEF RowsAssumed, OneLength, NextN, NumSpec, DeepGemm, Ready
    <3>2. m = 1 /\ j = 0
      BY <1>2, <1>8, <1>9, <3>1
    <3>3. QED
      BY <1>11, <1>12, <1>14, <2>1, <2>3, <3>1, <3>2 DEF ComparedIn
  <2>4. QED
    BY <2>2, <2>3
<1>16. QED
  BY <1>12, <1>13, <1>14, <1>15 DEF LaidOut

(* Where every token is a row of its own.                                   *)
LEMMA FlatLaid ==
  ASSUME NEW b, Ready(b), NumDecodes(b) > 0, ~UseNative(b), Buffers,
         NEW t \in Nat, t < Loc(b, NumDecodes(b))
  PROVE  LaidOut(DecodeMeta(b), b, t)
<1> DEFINE D == NumDecodes(b)
           m == MaxLen(b)
           i == RowOf(b, t)
           T == DecodeTokens(b)
           d == DecodeMeta(b)
           p == PlaceIn(d, b, t)
<1>1. /\ D \in 0..Rows(b) /\ D > 0 /\ Rows(b) \in Nat /\ Reqs(b) \in Nat \ {0} /\ Reqs(b) <= Rows(b)
      /\ t < Loc(b, Reqs(b)) /\ T \in Nat /\ Loc(b, D) <= T /\ Loc(b, D) \in Nat
      /\ T <= b.tokens /\ b.tokens \in Nat /\ b.tokens <= MaxTokens /\ MaxTokens \in Nat
  BY DecodesTyped, BatchTyped, DecodeTokensTyped, BatchSize, LaunchTyped DEF Ready
<1>2. t \in 0..(T - 1) /\ t \in Slots /\ t < T
  BY <1>1 DEF Slots
<1>3. i \in 0..(Reqs(b) - 1) /\ Holds(b, i, t)
  BY <1>1, RowOfIs
<1>4. Position(b, t) = (Seq_(b, i) - Q(b, i)) + (t - Loc(b, i)) /\ Position(b, t) \in Nat
  BY <1>3, PositionIs
<1>5. Seq_(b, i) \in Nat /\ Q(b, i) \in Nat /\ Loc(b, i) \in Nat
  BY <1>1, <1>3, BatchTyped, LocTyped
<1>6. /\ d.rows = T /\ d.context = Contexts(b) /\ d.perRow = 1
      /\ d.table = DecodeTable(b) /\ d.padding = FALSE
  BY DEF DecodeMeta
<1>7. WidthIn(d, b) = 1 /\ p[1] = t /\ p[2] = 0
  <2>1. 1 * T + 0 = T /\ T \in Nat \ {0} /\ t * 1 + 0 = t
    BY <1>1
  <2>2. T \div T = 1
    BY <2>1, DivUnique
  <2>3. (t * 1 + 0) \div 1 = t /\ (t * 1 + 0) % 1 = 0
    BY DivUnique
  <2>4. WidthIn(d, b) = 1
    BY <1>6, <2>2 DEF WidthIn
  <2>5. p = <<t \div 1, t % 1>>
    BY <1>6, <2>4 DEF PlaceIn
  <2>6. QED
    BY <2>1, <2>3, <2>4, <2>5
<1>8. NewSeqs(b)[t] = Position(b, t) + 1 /\ NewTables(b)[t] = RawRow(b, i)
  <2>1. CASE Uniform(b)
    <3>1. /\ m \in Nat \ {0} /\ MinLen(b) = m /\ D * m = T
          /\ \A k \in 0..(D - 1) : Q(b, k) = m
      <4>1. m \in Nat \ {0} /\ MinLen(b) = m
        BY <2>1, LensTyped DEF Uniform
      <4>2. D * m = T
        BY <2>1 DEF Uniform
      <4>3. \A k \in 0..(D - 1) : Q(b, k) \in Nat /\ MinLen(b) <= Q(b, k) /\ Q(b, k) <= m
        BY LensTyped
      <4>4. QED
        BY <4>1, <4>2, <4>3
    <3>2. i < D
      <4> SUFFICES ASSUME D <= i PROVE FALSE
        BY <1>1, <1>3
      <4>1. Loc(b, D) <= Loc(b, i)
        BY <1>1, <1>3, LocTyped
      <4>2. QED
        BY <1>1, <1>3, <1>5, <4>1 DEF Holds
    <3>3. t \div m = i /\ t % m = t - Loc(b, i)
      <4>1. i \in 0..(D - 1)
        BY <1>1, <1>3, <3>2
      <4> HIDE DEF D, m, i
      <4>2. /\ Ready(b) /\ m \in Nat \ {0} /\ D \in 0..Rows(b)
            /\ \A k \in 0..(D - 1) : Q(b, k) = m
        BY <1>1, <3>1
      <4>3. \A k \in 0..(D - 1), x \in Nat : Holds(b, k, x) =>
              x \div m = k /\ x % m = x - Loc(b, k)
        BY ONLY <4>2, EvenRows
      <4>4. QED
        BY <1>3, <4>1, <4>3
    <3>4. Q(b, i) = m
      BY <1>1, <1>3, <3>1, <3>2
    <3>5. NewSeqs(b) = [x \in Slots |-> IF x < DecodeTokens(b) THEN UniformSeq(b, x) ELSE 0]
      BY <2>1 DEF NewSeqs
    <3>6. NewTables(b) = Over(tables, DecodeTokens(b), LAMBDA x : RawRow(b, x \div MaxLen(b)))
      BY <2>1 DEF NewTables
    <3>7. NewTables(b)[t] = RawRow(b, t \div m)
      BY <1>2, <3>6 DEF Over, Buffers
    <3>8. NewSeqs(b)[t] = UniformSeq(b, t)
      BY <1>2, <3>5
    <3>9. UniformSeq(b, t) = ((Seq_(b, i) - m) + (t - Loc(b, i))) + 1
      BY <3>3 DEF UniformSeq
    <3>10. QED
      BY <1>4, <3>3, <3>4, <3>7, <3>8, <3>9
  <2>2. CASE ~Uniform(b)
    <3>1. FlatRows(b) = Loc(b, D) /\ t < FlatRows(b)
      BY DEF FlatRows
    <3>2. NewSeqs(b) = [x \in Slots |-> IF x < FlatRows(b) THEN FlatSeq(b, x) ELSE 0]
      BY <2>2 DEF NewSeqs
    <3>3. NewTables(b) = [x \in Slots |->
                            IF x < FlatRows(b) THEN RawRow(b, RowOf(b, x))
                            ELSE IF x < DecodeTokens(b) THEN [tables[x] EXCEPT ![0] = 0]
                            ELSE tables[x]]
      BY <2>2 DEF NewTables
    <3>4. NewSeqs(b)[t] = FlatSeq(b, t) /\ NewTables(b)[t] = RawRow(b, i)
      BY <1>2, <3>1, <3>2, <3>3
    <3>5. FlatSeq(b, t) = (((Seq_(b, i) - Q(b, i)) - Loc(b, i)) + t) + 1
      BY DEF FlatSeq
    <3>6. QED
      BY <1>4, <1>5, <3>4, <3>5
  <2>3. QED
    BY <2>1, <2>2
<1>9. d.context[t] = Pooled(Position(b, t) + 1) /\ d.table[t] = KeysOf(b, i)
  <2>1. Contexts(b) = [x \in 0..(T - 1) |-> Pooled(NewSeqs(b)[x])]
    BY DEF Contexts, Below
  <2>2. DecodeTable(b) = [x \in 0..(T - 1) |-> Translate(NewTables(b)[x])]
    BY DEF DecodeTable, Below
  <2> HIDE DEF d, T, i
  <2>3. QED
    BY <1>2, <1>6, <1>8, <2>1, <2>2 DEF KeysOf
<1>10. ContextIn(d, p) = Pooled(Position(b, t) + 1)
  <2>1. t * 1 + 0 = t
    OBVIOUS
  <2>2. ContextIn(d, p) = d.context[t * 1 + 0]
    BY <1>6, <1>7 DEF ContextIn
  <2>3. QED
    BY <1>9, <2>1, <2>2
<1>11. ASSUME NEW pool \in 0..(Pooled(Position(b, t) + 1) - 1) PROVE ComparedIn(d, b, p, pool)
  <2>1. Pooled(Position(b, t) + 1) \in Nat
    BY <1>4, PooledTyped DEF Ready
  <2>2. CASE DeepGemm
    BY <1>10, <2>1, <2>2 DEF ComparedIn
  <2>3. CASE ~DeepGemm
    BY <1>7, <1>9, <2>1, <2>3 DEF ComparedIn
  <2>4. QED
    BY <2>2, <2>3
<1>12. QED
  BY <1>7, <1>9, <1>10, <1>11 DEF LaidOut

-----------------------------------------------------------------------------
(* A row of the layout gives the token its own row.                         *)

DecodeKeysIn(d, b, p) ==
  [pool \in Below(ContextIn(d, p)) |->
     IF ComparedIn(d, b, p, pool) THEN KeyAt(d.table[p[1]], pool) ELSE NoKey]

LEMMA LaidKeys ==
  ASSUME NEW b, Ready(b), NEW d, NEW t \in Nat, t < Loc(b, Reqs(b)), LaidOut(d, b, t)
  PROVE  LET n == Pooled(Position(b, t) + 1)
         IN DecodeKeysIn(d, b, PlaceIn(d, b, t)) =
              [pool \in Below(n) |-> KeyAt(KeysOf(b, RowOf(b, t)), pool)]
<1> DEFINE n == Pooled(Position(b, t) + 1)
           p == PlaceIn(d, b, t)
<1>1. /\ ContextIn(d, p) = n /\ d.table[p[1]] = KeysOf(b, RowOf(b, t))
      /\ \A pool \in 0..(n - 1) : ComparedIn(d, b, p, pool)
  BY DEF LaidOut
<1> HIDE DEF n, p
<1>2. DecodeKeysIn(d, b, p) =
        [pool \in 0..(n - 1) |->
           IF ComparedIn(d, b, p, pool) THEN KeyAt(KeysOf(b, RowOf(b, t)), pool) ELSE NoKey]
  BY <1>1 DEF DecodeKeysIn, Below
<1>3. DecodeKeysIn(d, b, p) = [pool \in 0..(n - 1) |-> KeyAt(KeysOf(b, RowOf(b, t)), pool)]
  BY <1>1, <1>2
<1>4. QED
  BY <1>3 DEF n, p, Below

(* Choosing among n pools with the last one's token: without pools there is *)
(* no tail.                                                                 *)
LEMMA PlainIs ==
  ASSUME launch \in Launches, Plain, NEW len \in Nat, NEW key
  PROVE  Expanded(Pooled(len), len, key) = PlainRow(Pooled(len), key)
<1>1. KPool = 1
  BY DEF Plain
<1>2. \A x \in Nat : x \div 1 = x
  <2> SUFFICES ASSUME NEW x \in Nat PROVE x \div 1 = x
    OBVIOUS
  <2>1. (x * 1 + 0) \div 1 = x /\ x * 1 + 0 = x
    BY DivUnique
  <2>2. QED
    BY <2>1
<1>3. Pooled(len) = len
  BY <1>1, <1>2 DEF Pooled
<1>4. TailOf(len) = {}
  BY <1>1, <1>3 DEF TailOf, Below
<1>5. \A q : q \in Chosen(len) => q \in 0..(len - 1)
  BY DEF Chosen, Below
<1>6. {q \in Below(len * KPool) : q \div KPool \in Chosen(len)} = Chosen(len)
  <2>1. \A q \in 0..(len - 1) : q \div KPool = q
    BY <1>1, <1>2
  <2>2. len * KPool = len
    BY <1>1
  <2>3. Below(len * KPool) = 0..(len - 1)
    BY <2>2 DEF Below
  <2>4. QED
    BY <1>5, <2>1, <2>3
<1>7. /\ Expanded(len, len, key).pos = PlainRow(len, key).pos
      /\ Expanded(len, len, key).seen = PlainRow(len, key).seen
  BY <1>4, <1>6 DEF Expanded, PlainRow
<1>8. Expanded(len, len, key) = PlainRow(len, key)
  BY <1>7 DEF Expanded, PlainRow
<1>9. QED
  BY <1>3, <1>8

LEMMA DecodeRowRight ==
  ASSUME NEW b, Ready(b), NEW t \in Nat, t < Loc(b, Reqs(b)), LaidOut(meta.decode, b, t), NEW stale
  PROVE  /\ ~(meta.decode.padding /\ FlatRows(b) < DecodeTokens(b)) =>
              DecodeRowAt(b, t, stale) = OwnRow(b, t)
         /\ Plain => LET p == PlaceOf(b, t)
                     IN PlainRow(ContextAt(p), DecodeKeys(b, p)) = OwnRow(b, t)
<1> DEFINE p == PlaceOf(b, t)
           n == Pooled(Position(b, t) + 1)
           own == [pool \in Below(n) |-> KeyAt(KeysOf(b, RowOf(b, t)), pool)]
<1>1. p = PlaceIn(meta.decode, b, t)
  BY DEF PlaceOf, PlaceIn, Width, WidthIn
<1>2. ContextAt(p) = ContextIn(meta.decode, p)
  BY DEF ContextAt, ContextIn
<1>3. \A pool : Compared(b, p, pool) = ComparedIn(meta.decode, b, p, pool)
  BY <1>2 DEF Compared, ComparedIn, Width, WidthIn
<1>4. DecodeKeys(b, p) = DecodeKeysIn(meta.decode, b, p)
  <2> HIDE DEF p
  <2>1. QED
    BY <1>2, <1>3 DEF DecodeKeys, DecodeKeysIn
<1>5. DecodeKeysIn(meta.decode, b, PlaceIn(meta.decode, b, t)) = own
  BY LaidKeys
<1>6. ContextAt(p) = n
  BY <1>1, <1>2 DEF LaidOut
<1>7. ~(meta.decode.padding /\ FlatRows(b) < DecodeTokens(b)) =>
        RowLen(b, t, stale) = Position(b, t) + 1
  BY DEF RowLen
<1>8. OwnRow(b, t) = Expanded(n, Position(b, t) + 1, own)
  BY DEF OwnRow, KeysOf
<1>9. DecodeKeys(b, p) = own
  BY <1>1, <1>4, <1>5
<1>10. DecodeRowAt(b, t, stale) = Expanded(ContextAt(p), RowLen(b, t, stale), DecodeKeys(b, p))
  BY DEF DecodeRowAt
<1>11. Position(b, t) + 1 \in Nat
  <2>1. RowOf(b, t) \in 0..(Reqs(b) - 1) /\ Holds(b, RowOf(b, t), t)
    BY RowOfIs
  <2>2. QED
    BY <2>1, PositionIs
<1> HIDE DEF p, own
<1>12. Plain => PlainRow(ContextAt(p), DecodeKeys(b, p)) = OwnRow(b, t)
  BY <1>6, <1>8, <1>9, <1>11, PlainIs DEF Ready
<1>13. QED
  BY <1>6, <1>7, <1>8, <1>9, <1>10, <1>12 DEF p

(* The row that a short prefill leaves to a token is its own.               *)
LEMMA ShortRow ==
  ASSUME NEW b, Ready(b), NEW t \in Nat, t < Loc(b, Reqs(b)), Position(b, t) < TopK
  PROVE  OwnRow(b, t).pos = 0..Position(b, t)
<1> DEFINE len == Position(b, t) + 1
           n == Pooled(len)
<1>1. RowOf(b, t) \in 0..(Reqs(b) - 1) /\ Holds(b, RowOf(b, t), t)
  BY RowOfIs
<1>2. Position(b, t) \in Nat
  BY <1>1, PositionIs
<1>3. KPool \in Nat \ {0} /\ TopK \in Nat
  BY LaunchTyped DEF Ready
<1>4. len \in Nat /\ len <= TopK
  BY <1>2, <1>3
<1>5. n \in Nat /\ SelectK \in Nat /\ n <= SelectK
  <2>1. SelectK = TopK \div KPool /\ n = len \div KPool
    BY DEF SelectK, Pooled
  <2> HIDE DEF len
  <2>2. len \div KPool <= TopK \div KPool
    BY <1>3, <1>4, DivMono
  <2>3. len \div KPool \in Nat /\ TopK \div KPool \in Nat
    BY <1>3, <1>4, DivMod
  <2>4. QED
    BY <2>1, <2>2, <2>3
<1>6. Chosen(n) = 0..(n - 1)
  <2> HIDE DEF n
  <2>1. QED
    BY <1>5 DEF Chosen, Below
<1>7. \A q \in Nat : q < n * KPool <=> q \div KPool < n
  <2> HIDE DEF n
  <2>1. QED
    BY <1>3, <1>5, DivLess
<1>8. \A q \in Nat : q \div KPool \in Nat
  BY <1>3, DivMod
<1>9. n * KPool \in Nat /\ n * KPool <= len
  <2>1. n = len \div KPool
    BY DEF Pooled
  <2> HIDE DEF n, len
  <2>2. len = ((len \div KPool) * KPool) + (len % KPool) /\ len % KPool \in Nat
    BY <1>3, <1>4, DivMod
  <2>3. n * KPool \in Nat
    BY <1>3, <1>5
  <2>4. QED
    BY <1>4, <2>1, <2>2, <2>3
<1>10. OwnRow(b, t).pos = {q \in Below(n * KPool) : q \div KPool \in Chosen(n)} \cup TailOf(len)
  BY DEF OwnRow, Expanded
<1>11. TailOf(len) = {q \in 0..(len - 1) : q >= n * KPool}
  BY DEF TailOf, Below
<1> HIDE DEF n
<1>12. {q \in Below(n * KPool) : q \div KPool \in Chosen(n)} = 0..(n * KPool - 1)
  <2>1. \A q \in 0..(n * KPool - 1) : q \div KPool \in 0..(n - 1)
    BY <1>5, <1>7, <1>8, <1>9
  <2>2. QED
    BY <1>6, <2>1 DEF Below
<1>13. PICK k \in Nat : k = n * KPool
  BY <1>9
<1>14. 0..(k - 1) \cup {q \in 0..(len - 1) : q >= k} = 0..(len - 1)
  BY <1>4, <1>9, <1>13
<1>15. QED
  BY <1>2, <1>10, <1>11, <1>12, <1>13, <1>14

-----------------------------------------------------------------------------
(* The gather workspace.                                                    *)

LEMMA DeviceTyped ==
  ASSUME NEW b, Ready(b)
  PROVE  /\ \A i \in 0..(Rows(b) - 1) :
              /\ DeviceKeys(b, i + 1) = DeviceKeys(b, i) + Pooled(Seq_(b, i))
              /\ Pooled(Seq_(b, i)) \in Nat
         /\ \A i \in 0..Rows(b) : DeviceKeys(b, i) \in Nat
         /\ \A i, j \in 0..Rows(b) : i <= j => DeviceKeys(b, i) <= DeviceKeys(b, j)
         /\ \A i, j \in 0..(Rows(b) - 1), x \in Nat :
              /\ DeviceKeys(b, i) <= x /\ x < DeviceKeys(b, i + 1)
              /\ DeviceKeys(b, j) <= x /\ x < DeviceKeys(b, j + 1)
              => i = j
<1> DEFINE f == [k \in Below(Rows(b)) |-> Pooled(Seq_(b, k))]
<1>1. \A i : DeviceKeys(b, i) = SumTo(f, i)
  BY DEF DeviceKeys
<1>2. Rows(b) \in Nat /\ \A k \in 0..(Rows(b) - 1) : Pooled(Seq_(b, k)) \in Nat
  BY BatchTyped, Token, PooledTyped DEF Ready
<1>3. \A k \in 0..(Rows(b) - 1) : f[k] = Pooled(Seq_(b, k))
  BY DEF Below
<1> HIDE DEF f
<1>4. \A k \in 0..(Rows(b) - 1) : f[k] \in Nat
  BY <1>2, <1>3
<1>5. /\ \A i \in 0..Rows(b) : SumTo(f, i) \in Nat
      /\ \A i, j \in 0..Rows(b) : i <= j => SumTo(f, i) <= SumTo(f, j)
  BY <1>2, <1>4, SumGrows
<1>6. \A i \in 0..(Rows(b) - 1) : SumTo(f, i + 1) = SumTo(f, i) + f[i]
  BY <1>2, SumStep
<1>7. \A i, j \in 0..(Rows(b) - 1), x \in Nat :
        /\ SumTo(f, i) <= x /\ x < SumTo(f, i + 1)
        /\ SumTo(f, j) <= x /\ x < SumTo(f, j + 1)
        => i = j
  BY <1>2, <1>4, SumPlace
<1>8. QED
  BY <1>1, <1>2, <1>3, <1>5, <1>6, <1>7

LEMMA HostTyped ==
  ASSUME NEW b, Ready(b)
  PROVE  /\ \A i \in 0..(Rows(b) - 1) :
              /\ HostKeys(b, i + 1) = HostKeys(b, i) + Pooled(Ub(b, i))
              /\ Pooled(Ub(b, i)) \in Nat /\ Pooled(Ub(b, i)) <= Workspace
              /\ Pooled(Seq_(b, i)) <= Pooled(Ub(b, i))
         /\ \A i \in 0..Rows(b) : HostKeys(b, i) \in Nat
         /\ \A i, j \in 0..Rows(b) : i <= j => HostKeys(b, i) <= HostKeys(b, j)
<1> DEFINE f == [k \in Below(Rows(b)) |-> Pooled(Ub(b, k))]
<1>1. \A i : HostKeys(b, i) = SumTo(f, i)
  BY DEF HostKeys
<1>2. Rows(b) \in Nat /\ \A k \in 0..(Rows(b) - 1) : Pooled(Ub(b, k)) \in Nat
  BY BatchTyped, Token, PooledTyped DEF Ready
<1>3. \A k \in 0..(Rows(b) - 1) : f[k] = Pooled(Ub(b, k))
  BY DEF Below
<1> HIDE DEF f
<1>4. \A k \in 0..(Rows(b) - 1) : f[k] \in Nat
  BY <1>2, <1>3
<1>5. /\ \A i \in 0..Rows(b) : SumTo(f, i) \in Nat
      /\ \A i, j \in 0..Rows(b) : i <= j => SumTo(f, i) <= SumTo(f, j)
  BY <1>2, <1>4, SumGrows
<1>6. \A i \in 0..(Rows(b) - 1) : SumTo(f, i + 1) = SumTo(f, i) + f[i]
  BY <1>2, SumStep
<1>7. KPool \in Nat \ {0} /\ Workspace \in Nat \ {0}
  BY LaunchTyped DEF Ready
<1>8. \A i \in 0..(Rows(b) - 1) : Pooled(Seq_(b, i)) <= Pooled(Ub(b, i))
  <2> SUFFICES ASSUME NEW i \in 0..(Rows(b) - 1) PROVE Pooled(Seq_(b, i)) <= Pooled(Ub(b, i))
    OBVIOUS
  <2>1. Seq_(b, i) \in Nat /\ Ub(b, i) \in Nat /\ Seq_(b, i) <= Ub(b, i)
    BY Token
  <2>2. QED
    BY <1>7, <2>1, DivMono DEF Pooled
<1>9. \A i \in 0..(Rows(b) - 1) : Pooled(Ub(b, i)) <= Workspace
  <2> SUFFICES ASSUME NEW i \in 0..(Rows(b) - 1) PROVE Pooled(Ub(b, i)) <= Workspace
    OBVIOUS
  <2>1. CASE i \in 0..(Reqs(b) - 1)
    BY <2>1, BatchTyped
  <2>2. CASE i \in Reqs(b)..(Rows(b) - 1)
    <3>1. Ub(b, i) = 0
      BY <2>2, BatchTyped
    <3>2. (0 * KPool + 0) \div KPool = 0 /\ 0 * KPool + 0 = 0
      BY <1>7, DivUnique
    <3>3. QED
      BY <1>7, <3>1, <3>2 DEF Pooled
  <2>3. QED
    BY <2>1, <2>2, BatchTyped
<1>10. QED
  BY <1>1, <1>2, <1>3, <1>5, <1>6, <1>8, <1>9

(* A chunk of the metadata: its tokens belong to its requests, ks and ke    *)
(* bound the keys of their row in the workspace.                            *)
KeysFrom(b, c, i) == DeviceKeys(b, i) - DeviceKeys(b, c.first)

InChunk(c, t) == c.token <= t /\ t < c.token + c.rows

GoodChunk(b, c) ==
  /\ c.first \in 0..(Reqs(b) - 1) /\ c.last \in c.first..(Reqs(b) - 1)
  /\ KeysFrom(b, c, c.last + 1) <= Workspace
  /\ c.token \in Nat /\ c.rows \in Nat /\ c.skip \in BOOLEAN
  /\ \A t \in Nat : InChunk(c, t) =>
       /\ t < Loc(b, Reqs(b)) /\ RowOf(b, t) \in c.first..c.last
       /\ c.ks[t - c.token] = KeysFrom(b, c, RowOf(b, t))
       /\ c.ke[t - c.token] = KeysFrom(b, c, RowOf(b, t)) + Pooled(Position(b, t) + 1)

(* The workspace has the keys of the chunk's requests.                      *)
HasKeys(b, c, work) ==
  \A i \in c.first..c.last : \A p \in 0..(Pooled(Seq_(b, i)) - 1) :
    work[KeysFrom(b, c, i) + p] = KeyAt(KeysOf(b, i), p)

LEMMA GatherRight ==
  ASSUME NEW b, Ready(b), NEW c, GoodChunk(b, c), DOMAIN gathered = Below(Workspace)
  PROVE  HasKeys(b, c, Gathered(b, c)) /\ DOMAIN Gathered(b, c) = Below(Workspace)
<1> DEFINE n == KeysFrom(b, c, c.last + 1)
           req(x) == CHOOSE i \in c.first..c.last :
                       KeysFrom(b, c, i) <= x /\ x < KeysFrom(b, c, i + 1)
           key(x) == KeyAt(Translate(RawRow(b, req(x))), x - KeysFrom(b, c, req(x)))
<1>1. Gathered(b, c) = Over(gathered, n, key)
  BY DEF Gathered, KeysFrom
<1>2. Gathered(b, c) = [x \in Below(Workspace) |-> IF x < n THEN key(x) ELSE gathered[x]]
  BY <1>1 DEF Over
<1>3. /\ c.first \in 0..(Reqs(b) - 1) /\ c.last \in c.first..(Reqs(b) - 1)
      /\ n <= Workspace /\ Reqs(b) <= Rows(b) /\ Reqs(b) \in Nat \ {0} /\ Rows(b) \in Nat
      /\ Workspace \in Nat
  BY BatchTyped, LaunchTyped DEF GoodChunk, Ready
<1>4. ASSUME NEW i \in c.first..c.last, NEW p \in 0..(Pooled(Seq_(b, i)) - 1)
      PROVE  Gathered(b, c)[KeysFrom(b, c, i) + p] = KeyAt(KeysOf(b, i), p)
  <2> DEFINE x == KeysFrom(b, c, i) + p
  <2>1. /\ i \in 0..(Rows(b) - 1) /\ i \in 0..Rows(b) /\ i + 1 \in 0..Rows(b)
        /\ c.first \in 0..Rows(b) /\ c.last + 1 \in 0..Rows(b)
        /\ c.first <= i /\ i + 1 <= c.last + 1
    BY <1>3
  <2>2. /\ DeviceKeys(b, i + 1) = DeviceKeys(b, i) + Pooled(Seq_(b, i))
        /\ Pooled(Seq_(b, i)) \in Nat /\ DeviceKeys(b, i) \in Nat
        /\ DeviceKeys(b, c.first) \in Nat /\ DeviceKeys(b, c.last + 1) \in Nat
        /\ DeviceKeys(b, c.first) <= DeviceKeys(b, i)
        /\ DeviceKeys(b, i + 1) <= DeviceKeys(b, c.last + 1)
    BY <2>1, DeviceTyped
  <2>3. /\ KeysFrom(b, c, i) \in Nat /\ x \in Nat /\ x < n /\ n \in Int
        /\ KeysFrom(b, c, i) <= x /\ x < KeysFrom(b, c, i + 1)
    BY <2>2 DEF KeysFrom
  <2>4. x - KeysFrom(b, c, i) = p
    BY <2>3
  <2>5. req(x) \in c.first..c.last
        /\ KeysFrom(b, c, req(x)) <= x /\ x < KeysFrom(b, c, req(x) + 1)
    BY <2>3
  <2>6. req(x) = i
    <3>1. PICK j \in c.first..c.last : j = req(x)
      BY <2>5
    <3>2. j \in 0..(Rows(b) - 1) /\ j \in 0..Rows(b) /\ j + 1 \in 0..Rows(b)
      BY <1>3
    <3>3. DeviceKeys(b, j) \in Nat /\ DeviceKeys(b, j + 1) \in Nat
      BY <3>2, DeviceTyped
    <3>4. PICK y \in Nat : y = x + DeviceKeys(b, c.first)
      BY <2>2, <2>3
    <3>5. KeysFrom(b, c, j) <= x /\ x < KeysFrom(b, c, j + 1)
      BY <2>5, <3>1
    <3>6. DeviceKeys(b, j) <= y /\ y < DeviceKeys(b, j + 1)
      BY <2>2, <2>3, <3>3, <3>4, <3>5 DEF KeysFrom
    <3>7. DeviceKeys(b, i) <= y /\ y < DeviceKeys(b, i + 1)
      BY <2>2, <2>3, <3>4 DEF KeysFrom
    <3>8. j = i
      <4>1. j \in 0..(Rows(b) - 1) /\ i \in 0..(Rows(b) - 1) /\ y \in Nat /\ Ready(b)
        BY <2>1, <3>2
      <4>2. QED
        BY ONLY <4>1, <3>6, <3>7, DeviceTyped
    <3>9. QED
      BY <3>1, <3>8
  <2>8. x \in Below(Workspace)
    <3> HIDE DEF x, n, req, key
    <3>1. QED
      BY <1>3, <2>3 DEF Below
  <2> HIDE DEF req
  <2>11. key(x) = KeyAt(Translate(RawRow(b, req(x))), x - KeysFrom(b, c, req(x)))
    OBVIOUS
  <2> HIDE DEF x, key, n
  <2>7. key(x) = KeyAt(KeysOf(b, i), p)
    BY <2>4, <2>6, <2>11 DEF KeysOf
  <2>9. Gathered(b, c)[x] = key(x)
    BY <1>2, <2>3, <2>8
  <2>10. QED
    BY <2>7, <2>9 DEF x
<1>5. DOMAIN Gathered(b, c) = Below(Workspace)
  BY <1>2
<1>6. QED
  BY <1>4, <1>5 DEF HasKeys

LEMMA ChunkRowRight ==
  ASSUME NEW b, Ready(b), NEW c, GoodChunk(b, c), NEW work, HasKeys(b, c, work),
         NEW t \in Nat, InChunk(c, t)
  PROVE  LET row == t - c.token
             n == c.ke[row] - c.ks[row]
         IN /\ Expanded(n, Position(b, t) + 1, RowKeys(c, row, work)) = OwnRow(b, t)
            /\ Plain => PlainRow(n, RowKeys(c, row, work)) = OwnRow(b, t)
<1> DEFINE row == t - c.token
           n == c.ke[row] - c.ks[row]
           i == RowOf(b, t)
           m == Pooled(Position(b, t) + 1)
           own == [pool \in Below(m) |-> KeyAt(KeysOf(b, i), pool)]
<1>1. /\ t < Loc(b, Reqs(b)) /\ i \in c.first..c.last
      /\ c.ks[row] = KeysFrom(b, c, i) /\ c.ke[row] = KeysFrom(b, c, i) + m
  BY DEF GoodChunk
<1>2. i \in 0..(Reqs(b) - 1) /\ Holds(b, i, t)
  BY <1>1, RowOfIs
<1>3. Position(b, t) \in Nat /\ Position(b, t) < Seq_(b, i) /\ Seq_(b, i) \in Nat
  BY <1>2, PositionIs, BatchTyped
<1>4. m \in Nat /\ m <= Pooled(Seq_(b, i))
  <2>1. KPool \in Nat \ {0}
    BY LaunchTyped DEF Ready
  <2>2. Position(b, t) + 1 \in Nat /\ Position(b, t) + 1 <= Seq_(b, i)
    BY <1>3
  <2>3. QED
    BY <2>1, <2>2, <1>3, DivMono, DivMod DEF Pooled
<1>5. KeysFrom(b, c, i) \in Int
  <2>1. i \in 0..Rows(b) /\ c.first \in 0..Rows(b)
    BY <1>2, BatchTyped DEF GoodChunk
  <2>2. DeviceKeys(b, i) \in Nat /\ DeviceKeys(b, c.first) \in Nat
    BY <2>1, DeviceTyped
  <2>3. QED
    BY <2>2 DEF KeysFrom
<1>6. n = m
  BY <1>1, <1>4, <1>5
<1>7. RowKeys(c, row, work) = own
  <2>1. RowKeys(c, row, work) = [p \in Below(n) |-> work[c.ks[row] + p]]
    BY DEF RowKeys
  <2>2. Pooled(Seq_(b, i)) \in Nat
    BY <1>3, PooledTyped DEF Ready
  <2>3. \A p \in 0..(m - 1) : p \in 0..(Pooled(Seq_(b, i)) - 1)
    BY <1>4, <2>2
  <2>4. \A p \in 0..(m - 1) : work[KeysFrom(b, c, i) + p] = KeyAt(KeysOf(b, i), p)
    BY <1>1, <2>3 DEF HasKeys
  <2> HIDE DEF n, m, i, row
  <2>5. RowKeys(c, row, work) = [p \in 0..(m - 1) |-> work[KeysFrom(b, c, i) + p]]
    BY <1>1, <1>6, <2>1 DEF Below
  <2>6. QED
    BY <2>4, <2>5 DEF Below
<1>8. OwnRow(b, t) = Expanded(m, Position(b, t) + 1, own)
  BY DEF OwnRow, KeysOf
<1>9. Position(b, t) + 1 \in Nat
  BY <1>3
<1> HIDE DEF own, row, n
<1>10. Expanded(n, Position(b, t) + 1, RowKeys(c, row, work)) = OwnRow(b, t)
  BY <1>6, <1>7, <1>8
<1>11. Plain => PlainRow(n, RowKeys(c, row, work)) = OwnRow(b, t)
  BY <1>6, <1>7, <1>8, <1>9, PlainIs DEF Ready
<1>12. QED
  BY <1>10, <1>11 DEF row, n

-----------------------------------------------------------------------------
(* The slices of the prefill.                                               *)

LEMMA ChunkSize ==
  ASSUME NEW b, Ready(b), NEW s \in 0..(Rows(b) - 1), NEW e \in s..(Rows(b) - 1)
  PROVE  /\ ChunkRows(b, s, e) \in Nat /\ ChunkKeys(b, s, e) \in Nat
         /\ b.pads = 0 => ChunkRows(b, s, e) > 0
         /\ e = s => ChunkKeys(b, s, e) <= Workspace
         /\ DeviceKeys(b, e + 1) - DeviceKeys(b, s) <= ChunkKeys(b, s, e)
         /\ Pooled(Ub(b, s)) \in Nat /\ Pooled(Ub(b, s)) <= ChunkKeys(b, s, e)
<1>1. /\ s \in 0..Rows(b) /\ s + 1 \in 0..Rows(b) /\ e + 1 \in 0..Rows(b)
      /\ s + 1 <= e + 1 /\ s <= e + 1 /\ Rows(b) \in Nat
  BY BatchTyped
<1>2. /\ Loc(b, s) \in Nat /\ Loc(b, s + 1) \in Nat /\ Loc(b, e + 1) \in Nat
      /\ Loc(b, s + 1) = Loc(b, s) + Q(b, s) /\ Loc(b, s + 1) <= Loc(b, e + 1)
      /\ Loc(b, s) <= Loc(b, e + 1)
  BY <1>1, LocTyped
<1>3. /\ HostKeys(b, s) \in Nat /\ HostKeys(b, s + 1) \in Nat /\ HostKeys(b, e + 1) \in Nat
      /\ HostKeys(b, s + 1) = HostKeys(b, s) + Pooled(Ub(b, s))
      /\ Pooled(Ub(b, s)) \in Nat /\ Pooled(Ub(b, s)) <= Workspace
      /\ HostKeys(b, s + 1) <= HostKeys(b, e + 1) /\ HostKeys(b, s) <= HostKeys(b, e + 1)
  BY <1>1, HostTyped
<1>4. b.pads = 0 => Q(b, s) \in Nat \ {0}
  BY BatchTyped
<1>5. ChunkRows(b, s, e) \in Nat /\ ChunkKeys(b, s, e) \in Nat
  BY <1>2, <1>3 DEF ChunkRows, ChunkKeys
<1>6. b.pads = 0 => ChunkRows(b, s, e) > 0
  BY <1>2, <1>4 DEF ChunkRows
<1>7. e = s => ChunkKeys(b, s, e) <= Workspace
  <2> SUFFICES ASSUME e = s PROVE ChunkKeys(b, s, e) <= Workspace
    OBVIOUS
  <2>1. Workspace \in Nat
    BY LaunchTyped DEF Ready
  <2>2. QED
    BY <1>3, <2>1 DEF ChunkKeys
<1>8. Pooled(Ub(b, s)) <= ChunkKeys(b, s, e)
  BY <1>3 DEF ChunkKeys
<1>9. DeviceKeys(b, e + 1) - DeviceKeys(b, s) <= ChunkKeys(b, s, e)
  <2> DEFINE S == {m \in Nat : s + m <= Rows(b) =>
                     DeviceKeys(b, s + m) - DeviceKeys(b, s)
                       <= HostKeys(b, s + m) - HostKeys(b, s)}
  <2>1. 0 \in S
    <3>1. s + 0 = s /\ DeviceKeys(b, s) \in Nat
      BY <1>1, DeviceTyped
    <3>2. QED
      BY <1>3, <3>1
  <2>2. ASSUME NEW m \in Nat, m \in S PROVE m + 1 \in S
    <3> SUFFICES ASSUME s + (m + 1) <= Rows(b)
                 PROVE  DeviceKeys(b, s + (m + 1)) - DeviceKeys(b, s)
                          <= HostKeys(b, s + (m + 1)) - HostKeys(b, s)
      OBVIOUS
    <3>1. PICK i \in 0..(Rows(b) - 1) : i = s + m /\ i + 1 = s + (m + 1)
      BY <1>1
    <3>2. i \in 0..Rows(b) /\ i + 1 \in 0..Rows(b)
      BY <1>1
    <3>3. DeviceKeys(b, i) - DeviceKeys(b, s) <= HostKeys(b, i) - HostKeys(b, s)
      BY <1>1, <2>2, <3>1
    <3>4. /\ DeviceKeys(b, i + 1) = DeviceKeys(b, i) + Pooled(Seq_(b, i))
          /\ Pooled(Seq_(b, i)) \in Nat
          /\ DeviceKeys(b, i) \in Nat /\ DeviceKeys(b, s) \in Nat
      BY <1>1, <3>2, DeviceTyped
    <3>5. /\ HostKeys(b, i + 1) = HostKeys(b, i) + Pooled(Ub(b, i))
          /\ Pooled(Ub(b, i)) \in Nat /\ Pooled(Seq_(b, i)) <= Pooled(Ub(b, i))
          /\ HostKeys(b, i) \in Nat
      BY <3>2, HostTyped
    <3>6. QED
      BY <1>3, <3>1, <3>3, <3>4, <3>5
  <2> HIDE DEF S
  <2>3. Nat \subseteq S
    BY <2>1, <2>2, Induct
  <2>4. PICK m \in Nat : s + m = e + 1
    <3>1. (e + 1) - s \in Nat /\ s + ((e + 1) - s) = e + 1
      BY <1>1
    <3>2. QED
      BY <3>1
  <2>5. QED
    BY <1>1, <2>3, <2>4 DEF S, ChunkKeys
<1>10. QED
  BY <1>3, <1>5, <1>6, <1>7, <1>8, <1>9

LEMMA ChunkEndIs ==
  ASSUME NEW b, Ready(b), NEW s \in 0..(Rows(b) - 1)
  PROVE  /\ ChunkEnd(b, s) \in s..(Rows(b) - 1)
         /\ ChunkEnd(b, s) = s \/ Fits(b, s, ChunkEnd(b, s))
         /\ ChunkKeys(b, s, ChunkEnd(b, s)) <= Workspace
<1> DEFINE T == {s} \cup {e \in s..(Rows(b) - 1) : \A i \in s..e : Fits(b, s, i)}
<1>1. Rows(b) \in Nat /\ Rows(b) - 1 \in Nat
  BY BatchTyped
<1>2. T \subseteq s..(Rows(b) - 1) /\ s \in T
  BY <1>1
<1>3. \A e \in T : e = s \/ Fits(b, s, e)
  <2> SUFFICES ASSUME NEW e \in T, e # s PROVE Fits(b, s, e)
    OBVIOUS
  <2>1. e \in s..e /\ \A i \in s..e : Fits(b, s, i)
    BY <1>1
  <2>2. QED
    BY <2>1
<1>4. ChunkEnd(b, s) = Max(T)
  BY DEF ChunkEnd
<1> HIDE DEF T
<1>5. T \subseteq Nat /\ T # {} /\ \A x \in T : x <= Rows(b) - 1
  BY <1>1, <1>2
<1>6. Max(T) \in T
  BY <1>1, <1>5, MaxIs
<1>7. PICK e \in s..(Rows(b) - 1) : e = ChunkEnd(b, s) /\ (e = s \/ Fits(b, s, e))
  BY <1>2, <1>3, <1>4, <1>6
<1>8. ChunkKeys(b, s, e) <= Workspace
  BY <1>7, ChunkSize DEF Fits
<1>9. QED
  BY <1>7, <1>8

(* Rows cut into pieces of n.                                               *)
LEMMA Pieces ==
  ASSUME NEW rows \in Nat \ {0}, NEW n \in Nat \ {0}, NEW p,
         p = (rows + n - 1) \div n
  PROVE  /\ p \in Nat \ {0} /\ rows <= p * n
         /\ \A k \in 1..p : (k - 1) * n \in Nat /\ (k - 1) * n < rows
                            /\ k * n = (k - 1) * n + n
         /\ \A k \in 1..(p - 1) : k * n < rows
<1> DEFINE a == rows + n - 1
           r == a % n
<1>1. a \in Nat /\ a = (rows + n) - 1
  OBVIOUS
<1>2. p \in Nat /\ r \in Nat /\ r < n /\ a = (p * n) + r
  BY <1>1, DivMod
<1>3. p * n \in Int
  BY <1>2
<1>4. p # 0
  <2> SUFFICES ASSUME p = 0 PROVE FALSE
    OBVIOUS
  <2>1. p * n = 0
    OBVIOUS
  <2> HIDE DEF r
  <2>2. QED
    BY <1>1, <1>2, <2>1
<1> HIDE DEF a, r
<1>5. rows <= p * n /\ p * n < rows + n
  BY <1>1, <1>2, <1>3
<1>6. \A k \in 1..p : (k - 1) * n \in Nat /\ k * n = (k - 1) * n + n
  <2> SUFFICES ASSUME NEW k \in 1..p PROVE (k - 1) * n \in Nat /\ k * n = (k - 1) * n + n
    OBVIOUS
  <2>1. PICK j \in Nat : k = j + 1
    <3>1. k - 1 \in Nat /\ k = (k - 1) + 1
      BY <1>2
    <3>2. QED
      BY <3>1
  <2>2. j * n \in Nat /\ (j + 1) * n = j * n + n
    OBVIOUS
  <2>3. QED
    BY <2>1, <2>2
<1>7. \A k \in 1..(p - 1) : k * n < rows
  <2> SUFFICES ASSUME NEW k \in 1..(p - 1) PROVE k * n < rows
    OBVIOUS
  <2>1. k * n + n <= p * n /\ k * n \in Int
    BY <1>2, MulMono
  <2>2. QED
    BY <1>3, <1>5, <2>1
<1>8. \A k \in 1..p : (k - 1) * n < rows
  <2> SUFFICES ASSUME NEW k \in 1..p PROVE (k - 1) * n < rows
    OBVIOUS
  <2>1. CASE k = 1
    <3>1. (k - 1) * n = 0
      BY <2>1
    <3>2. QED
      BY <3>1
  <2>2. CASE k # 1
    <3>1. k - 1 \in 1..(p - 1)
      BY <1>2, <2>2
    <3>2. QED
      BY <1>7, <3>1
  <2>3. QED
    BY <2>1, <2>2
<1>9. QED
  BY <1>2, <1>4, <1>5, <1>6, <1>7, <1>8

(* One slice: some rows of a chunk within the budgets.                      *)
Specs(b) ==
  {c \in [first : 0..(Rows(b) - 1), last : 0..(Rows(b) - 1), from : Nat, to : Nat] :
     /\ c.first <= c.last /\ c.from <= c.to /\ c.to < ChunkRows(b, c.first, c.last)
     /\ ChunkKeys(b, c.first, c.last) <= Workspace
     /\ c.to > c.from =>
          (c.to - c.from + 1) * ChunkKeys(b, c.first, c.last) <= MaxLogits}

LEMMA SliceRowsIs ==
  ASSUME NEW b, Ready(b), b.pads = 0, NEW s \in 0..(Rows(b) - 1), NEW e, e = ChunkEnd(b, s)
  PROVE  /\ SliceRows(b, s, e) \in Nat \ {0}
         /\ \A w \in 2..SliceRows(b, s, e) :
              w <= ChunkRows(b, s, e) => w * ChunkKeys(b, s, e) <= MaxLogits
<1> DEFINE keys == ChunkKeys(b, s, e)
           rows == ChunkRows(b, s, e)
           n == SliceRows(b, s, e)
<1>1. e \in s..(Rows(b) - 1) /\ (e = s \/ Fits(b, s, e))
  BY ChunkEndIs
<1>2. rows \in Nat \ {0} /\ keys \in Nat
  BY <1>1, ChunkSize
<1>3. MaxLogits \in Nat \ {0}
  BY LaunchTyped DEF Ready
<1>4. ASSUME NEW x \in Nat
      PROVE  Max({1, x}) = IF x >= 1 THEN x ELSE 1
  <2>1. {1, x} \subseteq Nat /\ {1, x} # {} /\ \A y \in {1, x} : y <= x + 1
    OBVIOUS
  <2>2. Max({1, x}) \in {1, x} /\ \A y \in {1, x} : y <= Max({1, x})
    BY <2>1, MaxIs
  <2>3. QED
    BY <2>2
<1>5. CASE keys = 0
  <2>1. n = Max({1, rows})
    BY <1>5 DEF SliceRows
  <2>2. n = rows
    BY <1>2, <1>4, <2>1
  <2>3. \A w \in 2..n : w * keys = 0
    BY <1>5
  <2>4. QED
    BY <1>2, <1>3, <2>2, <2>3
<1>6. CASE keys > 0
  <2> DEFINE d == MaxLogits \div keys
  <2>1. n = Max({1, d})
    BY <1>6 DEF SliceRows
  <2>2. d \in Nat /\ MaxLogits % keys \in Nat /\ MaxLogits = (d * keys) + (MaxLogits % keys)
    BY <1>2, <1>3, <1>6, DivMod
  <2> HIDE DEF d, keys
  <2>3. n = IF d >= 1 THEN d ELSE 1
    BY <1>4, <2>1, <2>2
  <2>4. d * keys \in Nat
    BY <1>2, <2>2
  <2>5. d * keys <= MaxLogits
    BY <1>3, <2>2, <2>4
  <2>6. \A w \in 2..n : w * keys <= d * keys
    <3> SUFFICES ASSUME NEW w \in 2..n PROVE w * keys <= d * keys
      OBVIOUS
    <3>1. w \in Nat /\ w <= d
      BY <2>2, <2>3
    <3>2. w = d \/ (w * keys + keys <= d * keys /\ w * keys \in Int)
      BY <1>2, <2>2, <3>1, MulMono
    <3>3. QED
      BY <1>2, <2>4, <3>2
  <2>7. \A w \in 2..n : w * keys \in Int
    BY <1>2
  <2>8. n \in Nat \ {0}
    BY <2>2, <2>3
  <2>9. \A w \in 2..n : w * keys <= MaxLogits
    BY <1>3, <2>4, <2>5, <2>6, <2>7
  <2>10. QED
    BY <2>8, <2>9 DEF keys
<1>7. QED
  BY <1>2, <1>5, <1>6

LEMMA SlicesRight ==
  ASSUME NEW b, Ready(b), b.pads = 0, NEW s \in 0..(Rows(b) - 1), NEW e, e = ChunkEnd(b, s),
         NEW q, q = Slices(b, s, e)
  PROVE  /\ q \in Seq(Specs(b)) /\ Len(q) \in Nat \ {0}
         /\ \A k \in 1..Len(q) : q[k].first = s /\ q[k].last = e
         /\ \A k \in 1..(Len(q) - 1) : q[k + 1].from = q[k].to + 1
         /\ q[1].from = 0 /\ q[Len(q)].to = ChunkRows(b, s, e) - 1
<1> DEFINE keys == ChunkKeys(b, s, e)
           rows == ChunkRows(b, s, e)
           n == SliceRows(b, s, e)
           p == (rows + n - 1) \div n
           to(k) == Min({k * n, rows}) - 1
           at(k) == [first |-> s, last |-> e, from |-> (k - 1) * n, to |-> to(k)]
<1>1. e \in s..(Rows(b) - 1) /\ (e = s \/ Fits(b, s, e)) /\ keys <= Workspace
  BY ChunkEndIs
<1>2. rows \in Nat \ {0} /\ keys \in Nat
  BY <1>1, ChunkSize
<1>3. /\ n \in Nat \ {0}
      /\ \A w \in 2..n : w <= rows => w * keys <= MaxLogits
  BY SliceRowsIs
<1>4. MaxLogits \in Nat \ {0} /\ Rows(b) \in Nat
  BY LaunchTyped, BatchTyped DEF Ready
<1>5. q = [k \in 1..p |-> at(k)]
  BY DEF Slices
<1> HIDE DEF keys, rows, n, p
<1>6. /\ p \in Nat \ {0} /\ rows <= p * n
      /\ \A k \in 1..p : (k - 1) * n \in Nat /\ (k - 1) * n < rows
                         /\ k * n = (k - 1) * n + n
      /\ \A k \in 1..(p - 1) : k * n < rows
  BY <1>2, <1>3, Pieces DEF p
<1>7. ASSUME NEW x \in Nat, NEW y \in Nat
      PROVE  Min({x, y}) = IF x <= y THEN x ELSE y
  <2>1. {x, y} \subseteq Nat /\ {x, y} # {}
    OBVIOUS
  <2>2. Min({x, y}) \in {x, y} /\ \A z \in {x, y} : Min({x, y}) <= z
    BY <2>1, MinIs
  <2>3. QED
    BY <2>2
<1>8. ASSUME NEW k \in 1..p
      PROVE  /\ to(k) \in Nat /\ (k - 1) * n \in Nat /\ (k - 1) * n <= to(k) /\ to(k) < rows
             /\ to(k) + 1 <= (k - 1) * n + n
             /\ k < p => to(k) = k * n - 1
             /\ k = p => to(k) = rows - 1
  <2>1. /\ (k - 1) * n \in Nat /\ (k - 1) * n < rows /\ k * n = (k - 1) * n + n
    BY <1>6
  <2>2. k * n \in Nat
    BY <1>3, <2>1
  <2>3. to(k) = (IF k * n <= rows THEN k * n ELSE rows) - 1
    BY <1>2, <1>7, <2>2
  <2> HIDE DEF to
  <2>4. k < p => k * n < rows
    BY <1>6
  <2>5. k = p => rows <= k * n
    BY <1>6
  <2>6. PICK x \in Nat, y \in Nat : x = (k - 1) * n /\ y = k * n
    BY <2>1, <2>2
  <2>7. QED
    BY <1>2, <1>3, <2>1, <2>3, <2>4, <2>5, <2>6
<1>9. ASSUME NEW k \in 1..p
      PROVE  to(k) > (k - 1) * n => (to(k) - (k - 1) * n + 1) * keys <= MaxLogits
  <2>1. PICK x \in Nat, y \in Nat : x = (k - 1) * n /\ y = to(k)
    BY <1>8
  <2>2. y < rows /\ y + 1 <= x + n
    BY <1>8, <2>1
  <2>3. ASSUME y > x PROVE (y - x + 1) * keys <= MaxLogits
    <3>1. y - x + 1 \in 2..n /\ y - x + 1 <= rows
      BY <1>2, <1>3, <2>2, <2>3
    <3>2. QED
      BY <1>3, <3>1
  <2>4. QED
    BY <2>1, <2>3
<1>10. \A k \in 1..p : at(k) \in Specs(b)
  <2> SUFFICES ASSUME NEW k \in 1..p PROVE at(k) \in Specs(b)
    OBVIOUS
  <2>1. PICK x \in Nat, y \in Nat : x = (k - 1) * n /\ y = to(k)
    BY <1>8
  <2>2. at(k) = [first |-> s, last |-> e, from |-> x, to |-> y]
    BY <2>1
  <2>3. x <= y /\ y < rows /\ (y > x => (y - x + 1) * keys <= MaxLogits)
    BY <1>8, <1>9, <2>1
  <2> HIDE DEF at, to
  <2>4. s \in 0..(Rows(b) - 1) /\ e \in 0..(Rows(b) - 1) /\ s <= e
    BY <1>1, <1>4
  <2>5. QED
    BY <1>1, <2>2, <2>3, <2>4 DEF Specs, keys, rows
<1> HIDE DEF at
<1>11. q \in Seq(Specs(b)) /\ Len(q) = p /\ \A k \in 1..p : q[k] = at(k)
  <2>1. [k \in 1..p |-> at(k)] \in Seq(Specs(b))
    BY <1>6, <1>10, IsASeq
  <2>2. Len([k \in 1..p |-> at(k)]) = p
    BY <1>6
  <2>3. QED
    BY <1>5, <2>1, <2>2
<1>12. \A k \in 1..p : q[k].first = s /\ q[k].last = e
                       /\ q[k].from = (k - 1) * n /\ q[k].to = to(k)
  <2> HIDE DEF to
  <2>1. \A k \in 1..p : at(k).first = s /\ at(k).last = e
                        /\ at(k).from = (k - 1) * n /\ at(k).to = to(k)
    BY DEF at
  <2>2. QED
    BY <1>11, <2>1
<1>13. \A k \in 1..(p - 1) : q[k + 1].from = q[k].to + 1
  <2> SUFFICES ASSUME NEW k \in 1..(p - 1) PROVE q[k + 1].from = q[k].to + 1
    OBVIOUS
  <2>1. k \in 1..p /\ k + 1 \in 1..p /\ k < p /\ (k + 1) - 1 = k
    BY <1>6
  <2>2. q[k].to = k * n - 1 /\ q[k + 1].from = k * n
    <3>1. q[k + 1].from = ((k + 1) - 1) * n
      BY <1>12, <2>1
    <3>2. QED
      BY <1>8, <1>12, <2>1, <3>1
  <2>3. k * n \in Nat
    BY <1>3, <2>1
  <2>4. QED
    BY <2>2, <2>3
<1>14. q[1].from = 0 /\ q[p].to = rows - 1
  <2>1. 1 \in 1..p /\ p \in 1..p /\ (1 - 1) * n = 0
    BY <1>3, <1>6
  <2>2. QED
    BY <1>8, <1>12, <2>1
<1>15. QED
  BY <1>6, <1>11, <1>12, <1>13, <1>14 DEF rows

(* A sequence of slices that covers the rows from request s on: one behind  *)
(* the other, and one that does not start its chunk is of the chunk before. *)
Behind(b, c, d) ==
  /\ Loc(b, d.first) + d.from = Loc(b, c.first) + c.to + 1
  /\ d.from > 0 => d.first = c.first /\ d.last = c.last

Sliced(b, s, q) ==
  /\ q \in Seq(Specs(b))
  /\ \A k \in 1..Len(q) : q[k].first >= s
  /\ \A k \in 1..(Len(q) - 1) : Behind(b, q[k], q[k + 1])
  /\ s = Rows(b) => q = <<>>
  /\ s # Rows(b) =>
       /\ Len(q) > 0 /\ q[1].first = s /\ q[1].from = 0
       /\ Loc(b, q[Len(q)].first) + q[Len(q)].to = Loc(b, Rows(b)) - 1

LEMMA SlicedStep ==
  ASSUME NEW b, Ready(b), b.pads = 0, NEW s \in 0..(Rows(b) - 1),
         NEW q, Sliced(b, ChunkEnd(b, s) + 1, q)
  PROVE  Sliced(b, s, Slices(b, s, ChunkEnd(b, s)) \o q)
<1>1. PICK e \in s..(Rows(b) - 1) : e = ChunkEnd(b, s)
  BY ChunkEndIs
<1>2. PICK r : r = Slices(b, s, e)
  OBVIOUS
<1>3. /\ r \in Seq(Specs(b)) /\ Len(r) \in Nat \ {0}
      /\ \A k \in 1..Len(r) : r[k].first = s /\ r[k].last = e
      /\ \A k \in 1..(Len(r) - 1) : r[k + 1].from = r[k].to + 1
      /\ r[1].from = 0 /\ r[Len(r)].to = ChunkRows(b, s, e) - 1
  BY <1>1, <1>2, SlicesRight
<1>4. /\ q \in Seq(Specs(b)) /\ Len(q) \in Nat
      /\ \A k \in 1..Len(q) : q[k].first >= e + 1
      /\ \A k \in 1..(Len(q) - 1) : Behind(b, q[k], q[k + 1])
      /\ e + 1 = Rows(b) => q = <<>>
      /\ e + 1 # Rows(b) =>
           /\ Len(q) > 0 /\ q[1].first = e + 1 /\ q[1].from = 0
           /\ Loc(b, q[Len(q)].first) + q[Len(q)].to = Loc(b, Rows(b)) - 1
  BY <1>1 DEF Sliced
<1>5. PICK w : w = r \o q
  OBVIOUS
<1>6. /\ w \in Seq(Specs(b)) /\ Len(w) = Len(r) + Len(q)
      /\ \A i \in 1..(Len(r) + Len(q)) : w[i] = IF i <= Len(r) THEN r[i] ELSE q[i - Len(r)]
  BY <1>3, <1>4, <1>5, ConcatProperties
<1>7. PICK m \in Nat \ {0}, n \in Nat : m = Len(r) /\ n = Len(q)
  BY <1>3, <1>4
<1>8. /\ \A i \in 1..m : w[i] = r[i]
      /\ \A i \in 1..n : w[m + i] = q[i]
  <2>1. \A i \in 1..m : i \in 1..(m + n) /\ i <= m
    OBVIOUS
  <2>2. \A i \in 1..n : m + i \in 1..(m + n) /\ ~(m + i <= m) /\ (m + i) - m = i
    OBVIOUS
  <2>3. QED
    BY <1>6, <1>7, <2>1, <2>2, SMTT(30)
<1>9. /\ Rows(b) \in Nat /\ s \in 0..Rows(b) /\ e + 1 \in 0..Rows(b)
  BY BatchTyped
<1>10. /\ Loc(b, s) \in Nat /\ Loc(b, e + 1) \in Nat /\ Loc(b, Rows(b)) \in Nat
       /\ ChunkRows(b, s, e) = Loc(b, e + 1) - Loc(b, s)
  BY <1>9, LocTyped DEF ChunkRows
<1>11. \A k \in 1..Len(q) : q[k].first \in Nat /\ q[k].to \in Nat
  <2> SUFFICES ASSUME NEW k \in 1..Len(q) PROVE q[k].first \in Nat /\ q[k].to \in Nat
    OBVIOUS
  <2>1. q[k] \in Specs(b)
    BY <1>4, ElementOfSeq
  <2>2. QED
    BY <2>1 DEF Specs
<1>12. \A k \in 1..Len(r) : r[k].to \in Nat
  <2> SUFFICES ASSUME NEW k \in 1..Len(r) PROVE r[k].to \in Nat
    OBVIOUS
  <2>1. r[k] \in Specs(b)
    BY <1>3, ElementOfSeq
  <2>2. QED
    BY <2>1 DEF Specs
<1>13. \A i \in 1..(m + n) : i \in 1..m \/ \E j \in 1..n : i = m + j
  <2> SUFFICES ASSUME NEW i \in 1..(m + n), ~(i \in 1..m) PROVE \E j \in 1..n : i = m + j
    OBVIOUS
  <2>1. i - m \in 1..n /\ i = m + (i - m)
    OBVIOUS
  <2>2. QED
    BY <2>1
<1>14. \A k \in 1..Len(w) : w[k].first >= s
  <2> SUFFICES ASSUME NEW k \in 1..(m + n) PROVE w[k].first >= s
    BY <1>6, <1>7
  <2>1. CASE k \in 1..m
    BY <1>3, <1>7, <1>8, <2>1
  <2>2. ASSUME NEW j \in 1..n, k = m + j PROVE w[k].first >= s
    <3>1. w[k] = q[j] /\ q[j].first >= e + 1 /\ q[j].first \in Nat
      BY <1>4, <1>7, <1>8, <1>11, <2>2
    <3>2. QED
      BY <1>1, <3>1
  <2>3. QED
    BY <1>13, <2>1, <2>2
<1>15. ASSUME NEW k \in 1..(Len(w) - 1) PROVE Behind(b, w[k], w[k + 1])
  <2>1. k \in 1..(m + n) /\ k + 1 \in 1..(m + n) /\ k <= (m + n) - 1
    BY <1>6, <1>7
  <2>2. CASE k \in 1..(m - 1)
    <3>1. k \in 1..m /\ k + 1 \in 1..m
      BY <2>2
    <3>2. /\ w[k] = r[k] /\ w[k + 1] = r[k + 1] /\ r[k + 1].from = r[k].to + 1
          /\ r[k].first = s /\ r[k + 1].first = s /\ r[k].last = e /\ r[k + 1].last = e
          /\ r[k].to \in Nat
      BY <1>3, <1>7, <1>8, <1>12, <2>2, <3>1
    <3>3. QED
      BY <1>10, <3>2 DEF Behind
  <2>3. CASE k = m
    <3>1. n > 0 /\ 1 \in 1..n /\ m \in 1..m
      BY <2>1, <2>3
    <3>2. e + 1 # Rows(b)
      <4> SUFFICES ASSUME e + 1 = Rows(b) PROVE FALSE
        OBVIOUS
      <4>1. q = <<>>
        BY <1>4
      <4>2. QED
        BY <1>7, <3>1, <4>1
    <3>3. w[k] = r[m] /\ w[k + 1] = q[1] /\ q[1].first = e + 1 /\ q[1].from = 0
          /\ r[m].first = s /\ r[m].to = ChunkRows(b, s, e) - 1
      BY <1>3, <1>4, <1>7, <1>8, <2>3, <3>1, <3>2
    <3>4. QED
      BY <1>10, <3>3 DEF Behind
  <2>4. CASE k > m
    <3>1. PICK j \in 1..(n - 1) : k = m + j /\ k + 1 = m + (j + 1)
      <4>1. k - m \in 1..(n - 1) /\ k = m + (k - m) /\ k + 1 = m + ((k - m) + 1)
        BY <2>1, <2>4
      <4>2. QED
        BY <4>1
    <3>2. j \in 1..n /\ j + 1 \in 1..n
      OBVIOUS
    <3>3. w[k] = q[j] /\ w[k + 1] = q[j + 1]
      BY <1>8, <3>1, <3>2
    <3>4. QED
      BY <1>4, <1>7, <3>3
  <2>5. QED
    BY <2>1, <2>2, <2>3, <2>4
<1>16. Len(w) > 0 /\ w[1].first = s /\ w[1].from = 0
  BY <1>3, <1>6, <1>7, <1>8
<1>17. Loc(b, w[Len(w)].first) + w[Len(w)].to = Loc(b, Rows(b)) - 1
  <2>1. CASE e + 1 = Rows(b)
    <3>1. n = 0
      BY <1>4, <1>7, <2>1
    <3>2. w[Len(w)] = r[m] /\ r[m].first = s /\ r[m].to = ChunkRows(b, s, e) - 1
      BY <1>3, <1>6, <1>7, <1>8, <3>1
    <3>3. QED
      BY <1>10, <2>1, <3>2
  <2>2. CASE e + 1 # Rows(b)
    <3>1. n > 0 /\ n \in 1..n
      BY <1>4, <1>7, <2>2
    <3>2. w[Len(w)] = q[n]
      BY <1>6, <1>7, <1>8, <3>1
    <3>3. QED
      BY <1>4, <1>7, <2>2, <3>2
  <2>3. QED
    BY <2>1, <2>2
<1>18. s # Rows(b)
  BY <1>9
<1>19. Sliced(b, s, w)
  BY <1>6, <1>14, <1>15, <1>16, <1>17, <1>18 DEF Sliced
<1>20. QED
  BY <1>1, <1>2, <1>5, <1>19

(* f has the slices from each request on, down to request a.                *)
FromIs(f, b, a) ==
  f = [s \in a..Rows(b) |->
         IF s = Rows(b) THEN <<>>
         ELSE Slices(b, s, ChunkEnd(b, s)) \o f[ChunkEnd(b, s) + 1]]

LEMMA FromExists ==
  ASSUME NEW b, Ready(b)
  PROVE  \E f : FromIs(f, b, 0)
<1> DEFINE R == Rows(b)
           S == {m \in Nat : m <= R => \E f : FromIs(f, b, R - m)}
<1>1. R \in Nat
  BY BatchTyped
<1>2. \A s \in 0..(R - 1) : ChunkEnd(b, s) \in s..(R - 1)
  BY ChunkEndIs
<1> HIDE DEF R
<1>3. 0 \in S
  <2> DEFINE f == [s \in R..R |-> <<>>]
  <2>1. R - 0 = R /\ \A s \in R..R : s = R
    BY <1>1
  <2>2. FromIs(f, b, R)
    BY <2>1 DEF FromIs, R
  <2>3. QED
    BY <2>1, <2>2
<1>4. ASSUME NEW m \in Nat, m \in S PROVE m + 1 \in S
  <2> SUFFICES ASSUME m + 1 <= R PROVE \E f : FromIs(f, b, R - (m + 1))
    OBVIOUS
  <2>1. PICK a \in 0..(R - 1) : a = R - (m + 1) /\ a + 1 = R - m
    <3>1. R - (m + 1) \in 0..(R - 1) /\ (R - (m + 1)) + 1 = R - m
      BY <1>1
    <3>2. QED
      BY <3>1
  <2>2. PICK f : FromIs(f, b, a + 1)
    BY <1>1, <1>4, <2>1
  <2> DEFINE sl(s) == Slices(b, s, ChunkEnd(b, s))
             g == [s \in a..R |-> IF s = R THEN <<>> ELSE sl(s) \o f[ChunkEnd(b, s) + 1]]
  <2> HIDE DEF sl
  <2>3. f = [s \in (a + 1)..R |-> IF s = R THEN <<>> ELSE sl(s) \o f[ChunkEnd(b, s) + 1]]
    BY <2>2 DEF FromIs, R, sl
  <2>4. \A s \in (a + 1)..R : s \in a..R
    BY <1>1
  <2>5. \A s \in (a + 1)..R : g[s] = f[s]
    BY <2>3, <2>4
  <2>6. \A s \in a..R : s # R => ChunkEnd(b, s) + 1 \in (a + 1)..R
    BY <1>1, <1>2
  <2>7. g = [s \in a..R |-> IF s = R THEN <<>> ELSE sl(s) \o g[ChunkEnd(b, s) + 1]]
    BY <2>5, <2>6
  <2> HIDE DEF g
  <2>8. FromIs(g, b, a)
    BY <2>7 DEF FromIs, R, sl
  <2>9. QED
    BY <2>1, <2>8
<1> HIDE DEF S
<1>5. Nat \subseteq S
  BY <1>3, <1>4, Induct
<1>6. R - R = 0 /\ R <= R
  BY <1>1
<1>7. \E f : FromIs(f, b, R - R)
  BY <1>1, <1>5, <1>6 DEF S
<1>8. QED
  BY <1>6, <1>7

(* The slices of a batch cover its prefills.                                *)
LEMMA SpecsRight ==
  ASSUME NEW b, Ready(b), NumDecodes(b) < Rows(b)
  PROVE  /\ Sliced(b, NumDecodes(b), ChunkSpecs(b))
         /\ b.pads = 0 /\ Rows(b) = Reqs(b) /\ NumDecodes(b) \in 0..(Rows(b) - 1)
<1> DEFINE R == Rows(b)
           f == CHOOSE f : FromIs(f, b, 0)
<1>1. R \in Nat /\ NumDecodes(b) \in 0..(R - 1)
  BY BatchTyped, DecodesTyped
<1>2. b.pads = 0 /\ R = Reqs(b)
  BY DecodesTyped
<1>3. FromIs(f, b, 0)
  BY FromExists
<1>4. ChunkSpecs(b) = f[NumDecodes(b)]
  BY DEF ChunkSpecs, FromIs
<1> HIDE DEF f
<1>5. f[R] = <<>> /\ \A s \in 0..(R - 1) :
        f[s] = Slices(b, s, ChunkEnd(b, s)) \o f[ChunkEnd(b, s) + 1]
  <2> DEFINE sl(s) == Slices(b, s, ChunkEnd(b, s))
  <2> HIDE DEF sl, R
  <2>1. f = [s \in 0..R |-> IF s = R THEN <<>> ELSE sl(s) \o f[ChunkEnd(b, s) + 1]]
    BY <1>3 DEF FromIs, sl, R
  <2>2. R \in 0..R /\ \A s \in 0..(R - 1) : s \in 0..R /\ s # R
    BY <1>1
  <2>3. f[R] = <<>> /\ \A s \in 0..(R - 1) : f[s] = sl(s) \o f[ChunkEnd(b, s) + 1]
    BY <2>1, <2>2
  <2>4. QED
    BY <2>3 DEF sl
<1>6. \A s \in 0..(R - 1) : ChunkEnd(b, s) \in s..(R - 1)
  BY ChunkEndIs
<1> DEFINE S == {m \in Nat : \A s \in 0..R : s + m >= R => Sliced(b, s, f[s])}
<1>7. 0 \in S
  <2>1. \A s \in 0..R : s + 0 >= R => s = R
    BY <1>1
  <2>2. <<>> \in Seq(Specs(b)) /\ Len(<<>>) = 0
    OBVIOUS
  <2>3. Sliced(b, R, <<>>)
    BY <2>2 DEF Sliced
  <2>4. QED
    BY <1>5, <2>1, <2>3
<1>8. ASSUME NEW m \in Nat, m \in S PROVE m + 1 \in S
  <2> SUFFICES ASSUME NEW s \in 0..R, s + (m + 1) >= R PROVE Sliced(b, s, f[s])
    OBVIOUS
  <2>1. CASE s = R
    BY <1>1, <1>8, <2>1
  <2>2. CASE s # R
    <3>1. s \in 0..(R - 1)
      BY <1>1, <2>2
    <3>2. PICK e \in s..(R - 1) : e = ChunkEnd(b, s)
      BY <1>6, <3>1
    <3>3. e + 1 \in 0..R /\ (e + 1) + m >= R
      BY <1>1
    <3>4. Sliced(b, ChunkEnd(b, s) + 1, f[ChunkEnd(b, s) + 1])
      BY <1>8, <3>2, <3>3
    <3>5. QED
      BY <1>2, <1>5, <3>1, <3>4, SlicedStep, ZenonT(60)
  <2>3. QED
    BY <2>1, <2>2
<1> HIDE DEF S
<1>9. Nat \subseteq S
  BY <1>7, <1>8, Induct
<1>10. NumDecodes(b) \in 0..R /\ NumDecodes(b) + R >= R
  BY <1>1
<1>11. Sliced(b, NumDecodes(b), f[NumDecodes(b)])
  BY <1>1, <1>9, <1>10 DEF S
<1>12. QED
  BY <1>1, <1>2, <1>4, <1>11

(* What ChunksFit says of a batch.                                          *)
LEMMA SpecsFit ==
  ASSUME NEW b, Ready(b), NumDecodes(b) < Rows(b),
         NEW specs, specs = ChunkSpecs(b)
  PROVE  /\ \A k \in DOMAIN specs :
              LET c == specs[k]
                  keys == ChunkKeys(b, c.first, c.last)
              IN /\ keys <= Workspace
                 /\ c.to > c.from => (c.to - c.from + 1) * keys <= MaxLogits
                 /\ c.from <= c.to
                 /\ Loc(b, c.first) + c.from =
                      IF k = 1 THEN DecodeTokens(b)
                      ELSE Loc(b, specs[k - 1].first) + specs[k - 1].to + 1
         /\ Loc(b, specs[Len(specs)].first) + specs[Len(specs)].to = b.tokens - 1
<1>1. /\ Sliced(b, NumDecodes(b), specs)
      /\ b.pads = 0 /\ Rows(b) = Reqs(b) /\ NumDecodes(b) \in 0..(Rows(b) - 1)
  BY SpecsRight
<1>2. /\ specs \in Seq(Specs(b)) /\ Len(specs) \in Nat \ {0}
      /\ \A k \in 1..(Len(specs) - 1) : Behind(b, specs[k], specs[k + 1])
      /\ specs[1].first = NumDecodes(b) /\ specs[1].from = 0
      /\ Loc(b, specs[Len(specs)].first) + specs[Len(specs)].to = Loc(b, Rows(b)) - 1
  BY <1>1 DEF Sliced
<1>3. DecodeTokens(b) = Loc(b, NumDecodes(b)) /\ b.tokens = Loc(b, Rows(b))
      /\ DecodeTokens(b) \in Nat
  BY <1>1, DecodeTokensTyped, BatchSize
<1>4. ASSUME NEW k \in DOMAIN specs, NEW c, c = specs[k]
      PROVE  /\ ChunkKeys(b, c.first, c.last) <= Workspace
             /\ c.to > c.from =>
                  (c.to - c.from + 1) * ChunkKeys(b, c.first, c.last) <= MaxLogits
             /\ c.from <= c.to
             /\ Loc(b, c.first) + c.from =
                  IF k = 1 THEN DecodeTokens(b)
                  ELSE Loc(b, specs[k - 1].first) + specs[k - 1].to + 1
  <2>1. k \in 1..Len(specs)
    BY <1>2
  <2>2. c \in Specs(b)
    BY <1>2, <1>4, <2>1, ElementOfSeq
  <2>3. k # 1 => k - 1 \in 1..(Len(specs) - 1) /\ (k - 1) + 1 = k
    BY <1>2, <2>1
  <2>4. k = 1 => Loc(b, c.first) + c.from = DecodeTokens(b)
    <3> SUFFICES ASSUME k = 1 PROVE Loc(b, c.first) + c.from = DecodeTokens(b)
      OBVIOUS
    <3>1. c.from = 0 /\ c.first = NumDecodes(b)
      BY <1>2, <1>4
    <3>2. QED
      BY <1>3, <3>1
  <2>5. k # 1 => Loc(b, c.first) + c.from = Loc(b, specs[k - 1].first) + specs[k - 1].to + 1
    BY <1>2, <1>4, <2>3 DEF Behind
  <2>6. QED
    BY <2>2, <2>4, <2>5 DEF Specs
<1>5. QED
  BY <1>2, <1>3, <1>4

LEMMA ChunkGood ==
  ASSUME NEW b, Ready(b), b.pads = 0, NEW c \in Specs(b), NEW k, k = Chunk(b, c)
  PROVE  /\ GoodChunk(b, k)
         /\ k.first = c.first /\ k.last = c.last /\ (k.skip <=> c.from > 0)
         /\ \A t \in Nat : InChunk(k, t) <=>
              Loc(b, c.first) + c.from <= t /\ t <= Loc(b, c.first) + c.to
<1>1. /\ c.first \in 0..(Rows(b) - 1) /\ c.last \in c.first..(Rows(b) - 1)
      /\ c.from \in Nat /\ c.to \in Nat /\ c.from <= c.to
      /\ c.to < ChunkRows(b, c.first, c.last) /\ ChunkKeys(b, c.first, c.last) <= Workspace
  BY DEF Specs
<1>2. Rows(b) = Reqs(b) /\ Reqs(b) \in Nat \ {0} /\ Workspace \in Nat
  BY BatchSize, BatchTyped, LaunchTyped DEF Ready
<1>3. PICK s \in 0..(Rows(b) - 1), e \in 0..(Rows(b) - 1), from \in Nat, to \in Nat :
        s = c.first /\ e = c.last /\ from = c.from /\ to = c.to /\ e \in s..(Rows(b) - 1)
  BY <1>1
<1>4. s \in 0..Rows(b) /\ e + 1 \in 0..Rows(b) /\ Rows(b) \in 0..Rows(b) /\ e + 1 <= Rows(b)
  BY <1>2
<1>5. /\ Loc(b, s) \in Nat /\ Loc(b, e + 1) \in Nat /\ Loc(b, Rows(b)) \in Nat
      /\ Loc(b, e + 1) <= Loc(b, Rows(b))
      /\ from <= to /\ Loc(b, s) + to < Loc(b, e + 1)
  BY <1>1, <1>3, <1>4, LocTyped DEF ChunkRows
<1>6. DeviceKeys(b, e + 1) - DeviceKeys(b, s) <= Workspace
  <2>1. DeviceKeys(b, e + 1) - DeviceKeys(b, s) <= ChunkKeys(b, s, e)
        /\ ChunkKeys(b, s, e) \in Nat
    BY <1>3, ChunkSize
  <2>2. DeviceKeys(b, e + 1) \in Nat /\ DeviceKeys(b, s) \in Nat
    BY <1>4, DeviceTyped
  <2>3. QED
    BY <1>1, <1>2, <1>3, <2>1, <2>2
<1> DEFINE row(t) == RowOf(b, t)
           at(i) == DeviceKeys(b, i) - DeviceKeys(b, s)
           n == (to - from) + 1
           token(r) == Loc(b, s) + from + r
<1>7. /\ k.first = s /\ k.last = e /\ k.token = Loc(b, s) + from + 0 /\ k.rows = n
      /\ k.ks = [r \in Below(n) |-> at(row(token(r)))]
      /\ k.ke = [r \in Below(n) |-> at(row(token(r))) + Pooled(Position(b, token(r)) + 1)]
      /\ k.skip = (from > 0)
  BY <1>3 DEF Chunk, SkipsGather
<1>8. k.token = Loc(b, s) + from /\ k.token \in Nat /\ k.rows \in Nat
  BY <1>5, <1>7
<1>9. \A t \in Nat : InChunk(k, t) <=> Loc(b, s) + from <= t /\ t <= Loc(b, s) + to
  BY <1>5, <1>7, <1>8 DEF InChunk
<1>10. ASSUME NEW t \in Nat, InChunk(k, t)
       PROVE  /\ t < Loc(b, Reqs(b)) /\ RowOf(b, t) \in s..e
              /\ k.ks[t - k.token] = at(RowOf(b, t))
              /\ k.ke[t - k.token] = at(RowOf(b, t)) + Pooled(Position(b, t) + 1)
  <2>1. Loc(b, s) + from <= t /\ t <= Loc(b, s) + to
    BY <1>9, <1>10
  <2>2. t < Loc(b, Reqs(b)) /\ Loc(b, s) <= t /\ t < Loc(b, e + 1)
    BY <1>2, <1>5, <2>1
  <2>3. PICK i \in 0..(Reqs(b) - 1) : i = RowOf(b, t) /\ Holds(b, i, t)
    BY <2>2, RowOfIs
  <2>4. i \in 0..Rows(b) /\ i + 1 \in 0..Rows(b)
    BY <1>2
  <2>5. /\ Loc(b, i) \in Nat /\ Loc(b, i + 1) \in Nat
        /\ i + 1 <= s => Loc(b, i + 1) <= Loc(b, s)
        /\ e + 1 <= i => Loc(b, e + 1) <= Loc(b, i)
    BY <1>4, <2>4, LocTyped
  <2>6. i \in s..e
    BY <1>5, <2>2, <2>3, <2>5 DEF Holds
  <2>7. PICK r \in Below(n) : r = t - k.token
    BY <1>5, <1>8, <2>1 DEF Below
  <2>8. token(r) = t
    BY <1>5, <1>8, <2>7 DEF Below
  <2> HIDE DEF at, row, token, n
  <2>9. /\ k.ks[r] = at(row(token(r)))
        /\ k.ke[r] = at(row(token(r))) + Pooled(Position(b, token(r)) + 1)
    BY <1>7, <2>7
  <2>10. QED
    BY <2>2, <2>3, <2>6, <2>7, <2>8, <2>9 DEF row
<1>11. KeysFrom(b, k, k.last + 1) <= Workspace /\ \A i : KeysFrom(b, k, i) = at(i)
  BY <1>6, <1>7 DEF KeysFrom
<1>12. k.skip \in BOOLEAN
  BY <1>7
<1>13. GoodChunk(b, k)
  <2> HIDE DEF at, row, token, n
  <2>1. k.first \in 0..(Reqs(b) - 1) /\ k.last \in k.first..(Reqs(b) - 1)
    BY <1>2, <1>3, <1>7
  <2>2. \A t \in Nat : InChunk(k, t) =>
          /\ t < Loc(b, Reqs(b)) /\ RowOf(b, t) \in k.first..k.last
          /\ k.ks[t - k.token] = KeysFrom(b, k, RowOf(b, t))
          /\ k.ke[t - k.token] = KeysFrom(b, k, RowOf(b, t)) + Pooled(Position(b, t) + 1)
    <3> SUFFICES ASSUME NEW t \in Nat, InChunk(k, t)
                 PROVE  /\ t < Loc(b, Reqs(b)) /\ RowOf(b, t) \in k.first..k.last
                        /\ k.ks[t - k.token] = KeysFrom(b, k, RowOf(b, t))
                        /\ k.ke[t - k.token]
                             = KeysFrom(b, k, RowOf(b, t)) + Pooled(Position(b, t) + 1)
      OBVIOUS
    <3>1. KeysFrom(b, k, RowOf(b, t)) = at(RowOf(b, t)) /\ k.first = s /\ k.last = e
      BY <1>7, <1>11
    <3>2. QED
      BY <1>10, <3>1
  <2>3. QED
    BY <1>8, <1>11, <1>12, <2>1, <2>2 DEF GoodChunk
<1>14. QED
  BY <1>3, <1>7, <1>9, <1>13

(* Unless the prefills are short, every one of them has a pooled key.       *)
LEMMA KeyedPrefill ==
  ASSUME NEW b, Ready(b), RowsAssumed, NumDecodes(b) < Rows(b),
         Plain \/ ~(MaxPrefillLen(b) <= TopK),
         NEW i \in NumDecodes(b)..(Rows(b) - 1)
  PROVE  Pooled(Ub(b, i)) > 0
<1> DEFINE D == NumDecodes(b)
           R == Rows(b)
<1>1. R \in Nat \ {0} /\ D \in 0..(R - 1) /\ R = Reqs(b) /\ R = Len(b.reqs) /\ b.pads = 0
  BY BatchTyped, SpecsRight DEF Reqs
<1>2. /\ \A j \in D..(R - 1) : /\ Ub(b, j) = b.reqs[j + 1].ub /\ Ub(b, j) \in Nat \ {0}
                               /\ ~Leading(launch, b, j + 1)
      /\ KPool \in Nat \ {0} /\ TopK \in Nat
  <2>1. ASSUME NEW j \in D..(R - 1)
        PROVE  /\ Ub(b, j) = b.reqs[j + 1].ub /\ Ub(b, j) \in Nat \ {0}
               /\ ~Leading(launch, b, j + 1)
    <3>1. j \in 0..(Reqs(b) - 1) /\ ~(j < D)
      BY <1>1
    <3>2. /\ Ub(b, j) = b.reqs[j + 1].ub /\ Ub(b, j) \in Nat
          /\ Q(b, j) \in Nat \ {0} /\ Seq_(b, j) \in Nat
          /\ Q(b, j) <= Seq_(b, j) /\ Seq_(b, j) <= Ub(b, j)
      BY <3>1, BatchTyped
    <3>3. ~Leading(launch, b, j + 1)
      BY <3>1, DecodesTyped
    <3>4. QED
      BY <3>2, <3>3
  <2>2. QED
    BY <2>1, LaunchTyped DEF Ready
<1>3. Keyed(launch, b)
  BY DEF RowsAssumed, Ready
<1>4. \A j \in D..(R - 1) : j + 1 \in 1..R
  BY <1>1
<1>5. Ub(b, i) >= KPool
  <2>1. CASE Plain
    BY <1>2, <2>1 DEF Plain
  <2>2. CASE ~(MaxPrefillLen(b) <= TopK)
    <3>1. ~(\A j \in 1..R : Leading(launch, b, j) \/ b.reqs[j].ub <= launch.topk)
      <4> SUFFICES ASSUME \A j \in 1..R : Leading(launch, b, j) \/ b.reqs[j].ub <= launch.topk
                   PROVE  MaxPrefillLen(b) <= TopK
        BY <2>2
      <4>1. \A j \in D..(R - 1) : Ub(b, j) <= TopK
        BY <1>2, <1>4 DEF TopK
      <4> DEFINE S == {Ub(b, j) : j \in D..(R - 1)}
      <4>2. MaxPrefillLen(b) = Max(S)
        BY DEF MaxPrefillLen
      <4>3. S \subseteq Nat /\ S # {} /\ \A x \in S : x <= TopK
        BY <1>1, <1>2, <4>1
      <4> HIDE DEF S
      <4>4. Max(S) \in S
        BY <1>2, <4>3, MaxIs
      <4>5. QED
        BY <4>2, <4>3, <4>4
    <3>2. \A j \in 1..R : Leading(launch, b, j) \/ b.reqs[j].ub >= launch.kpool
      BY <1>1, <1>3, <3>1 DEF Keyed
    <3>3. QED
      BY <1>2, <1>4, <3>2 DEF KPool
  <2>3. QED
    BY <2>1, <2>2
<1>6. QED
  <2>1. Ub(b, i) \in Nat
    BY <1>2
  <2>2. (1 * KPool + 0) \div KPool = 1 /\ 1 * KPool + 0 = KPool
    BY <1>2, DivUnique
  <2>3. KPool \div KPool <= Ub(b, i) \div KPool /\ Ub(b, i) \div KPool \in Nat
    BY <1>2, <1>5, <2>1, DivMono, DivMod
  <2>4. QED
    BY <2>2, <2>3 DEF Pooled

(* A list of chunks: one that does not gather has the requests of the chunk *)
(* before it.                                                               *)
ChunkList(b, cs) ==
  /\ \E S : cs \in Seq(S)
  /\ \A k \in 1..Len(cs) : GoodChunk(b, cs[k])
  /\ \A k \in 1..(Len(cs) - 1) :
       cs[k + 1].skip => cs[k + 1].first = cs[k].first /\ cs[k + 1].last = cs[k].last

(* Token t is in one of the chunks.                                         *)
InSome(cs, t) == \E k \in 1..Len(cs) : InChunk(cs[k], t)

LEMMA ChunksAre ==
  ASSUME NEW b, Ready(b), NEW specs, specs = ChunkSpecs(b), specs \in Seq(Specs(b)),
         \A k \in 1..Len(specs) : ChunkKeys(b, specs[k].first, specs[k].last) # 0,
         NEW cs, cs = Chunks(b)
  PROVE  /\ (\E S : cs \in Seq(S)) /\ Len(cs) = Len(specs)
         /\ \A k \in 1..Len(specs) : cs[k] = Chunk(b, specs[k])
<1> DEFINE ch(k) == Chunk(b, specs[k])
           S == {ch(k) : k \in 1..Len(specs)}
           first(k) == [j \in 1..k |-> ch(j)]
           UpTo(f) == f = [k \in 0..Len(specs) |->
                             IF k = 0 THEN <<>>
                             ELSE IF ch(k).total = 0 THEN f[k - 1]
                             ELSE Append(f[k - 1], ch(k))]
           f == CHOOSE f : UpTo(f)
<1>1. PICK n \in Nat : n = Len(specs)
  OBVIOUS
<1>2. \A k \in 1..n : ch(k).total # 0
  BY <1>1 DEF Chunk
<1>3. cs = f[n]
  BY <1>1 DEF Chunks
<1> HIDE DEF ch, f
<1>4. \A k \in 0..n : first(k) \in Seq(S) /\ Len(first(k)) = k
                      /\ \A j \in 1..k : first(k)[j] = ch(j)
  <2> SUFFICES ASSUME NEW k \in 0..n
               PROVE  first(k) \in Seq(S) /\ Len(first(k)) = k
                      /\ \A j \in 1..k : first(k)[j] = ch(j)
    OBVIOUS
  <2>1. \A j \in 1..k : ch(j) \in S
    BY <1>1
  <2> HIDE DEF S
  <2>2. first(k) \in Seq(S)
    BY <2>1, IsASeq
  <2>3. QED
    BY <2>2
<1>5. \A k \in 1..n : first(k) = Append(first(k - 1), ch(k))
  <2> SUFFICES ASSUME NEW k \in 1..n PROVE first(k) = Append(first(k - 1), ch(k))
    OBVIOUS
  <2>1. k - 1 \in 0..n /\ k \in 0..n /\ ch(k) \in S
    BY <1>1
  <2>2. PICK p \in Seq(S) : p = first(k - 1) /\ Len(p) = k - 1 /\ \A j \in 1..(k - 1) : p[j] = ch(j)
    BY <1>4, <2>1
  <2>3. PICK q \in Seq(S) : q = first(k) /\ Len(q) = k /\ \A j \in 1..k : q[j] = ch(j)
    BY <1>4, <2>1
  <2> HIDE DEF S, first
  <2>4. PICK a : a = Append(p, ch(k))
    OBVIOUS
  <2>5. /\ a \in Seq(S) /\ Len(a) = Len(p) + 1
        /\ \A j \in 1..Len(p) : a[j] = p[j]
        /\ a[Len(p) + 1] = ch(k)
    BY <2>1, <2>4, AppendProperties
  <2>6. Len(a) = k /\ \A j \in 1..k : a[j] = ch(j)
    <3>1. Len(a) = k /\ a[k] = ch(k)
      BY <2>1, <2>2, <2>5
    <3>2. \A j \in 1..(k - 1) : a[j] = ch(j)
      BY <2>2, <2>5
    <3>3. \A j \in 1..k : j = k \/ j \in 1..(k - 1)
      OBVIOUS
    <3>4. QED
      BY <3>1, <3>2, <3>3
  <2>7. a = q
    BY <2>3, <2>5, <2>6, SeqEqual
  <2>8. QED
    BY <2>2, <2>3, <2>4, <2>7
<1> HIDE DEF first
<1>6. first(0) = <<>>
  <2> HIDE DEF S
  <2>1. PICK p \in Seq(S) : p = first(0) /\ Len(p) = 0
    <3>1. 0 \in 0..n
      OBVIOUS
    <3>2. QED
      BY <1>4, <3>1
  <2>2. p = <<>>
    BY <2>1
  <2>3. QED
    BY <2>1, <2>2
<1>7. UpTo(f)
  <2> DEFINE g == [k \in 0..Len(specs) |-> first(k)]
  <2>1. \A k \in 0..n : g[k] = first(k)
    BY <1>1
  <2>2. \A k \in 0..n : k # 0 => k - 1 \in 0..n /\ k \in 1..n
    OBVIOUS
  <2>3. g = [k \in 0..n |-> IF k = 0 THEN <<>>
                            ELSE IF ch(k).total = 0 THEN g[k - 1]
                            ELSE Append(g[k - 1], ch(k))]
    <3>1. ASSUME NEW k \in 0..n
          PROVE  g[k] = IF k = 0 THEN <<>>
                        ELSE IF ch(k).total = 0 THEN g[k - 1]
                        ELSE Append(g[k - 1], ch(k))
      <4>1. k = 0 => g[k] = <<>>
        BY <1>6, <2>1
      <4>2. k # 0 => ch(k).total # 0 /\ g[k] = Append(g[k - 1], ch(k))
        BY <1>2, <1>5, <2>1, <2>2
      <4> HIDE DEF g
      <4>3. QED
        BY <4>1, <4>2
    <3>2. g = [k \in 0..n |-> g[k]]
      BY <1>1
    <3> HIDE DEF g
    <3>3. QED
      BY <3>1, <3>2
  <2> HIDE DEF g
  <2>4. UpTo(g)
    BY <1>1, <2>3
  <2>5. \E x : UpTo(x)
    BY <2>4
  <2> HIDE DEF UpTo
  <2>6. QED
    BY <2>5 DEF f
<1>8. f = [k \in 0..n |-> IF k = 0 THEN <<>>
                          ELSE IF ch(k).total = 0 THEN f[k - 1]
                          ELSE Append(f[k - 1], ch(k))]
  BY <1>1, <1>7
<1> HIDE DEF UpTo
<1> DEFINE T == {k \in Nat : k <= n => f[k] = first(k)}
<1>9. 0 \in T
  <2>1. 0 \in 0..n
    OBVIOUS
  <2>2. f[0] = <<>>
    BY <1>8, <2>1
  <2>3. QED
    BY <1>6, <2>2
<1>10. ASSUME NEW k \in Nat, k \in T PROVE k + 1 \in T
  <2> SUFFICES ASSUME k + 1 <= n PROVE f[k + 1] = first(k + 1)
    OBVIOUS
  <2>1. k + 1 \in 1..n /\ k + 1 \in 0..n /\ k + 1 # 0 /\ (k + 1) - 1 = k
    OBVIOUS
  <2>2. f[k + 1] = Append(f[k], ch(k + 1))
    BY <1>2, <1>8, <2>1
  <2>3. first(k + 1) = Append(first(k), ch(k + 1))
    BY <1>5, <2>1
  <2>4. QED
    BY <1>10, <2>2, <2>3
<1> HIDE DEF T
<1>11. n \in T
  BY <1>9, <1>10, Induct
<1>12. cs = first(n)
  BY <1>3, <1>11 DEF T
<1>13. n \in 0..n
  OBVIOUS
<1>14. (\E X : cs \in Seq(X)) /\ Len(cs) = n /\ \A j \in 1..n : cs[j] = ch(j)
  BY <1>4, <1>12, <1>13
<1>15. QED
  BY <1>1, <1>14 DEF ch

(* The chunks of a batch whose prefills are compared.                       *)
LEMMA ChunksRight ==
  ASSUME NEW b, Ready(b), RowsAssumed, NumDecodes(b) < Rows(b),
         Plain \/ ~(MaxPrefillLen(b) <= TopK),
         NEW cs, cs = Chunks(b)
  PROVE  /\ ChunkList(b, cs) /\ Len(cs) > 0 /\ ~cs[1].skip
         /\ \A t \in Nat :
              Loc(b, NumDecodes(b)) <= t /\ t < Loc(b, Reqs(b)) => InSome(cs, t)
<1>1. PICK specs : specs = ChunkSpecs(b)
  OBVIOUS
<1>2. /\ Sliced(b, NumDecodes(b), specs)
      /\ b.pads = 0 /\ Rows(b) = Reqs(b) /\ NumDecodes(b) \in 0..(Rows(b) - 1)
  BY <1>1, SpecsRight
<1>3. PICK n \in Nat \ {0} :
        /\ specs \in Seq(Specs(b)) /\ Len(specs) = n
        /\ \A k \in 1..n : specs[k].first >= NumDecodes(b)
        /\ \A k \in 1..(n - 1) : Behind(b, specs[k], specs[k + 1])
        /\ specs[1].first = NumDecodes(b) /\ specs[1].from = 0
        /\ Loc(b, specs[n].first) + specs[n].to = Loc(b, Rows(b)) - 1
  BY <1>2 DEF Sliced
<1>4. \A k \in 1..n : specs[k] \in Specs(b)
  BY <1>3, ElementOfSeq
<1>5. Rows(b) \in Nat
  BY BatchTyped
<1>6. \A k \in 1..n : ChunkKeys(b, specs[k].first, specs[k].last) # 0
  <2> SUFFICES ASSUME NEW k \in 1..n PROVE ChunkKeys(b, specs[k].first, specs[k].last) # 0
    OBVIOUS
  <2>1. PICK s \in 0..(Rows(b) - 1), e \in 0..(Rows(b) - 1) :
          s = specs[k].first /\ e = specs[k].last /\ s <= e
    BY <1>4 DEF Specs
  <2>2. s \in NumDecodes(b)..(Rows(b) - 1) /\ e \in s..(Rows(b) - 1)
    BY <1>2, <1>3, <1>5, <2>1
  <2>3. Pooled(Ub(b, s)) > 0
    BY <1>2, <2>2, KeyedPrefill
  <2>4. Pooled(Ub(b, s)) \in Nat /\ Pooled(Ub(b, s)) <= ChunkKeys(b, s, e)
        /\ ChunkKeys(b, s, e) \in Nat
    BY <2>2, ChunkSize
  <2>5. QED
    BY <2>1, <2>3, <2>4
<1>7. /\ (\E S : cs \in Seq(S)) /\ Len(cs) = n
      /\ \A k \in 1..n : cs[k] = Chunk(b, specs[k])
  <2>1. specs \in Seq(Specs(b)) /\ Len(specs) = n
        /\ \A k \in 1..Len(specs) : ChunkKeys(b, specs[k].first, specs[k].last) # 0
    BY <1>3, <1>6
  <2>2. /\ (\E S : cs \in Seq(S)) /\ Len(cs) = Len(specs)
        /\ \A k \in 1..Len(specs) : cs[k] = Chunk(b, specs[k])
    <3>1. Ready(b) /\ cs = Chunks(b) /\ specs = ChunkSpecs(b)
      BY <1>1
    <3>2. QED
      BY ONLY <2>1, <3>1, ChunksAre
  <2>3. QED
    BY <1>3, <2>2
<1>8. ASSUME NEW k \in 1..n
      PROVE  /\ GoodChunk(b, cs[k])
             /\ cs[k].first = specs[k].first /\ cs[k].last = specs[k].last
             /\ (cs[k].skip <=> specs[k].from > 0)
             /\ \A t \in Nat : InChunk(cs[k], t) <=>
                  /\ Loc(b, specs[k].first) + specs[k].from <= t
                  /\ t <= Loc(b, specs[k].first) + specs[k].to
  BY <1>2, <1>4, <1>7, ChunkGood
<1>9. \A k \in 1..(n - 1) :
        cs[k + 1].skip => cs[k + 1].first = cs[k].first /\ cs[k + 1].last = cs[k].last
  <2> SUFFICES ASSUME NEW k \in 1..(n - 1), cs[k + 1].skip
               PROVE  cs[k + 1].first = cs[k].first /\ cs[k + 1].last = cs[k].last
    OBVIOUS
  <2>1. k \in 1..n /\ k + 1 \in 1..n
    OBVIOUS
  <2>2. specs[k + 1].from > 0
    BY <1>8, <2>1
  <2>3. specs[k + 1].first = specs[k].first /\ specs[k + 1].last = specs[k].last
    BY <1>3, <2>2 DEF Behind
  <2>4. QED
    BY <1>8, <2>1, <2>3
<1>10. ChunkList(b, cs)
  <2>1. \E S : cs \in Seq(S)
    BY <1>7
  <2>2. QED
    BY <1>7, <1>8, <1>9, <2>1 DEF ChunkList
<1>11. ~cs[1].skip
  <2>1. 1 \in 1..n /\ ~(0 > 0)
    OBVIOUS
  <2>2. cs[1].skip <=> (0 > 0)
    BY <1>3, <1>8, <2>1
  <2>3. QED
    BY <2>1, <2>2
<1>12. ASSUME NEW t \in Nat, Loc(b, NumDecodes(b)) <= t, t < Loc(b, Reqs(b))
       PROVE  \E k \in 1..n : InChunk(cs[k], t)
  <2> DEFINE S == {k \in 1..n : t <= Loc(b, specs[k].first) + specs[k].to}
  <2>1. \A k \in 1..n : specs[k].from \in Nat /\ specs[k].to \in Nat
                        /\ Loc(b, specs[k].first) \in Nat
    <3> SUFFICES ASSUME NEW k \in 1..n
                 PROVE  specs[k].from \in Nat /\ specs[k].to \in Nat
                        /\ Loc(b, specs[k].first) \in Nat
      OBVIOUS
    <3>1. specs[k] \in Specs(b)
      BY <1>4
    <3>2. specs[k].from \in Nat /\ specs[k].to \in Nat /\ specs[k].first \in 0..Rows(b)
      BY <1>5, <3>1 DEF Specs
    <3>3. QED
      BY <3>2, LocTyped
  <2>2. Loc(b, Rows(b)) \in Nat
    BY <1>5, LocTyped
  <2>3. n \in S
    BY <1>2, <1>3, <1>12, <2>2
  <2>4. PICK k \in S : \A j \in S : k <= j
    <3>1. S \subseteq Nat /\ S # {}
      BY <2>3
    <3> HIDE DEF S
    <3>2. QED
      BY <3>1, NatMin
  <2>5. Loc(b, specs[k].first) + specs[k].from <= t
    <3>1. CASE k = 1
      BY <1>3, <1>12, <2>1, <3>1
    <3>2. CASE k # 1
      <4>1. k - 1 \in 1..(n - 1) /\ (k - 1) + 1 = k /\ k - 1 \in 1..n /\ ~(k <= k - 1)
        BY <3>2
      <4>2. ~(t <= Loc(b, specs[k - 1].first) + specs[k - 1].to)
        BY <2>4, <4>1
      <4>3. Loc(b, specs[k].first) + specs[k].from
              = Loc(b, specs[k - 1].first) + specs[k - 1].to + 1
        BY <1>3, <4>1 DEF Behind
      <4>4. QED
        BY <2>1, <4>1, <4>2, <4>3
    <3>3. QED
      BY <3>1, <3>2
  <2>6. k \in 1..n /\ InChunk(cs[k], t)
    BY <1>8, <2>5
  <2>7. QED
    BY <2>6
<1>13. QED
  BY <1>7, <1>10, <1>11, <1>12 DEF InSome

-----------------------------------------------------------------------------
(* A step keeps the launch, and with it what is said of a batch.            *)

LEMMA Kept ==
  ASSUME launch' = launch, NEW b
  PROVE  /\ NumDecodes(b)' = NumDecodes(b) /\ DecodeTokens(b)' = DecodeTokens(b)
         /\ TopK' = TopK /\ KPool' = KPool /\ Workspace' = Workspace
         /\ \A t : OwnRow(b, t)' = OwnRow(b, t)
         /\ \A d, t : LaidOut(d, b, t)' <=> LaidOut(d, b, t)
         /\ \A c : GoodChunk(b, c)' <=> GoodChunk(b, c)
         /\ \A c, w : HasKeys(b, c, w)' <=> HasKeys(b, c, w)
<1>1. TopK' = TopK /\ KPool' = KPool /\ Workspace' = Workspace /\ NextN' = NextN
      /\ DeepGemm' = DeepGemm /\ Factor' = Factor
  BY DEF TopK, KPool, Workspace, NextN, NumSpec, DeepGemm, Factor
<1>2. NumDecodes(b)' = NumDecodes(b)
  BY <1>1 DEF NumDecodes, UseFlattening, DecodeRow
<1>3. DecodeTokens(b)' = DecodeTokens(b)
  BY <1>2 DEF DecodeTokens
<1>4. \A n : Pooled(n)' = Pooled(n)
  BY <1>1 DEF Pooled
<1>5. \A i : KeysOf(b, i)' = KeysOf(b, i)
  BY <1>1 DEF KeysOf, Translate, RawRow
<1>6. \A row, pool : KeyAt(row, pool)' = KeyAt(row, pool)
  BY <1>1 DEF KeyAt, PageKeys
<1>7. \A n, len, key : Expanded(n, len, key)' = Expanded(n, len, key)
  BY <1>1, <1>4 DEF Expanded, Chosen, SelectK, TailOf
<1>8. \A i : DeviceKeys(b, i)' = DeviceKeys(b, i)
  BY <1>4 DEF DeviceKeys
<1>9. \A t : OwnRow(b, t)' = OwnRow(b, t)
  BY <1>4, <1>5, <1>6, <1>7 DEF OwnRow, KeysOf
<1>10. \A d, t : PlaceIn(d, b, t)' = PlaceIn(d, b, t) /\ WidthIn(d, b)' = WidthIn(d, b)
  BY <1>3 DEF PlaceIn, WidthIn
<1>11. \A d, t : LaidOut(d, b, t)' <=> LaidOut(d, b, t)
  BY <1>1, <1>4, <1>5, <1>10 DEF LaidOut, ComparedIn, ContextIn
<1>12. \A c, i : KeysFrom(b, c, i)' = KeysFrom(b, c, i)
  BY <1>8 DEF KeysFrom
<1>13. \A c : GoodChunk(b, c)' <=> GoodChunk(b, c)
  BY <1>1, <1>4, <1>12 DEF GoodChunk
<1>14. \A c, w : HasKeys(b, c, w)' <=> HasKeys(b, c, w)
  BY <1>4, <1>5, <1>6, <1>12 DEF HasKeys
<1>15. QED
  BY <1>1, <1>2, <1>3, <1>9, <1>11, <1>13, <1>14

-----------------------------------------------------------------------------
(* The parts of a step.                                                     *)

(* RowsExact of one row.                                                    *)
Exact(b, t, row) ==
  /\ row.pos = OwnRow(b, t).pos
  /\ row.seen \in {OwnRow(b, t).seen} \cup (IF Position(b, t) < TopK THEN {{}} ELSE {})

Prefills(b, t) == Loc(b, NumDecodes(b)) <= t /\ t < Loc(b, Reqs(b))

(* The layout of the decodes.                                               *)
DecodeIs(b, d) ==
  NumDecodes(b) > 0 => \A t \in Nat : t < Loc(b, NumDecodes(b)) => LaidOut(d, b, t)

(* The prefill when the step starts.                                        *)
StartIs(b, cs, short) ==
  /\ short => /\ DecodeTokens(b) = Loc(b, NumDecodes(b))
              /\ \A t \in Nat : Prefills(b, t) => Position(b, t) < TopK
  /\ Plain \/ ~short =>
       /\ ChunkList(b, cs) /\ (cs # <<>> => ~Head(cs).skip)
       /\ \A t \in Nat : Prefills(b, t) => InSome(cs, t)

(* The prefill between two chunks.                                          *)
LoopIs(b, cs, work, rows) ==
  /\ ChunkList(b, cs)
  /\ cs # <<>> /\ Head(cs).skip => HasKeys(b, Head(cs), work)
  /\ \A t \in Nat : Prefills(b, t) => Exact(b, t, rows[t]) \/ InSome(cs, t)

(* The step when it is done.                                                *)
DoneIs(b, rows) ==
  /\ Loc(b, Reqs(b)) \in Nat
  /\ \A t \in Nat : t < Loc(b, Reqs(b)) => Exact(b, t, rows[t])

LEMMA NoChunks ==
  ASSUME NEW b
  PROVE  ChunkList(b, <<>>)
<1>1. <<>> \in Seq({}) /\ Len(<<>>) = 0
  BY EmptySeq
<1>2. \E S : <<>> \in Seq(S)
  BY <1>1
<1>3. 1..0 = {} /\ 1..(0 - 1) = {}
  OBVIOUS
<1>4. QED
  BY <1>1, <1>2, <1>3 DEF ChunkList

LEMMA InSlots ==
  ASSUME NEW b, Ready(b), NEW t \in Nat, t < Loc(b, Reqs(b))
  PROVE  t \in Slots /\ t < b.tokens
<1>1. b.tokens \in Nat /\ b.tokens <= MaxTokens /\ Loc(b, Reqs(b)) <= b.tokens
      /\ Loc(b, Reqs(b)) \in Nat
  BY BatchSize
<1>2. MaxTokens \in Nat
  BY LaunchTyped DEF Ready
<1>3. QED
  BY <1>1, <1>2 DEF Slots

LEMMA BuildDecodes ==
  ASSUME NEW b, Ready(b), RowsAssumed, Buffers, NumDecodes(b) > 0
  PROVE  DecodeIs(b, DecodeMeta(b))
<1>1. \A t \in Nat : t < Loc(b, NumDecodes(b)) => LaidOut(DecodeMeta(b), b, t)
  BY NativeLaid, FlatLaid
<1>2. QED
  BY <1>1 DEF DecodeIs

LEMMA BuildPrefills ==
  ASSUME NEW b, Ready(b), RowsAssumed
  PROVE  StartIs(b, PrefillMeta(b).chunks, PrefillMeta(b).short)
<1>1. CASE NumDecodes(b) < Rows(b)
  <2>1. PICK cs : cs = Chunks(b)
    OBVIOUS
  <2>2. PrefillMeta(b).chunks = cs /\ (PrefillMeta(b).short <=> MaxPrefillLen(b) <= TopK)
    BY <1>1, <2>1 DEF PrefillMeta
  <2>3. ASSUME MaxPrefillLen(b) <= TopK
        PROVE  /\ DecodeTokens(b) = Loc(b, NumDecodes(b))
               /\ \A t \in Nat : Prefills(b, t) => Position(b, t) < TopK
    <3>1. /\ b.pads = 0 /\ Rows(b) = Reqs(b) /\ NumDecodes(b) \in 0..(Rows(b) - 1)
          /\ Rows(b) \in Nat /\ TopK \in Nat /\ KPool \in Nat \ {0}
      BY <1>1, SpecsRight, BatchTyped, LaunchTyped DEF Ready
    <3>2. DecodeTokens(b) = Loc(b, NumDecodes(b))
      BY <3>1, DecodeTokensTyped
    <3>3. ASSUME NEW t \in Nat, Prefills(b, t) PROVE Position(b, t) < TopK
      <4>1. PICK i \in 0..(Reqs(b) - 1) : i = RowOf(b, t) /\ Holds(b, i, t)
        BY <3>3, RowOfIs DEF Prefills
      <4>2. i \in 0..Rows(b) /\ i + 1 \in 0..Rows(b) /\ NumDecodes(b) \in 0..Rows(b)
        BY <3>1
      <4>3. /\ Loc(b, i + 1) \in Nat /\ Loc(b, NumDecodes(b)) \in Nat
            /\ i + 1 <= NumDecodes(b) => Loc(b, i + 1) <= Loc(b, NumDecodes(b))
        BY <4>2, LocTyped
      <4>4. i \in NumDecodes(b)..(Rows(b) - 1)
        BY <3>1, <3>3, <4>1, <4>3 DEF Prefills, Holds
      <4> DEFINE S == {Ub(b, j) : j \in NumDecodes(b)..(Rows(b) - 1)}
      <4>5. PICK m \in Nat : \A j \in NumDecodes(b)..(Rows(b) - 1) : Ub(b, j) \in Nat /\ Ub(b, j) <= m
        <5>1. Workspace \in Nat /\ (Workspace + 1) * KPool \in Nat
          BY <3>1, LaunchTyped DEF Ready
        <5>2. ASSUME NEW j \in NumDecodes(b)..(Rows(b) - 1)
              PROVE  Ub(b, j) \in Nat /\ Ub(b, j) <= (Workspace + 1) * KPool
          <6>1. j \in 0..(Reqs(b) - 1)
            BY <3>1
          <6>2. Ub(b, j) \in Nat /\ Pooled(Ub(b, j)) <= Workspace
            BY <6>1, BatchTyped
          <6>3. Ub(b, j) \div KPool \in Nat /\ Ub(b, j) \div KPool <= Workspace
            BY <3>1, <6>2, DivMod DEF Pooled
          <6>4. Ub(b, j) < (Workspace + 1) * KPool <=> Ub(b, j) \div KPool < Workspace + 1
            BY <3>1, <5>1, <6>2, DivLess
          <6>5. QED
            BY <5>1, <6>2, <6>3, <6>4
        <5>3. QED
          BY <5>1, <5>2
      <4>6. S \subseteq Nat /\ S # {} /\ \A x \in S : x <= m
        BY <4>4, <4>5
      <4>7. MaxPrefillLen(b) = Max(S) /\ Ub(b, i) \in S
        BY <4>4 DEF MaxPrefillLen
      <4> HIDE DEF S
      <4>8. Max(S) \in Nat /\ Ub(b, i) <= Max(S)
        BY <4>6, <4>7, MaxIs
      <4>9. Position(b, t) \in Nat /\ Position(b, t) < Seq_(b, i)
        BY <4>1, PositionIs
      <4>10. Seq_(b, i) \in Nat /\ Ub(b, i) \in Nat /\ Seq_(b, i) <= Ub(b, i)
        BY <4>1, BatchTyped
      <4>11. QED
        BY <2>3, <3>1, <4>7, <4>8, <4>9, <4>10
    <3>4. QED
      BY <3>2, <3>3
  <2>4. ASSUME Plain \/ ~(MaxPrefillLen(b) <= TopK)
        PROVE  /\ ChunkList(b, cs) /\ (cs # <<>> => ~Head(cs).skip)
               /\ \A t \in Nat : Prefills(b, t) => InSome(cs, t)
    <3>1. /\ ChunkList(b, cs) /\ Len(cs) > 0 /\ ~cs[1].skip
          /\ \A t \in Nat :
              Loc(b, NumDecodes(b)) <= t /\ t < Loc(b, Reqs(b)) => InSome(cs, t)
      BY <1>1, <2>1, <2>4, ChunksRight
    <3>2. Head(cs) = cs[1]
      BY <3>1 DEF ChunkList
    <3>3. QED
      BY <3>1, <3>2 DEF Prefills
  <2>5. QED
    BY <2>2, <2>3, <2>4 DEF StartIs
<1>2. CASE ~(NumDecodes(b) < Rows(b))
  <2>1. PrefillMeta(b).chunks = <<>> /\ PrefillMeta(b).short = FALSE
    BY <1>2 DEF PrefillMeta
  <2>2. NumDecodes(b) = Rows(b) /\ Rows(b) \in Reqs(b)..Rows(b)
    BY <1>2, DecodesTyped, BatchTyped
  <2>3. Loc(b, NumDecodes(b)) = Loc(b, Reqs(b)) /\ Loc(b, Reqs(b)) \in Nat
    BY <2>2, PadLoc, BatchSize
  <2>4. \A t \in Nat : ~Prefills(b, t)
    BY <2>3 DEF Prefills
  <2>5. QED
    BY <2>1, <2>4, NoChunks DEF StartIs
<1>3. QED
  BY <1>1, <1>2

LEMMA OwnExact ==
  ASSUME NEW b, NEW t
  PROVE  Exact(b, t, OwnRow(b, t))
  BY DEF Exact

(* A short prefill is done when it starts.                                  *)
LEMMA StartShort ==
  ASSUME NEW b, Ready(b), meta.short, ~Plain, StartIs(b, meta.chunks, meta.short), NEW work
  PROVE  LoopIs(b, <<>>, work, StartRows(b))
<1>1. ASSUME NEW t \in Nat, Prefills(b, t) PROVE Exact(b, t, StartRows(b)[t])
  <2>1. Position(b, t) < TopK /\ DecodeTokens(b) = Loc(b, NumDecodes(b))
    BY <1>1 DEF StartIs
  <2>2. t < Loc(b, Reqs(b)) /\ DecodeTokens(b) <= t
    BY <1>1, <2>1 DEF Prefills
  <2>3. t \in Slots
    BY <2>2, InSlots
  <2>4. StartRows(b)[t] = [pos |-> 0..Position(b, t), seen |-> {}]
    BY <2>2, <2>3 DEF StartRows, Reqs
  <2>5. OwnRow(b, t).pos = 0..Position(b, t)
    BY <2>1, <2>2, ShortRow
  <2>6. QED
    BY <2>1, <2>4, <2>5 DEF Exact
<1>2. QED
  BY <1>1, NoChunks DEF LoopIs

LEMMA StartLoop ==
  ASSUME NEW b, NEW cs, NEW short, Plain \/ ~short, StartIs(b, cs, short), NEW work, NEW rows
  PROVE  LoopIs(b, cs, work, rows)
  BY DEF StartIs, LoopIs

(* A chunk leaves its rows exact and the workspace to the next.             *)
Fetched(b, c, work) == work = IF c.skip THEN gathered ELSE Gathered(b, c)

Written(b, c, work, rows) ==
  \A t \in Slots : HasKeys(b, c, work) =>
    rows[t] = IF InChunk(c, t) THEN OwnRow(b, t) ELSE topk[t]

LEMMA ChunkDone ==
  ASSUME NEW b, Ready(b), DOMAIN gathered = Below(Workspace),
         NEW cs, cs # <<>>, LoopIs(b, cs, gathered, topk),
         NEW c, c = Head(cs), NEW work, Fetched(b, c, work),
         NEW rows, Written(b, c, work, rows)
  PROVE  LoopIs(b, Tail(cs), work, rows) /\ DOMAIN work = Below(Workspace)
<1>1. PICK S : cs \in Seq(S)
  BY DEF LoopIs, ChunkList
<1>2. PICK n \in Nat : n = Len(cs)
  BY <1>1
<1>3. n > 0 /\ c = cs[1]
  BY <1>1, <1>2
<1>4. PICK ds : ds = Tail(cs)
  OBVIOUS
<1>5. /\ ds \in Seq(S) /\ Len(ds) = n - 1
      /\ \A k \in 1..(n - 1) : ds[k] = cs[k + 1]
  BY <1>1, <1>2, <1>4, HeadTailProperties
<1>6. /\ \A k \in 1..n : GoodChunk(b, cs[k])
      /\ \A k \in 1..(n - 1) :
           cs[k + 1].skip => cs[k + 1].first = cs[k].first /\ cs[k + 1].last = cs[k].last
  BY <1>2 DEF LoopIs, ChunkList
<1>7. HasKeys(b, c, work) /\ DOMAIN work = Below(Workspace)
  <2>1. CASE c.skip
    BY <2>1 DEF LoopIs, Fetched
  <2>2. CASE ~c.skip
    <3>1. GoodChunk(b, c)
      BY <1>3, <1>6
    <3>2. QED
      BY <2>2, <3>1, GatherRight DEF Fetched
  <2>3. QED
    BY <2>1, <2>2
<1>8. ChunkList(b, ds)
  <2>1. \A k \in 1..(n - 1) : GoodChunk(b, ds[k])
    BY <1>5, <1>6
  <2>2. ASSUME NEW k \in 1..((n - 1) - 1), ds[k + 1].skip
        PROVE  ds[k + 1].first = ds[k].first /\ ds[k + 1].last = ds[k].last
    <3>1. k \in 1..(n - 1) /\ k + 1 \in 1..(n - 1)
      OBVIOUS
    <3>2. ds[k] = cs[k + 1] /\ ds[k + 1] = cs[(k + 1) + 1]
      BY <1>5, <3>1
    <3>3. QED
      BY <1>6, <2>2, <3>1, <3>2
  <2>3. \E X : ds \in Seq(X)
    BY <1>5
  <2>4. QED
    BY <1>5, <2>1, <2>2, <2>3 DEF ChunkList
<1>9. ASSUME ds # <<>>, Head(ds).skip PROVE HasKeys(b, Head(ds), work)
  <2>1. n - 1 > 0
    BY <1>2, <1>5, <1>9
  <2>2. Head(ds) = ds[1] /\ 1 \in 1..(n - 1) /\ ds[1] = cs[1 + 1]
    BY <1>2, <1>5, <2>1
  <2>3. Head(ds).first = c.first /\ Head(ds).last = c.last
    BY <1>3, <1>6, <1>9, <2>2
  <2>4. QED
    BY <1>7, <2>3 DEF HasKeys, KeysFrom
<1>10. ASSUME NEW t \in Nat, Prefills(b, t)
       PROVE  Exact(b, t, rows[t]) \/ InSome(ds, t)
  <2>1. t \in Slots
    BY <1>10, InSlots DEF Prefills
  <2>2. rows[t] = IF InChunk(c, t) THEN OwnRow(b, t) ELSE topk[t]
    BY <1>7, <2>1 DEF Written
  <2>3. CASE InChunk(c, t)
    BY <2>2, <2>3, OwnExact
  <2>4. CASE ~InChunk(c, t) /\ Exact(b, t, topk[t])
    BY <2>2, <2>4
  <2>5. CASE ~InChunk(c, t) /\ InSome(cs, t)
    <3>1. PICK k \in 1..n : InChunk(cs[k], t)
      BY <1>2, <2>5 DEF InSome
    <3>2. k # 1
      BY <1>3, <2>5, <3>1
    <3>3. k - 1 \in 1..(n - 1) /\ (k - 1) + 1 = k
      BY <3>2
    <3>4. InChunk(ds[k - 1], t) /\ k - 1 \in 1..Len(ds)
      BY <1>5, <3>1, <3>3
    <3>5. QED
      BY <3>4 DEF InSome
  <2>6. QED
    BY <1>10, <2>3, <2>4, <2>5 DEF LoopIs
<1>11. QED
  BY <1>4, <1>7, <1>8, <1>9, <1>10 DEF LoopIs

(* With the prefills done, the decodes are what is left.                    *)
LEMMA DecodeDone ==
  ASSUME NEW b, Ready(b), LoopIs(b, <<>>, gathered, topk), NEW rows,
         \A t \in Slots :
           rows[t] = IF t < Loc(b, NumDecodes(b)) THEN OwnRow(b, t) ELSE topk[t]
  PROVE  DoneIs(b, rows)
<1> SUFFICES ASSUME NEW t \in Nat, t < Loc(b, Reqs(b))
             PROVE  Exact(b, t, rows[t])
  BY BatchSize DEF DoneIs
<1>1. t \in Slots
  BY InSlots
<1>2. CASE t < Loc(b, NumDecodes(b))
  BY <1>1, <1>2, OwnExact
<1>3. CASE ~(t < Loc(b, NumDecodes(b)))
  <2>1. Loc(b, NumDecodes(b)) \in Nat
    BY DecodeTokensTyped
  <2>2. Prefills(b, t)
    BY <1>3, <2>1 DEF Prefills
  <2>3. ~InSome(<<>>, t)
    <3>1. Len(<<>>) = 0 /\ 1..0 = {}
      OBVIOUS
    <3>2. QED
      BY <3>1 DEF InSome
  <2>4. QED
    BY <1>1, <1>3, <2>2, <2>3 DEF LoopIs
<1>4. QED
  BY <1>2, <1>3

LEMMA KeptParts ==
  ASSUME launch' = launch, NEW b
  PROVE  /\ Plain' <=> Plain
         /\ Ready(b)' <=> Ready(b)
         /\ \A d : DecodeIs(b, d)' <=> DecodeIs(b, d)
         /\ \A cs, short : StartIs(b, cs, short)' <=> StartIs(b, cs, short)
         /\ \A cs, work, rows : LoopIs(b, cs, work, rows)' <=> LoopIs(b, cs, work, rows)
         /\ \A rows : DoneIs(b, rows)' <=> DoneIs(b, rows)
<1>1. /\ NumDecodes(b)' = NumDecodes(b) /\ DecodeTokens(b)' = DecodeTokens(b)
      /\ TopK' = TopK /\ KPool' = KPool /\ Workspace' = Workspace
      /\ \A t : OwnRow(b, t)' = OwnRow(b, t)
      /\ \A d, t : LaidOut(d, b, t)' <=> LaidOut(d, b, t)
      /\ \A c : GoodChunk(b, c)' <=> GoodChunk(b, c)
      /\ \A c, w : HasKeys(b, c, w)' <=> HasKeys(b, c, w)
  BY Kept
<1>2. Plain' <=> Plain
  BY <1>1 DEF Plain
<1>3. Ready(b)' <=> Ready(b)
  BY DEF Ready
<1>4. \A t, row : Exact(b, t, row)' <=> Exact(b, t, row)
  BY <1>1 DEF Exact
<1>5. \A t : Prefills(b, t)' <=> Prefills(b, t)
  BY <1>1 DEF Prefills
<1>6. \A cs : ChunkList(b, cs)' <=> ChunkList(b, cs)
  BY <1>1 DEF ChunkList
<1>7. \A d : DecodeIs(b, d)' <=> DecodeIs(b, d)
  BY <1>1, <1>2 DEF DecodeIs, FlatRows
<1>8. \A cs, short : StartIs(b, cs, short)' <=> StartIs(b, cs, short)
  BY <1>1, <1>2, <1>5, <1>6 DEF StartIs
<1>9. \A cs, work, rows : LoopIs(b, cs, work, rows)' <=> LoopIs(b, cs, work, rows)
  BY <1>1, <1>4, <1>5, <1>6 DEF LoopIs
<1>10. \A rows : DoneIs(b, rows)' <=> DoneIs(b, rows)
  BY <1>4 DEF DoneIs
<1>11. QED
  BY <1>2, <1>3, <1>7, <1>8, <1>9, <1>10

-----------------------------------------------------------------------------
(* WriteGrouped: between the build and the write the kept lengths are those *)
(* of the batch.                                                            *)

MetaTyped ==
  \E cs, short, d : meta = [chunks |-> cs, short |-> short, decode |-> d]

Stash(b, kept, d) ==
  /\ \A i \in 0..(NumDecodes(b) - 1) : kept[i] = Q(b, i) /\ Q(b, i) <= d.longest
  /\ d.longest \in Nat \ {0}
  /\ d.uniform => \A i \in 0..(NumDecodes(b) - 1) : Q(b, i) = d.longest

GroupedIs(b, cells) ==
  cells # <<>> =>
    /\ Ready(b)
    /\ \A i \in 0..(NumDecodes(b) - 1) : i < Reqs(b) =>
         \A k \in 0..(Q(b, i) - 1) : cells[<<i, k>>] = Loc(b, i) + k

WriteInv ==
  /\ launch \in Launches /\ DOMAIN perReq = Slots /\ MetaTyped
  /\ pc # "build" =>
       Ready(batch) /\ (NumDecodes(batch) > 0 => Stash(batch, perReq, meta.decode))
  /\ pc = "failed" => FlatRows(batch) < DecodeTokens(batch)
  /\ pc = "build" => GroupedIs(batch, grid)

LEMMA BuildStash ==
  ASSUME NEW b, Ready(b), DOMAIN perReq = Slots, NumDecodes(b) > 0
  PROVE  Stash(b, Stashed(b), DecodeMeta(b)) /\ DOMAIN Stashed(b) = Slots
<1>1. /\ MaxLen(b) \in Nat \ {0} /\ MinLen(b) \in Nat
      /\ \A i \in 0..(NumDecodes(b) - 1) :
           Q(b, i) \in Nat /\ MinLen(b) <= Q(b, i) /\ Q(b, i) <= MaxLen(b)
  BY LensTyped
<1>2. DOMAIN Stashed(b) = Slots
  BY DEF Stashed, Over
<1>3. \A i \in 0..(NumDecodes(b) - 1) : i \in Slots /\ i < NumDecodes(b)
  <2>1. NumDecodes(b) \in 0..Rows(b) /\ Rows(b) \in Nat /\ Rows(b) <= b.tokens
        /\ b.tokens \in Nat /\ b.tokens <= MaxTokens /\ MaxTokens \in Nat
    BY DecodesTyped, BatchTyped, BatchSize, LaunchTyped DEF Ready
  <2>2. QED
    BY <2>1 DEF Slots
<1>4. \A i \in 0..(NumDecodes(b) - 1) : Stashed(b)[i] = Q(b, i)
  BY <1>3 DEF Stashed, Over
<1>5. DecodeMeta(b).longest = MaxLen(b) /\ (DecodeMeta(b).uniform <=> MinLen(b) = MaxLen(b))
  BY DEF DecodeMeta
<1>6. MinLen(b) = MaxLen(b) => \A i \in 0..(NumDecodes(b) - 1) : Q(b, i) = MaxLen(b)
  BY <1>1
<1>7. QED
  BY <1>1, <1>2, <1>4, <1>5, <1>6 DEF Stash

(* The kept lengths sum up to the places of the requests, and to no more    *)
(* than the tokens of the decodes.                                          *)
LEMMA StashSum ==
  ASSUME NEW b, Ready(b), NumDecodes(b) > 0, Stash(b, perReq, meta.decode)
  PROVE  /\ \A j \in 0..NumDecodes(b) : SumTo(perReq, j) = Loc(b, j)
         /\ SumTo(perReq, NumDecodes(b)) = FlatRows(b)
         /\ FlatRows(b) \in Nat /\ DecodeTokens(b) \in Nat
         /\ FlatRows(b) <= DecodeTokens(b)
         /\ Min({FlatRows(b), DecodeTokens(b)}) = FlatRows(b)
<1> DEFINE D == NumDecodes(b)
<1>1. D \in 0..Rows(b) /\ Rows(b) \in Nat /\ D > 0
  BY DecodesTyped, BatchTyped
<1>2. ASSUME NEW j \in 0..D PROVE SumTo(perReq, j) = Loc(b, j)
  <2> DEFINE f == [x \in Below(Rows(b)) |-> Q(b, x)]
  <2>1. \A x \in 0..(Rows(b) - 1) : f[x] = Q(b, x)
    BY DEF Below
  <2>2. Loc(b, j) = SumTo(f, j)
    BY DEF Loc
  <2> HIDE DEF f
  <2>3. j \in Nat /\ \A x \in 0..(j - 1) : perReq[x] = f[x]
    BY <1>1, <2>1 DEF Stash
  <2>4. QED
    BY <2>2, <2>3, SumSame
<1>3. FlatRows(b) \in Nat /\ DecodeTokens(b) \in Nat /\ FlatRows(b) <= DecodeTokens(b)
  BY DecodeTokensTyped DEF FlatRows
<1>4. Min({FlatRows(b), DecodeTokens(b)}) = FlatRows(b)
  <2>1. PICK m \in Nat, n \in Nat : m = FlatRows(b) /\ n = DecodeTokens(b)
    BY <1>3
  <2>2. Min({m, n}) \in {m, n} /\ \A x \in {m, n} : Min({m, n}) <= x
    <3>1. {m, n} \subseteq Nat /\ {m, n} # {}
      OBVIOUS
    <3>2. QED
      BY <3>1, MinIs
  <2>3. QED
    BY <1>3, <2>1, <2>2
<1>5. SumTo(perReq, D) = FlatRows(b)
  BY <1>1, <1>2 DEF FlatRows
<1>6. QED
  BY <1>2, <1>3, <1>4, <1>5

(* Where the tail slots have their shape, no token is one of padding.       *)
LEMMA RealTokens ==
  ASSUME NEW b, Ready(b), WriteAssumed, ~Plain, NumDecodes(b) > 0,
         Stash(b, perReq, meta.decode), TailShapes(b)
  PROVE  DecodeTokens(b) = FlatRows(b)
<1> DEFINE D == NumDecodes(b)
           m == meta.decode.longest
<1>1. /\ SumTo(perReq, D) = FlatRows(b)
      /\ FlatRows(b) \in Nat /\ DecodeTokens(b) \in Nat
      /\ FlatRows(b) <= DecodeTokens(b)
      /\ Min({FlatRows(b), DecodeTokens(b)}) = FlatRows(b)
  BY StashSum
<1>2. D \in 0..Rows(b) /\ Rows(b) \in Nat /\ D > 0
  BY DecodesTyped, BatchTyped
<1>3. CASE Reshaped(b)
  <2>1. m \in Nat \ {0} /\ \A i \in 0..(D - 1) : Q(b, i) = m
    BY <1>3 DEF Stash, Reshaped
  <2>2. DecodeTokens(b) = D * m
    BY <1>3 DEF Reshaped
  <2> HIDE DEF m, D
  <2>3. \A j \in 0..D : Loc(b, j) = j * m
    BY <1>2, <2>1, EvenRows
  <2>4. D \in 0..D
    BY <1>2
  <2>5. Loc(b, D) = D * m
    BY <2>3, <2>4
  <2>6. QED
    BY <2>2, <2>5 DEF FlatRows, D
<1>4. CASE FlatRows(b) = 1
  <2>1. KPool \in Nat \ {0} /\ KPool # 1
    BY LaunchTyped DEF Ready, Plain
  <2>2. launch.kpool > 1
    BY <2>1 DEF KPool
  <2>3. b.pads > 0 => Loc(b, Reqs(b)) > 1
    BY <2>2 DEF WriteAssumed, Packed, Ready, Reqs
  <2>4. CASE b.pads = 0
    BY <2>4, DecodeTokensTyped DEF FlatRows
  <2>5. CASE b.pads # 0
    <3>1. b.pads \in Nat /\ Rows(b) \in Reqs(b)..Rows(b)
      BY BatchTyped
    <3>2. D = Rows(b)
      BY <1>2, <2>5, DecodesTyped
    <3>3. FlatRows(b) = Loc(b, Reqs(b))
      BY <3>1, <3>2, PadLoc DEF FlatRows
    <3>4. QED
      BY <1>4, <2>3, <2>5, <3>1, <3>3
  <2>6. QED
    BY <2>4, <2>5
<1>5. QED
  BY <1>1, <1>3, <1>4 DEF TailShapes

(* The write's grouping from the kept lengths.                              *)
LEMMA GroupRight ==
  ASSUME NEW b, Ready(b), WriteAssumed, ~Plain, NumDecodes(b) > 0,
         Stash(b, perReq, meta.decode), TailShapes(b), NEW stale
  PROVE  GroupedIs(b, Grouped(b, stale))
<1> DEFINE D == NumDecodes(b)
           m == meta.decode.longest
<1>1. /\ m \in Nat \ {0}
      /\ \A i \in 0..(D - 1) : perReq[i] = Q(b, i) /\ Q(b, i) <= m
      /\ meta.decode.uniform => \A i \in 0..(D - 1) : Q(b, i) = m
  BY DEF Stash
<1>2. D \in 0..Rows(b) /\ Rows(b) \in Nat /\ D > 0
  BY DecodesTyped, BatchTyped
<1>3. \A j \in 0..D : SumTo(perReq, j) = Loc(b, j)
  BY StashSum
<1>4. ~(SumTo(perReq, D) < DecodeTokens(b))
  <2>1. SumTo(perReq, D) = FlatRows(b) /\ FlatRows(b) \in Nat
    BY StashSum
  <2>2. DecodeTokens(b) = FlatRows(b)
    BY RealTokens
  <2>3. QED
    BY <2>1, <2>2
<1>5. ASSUME NEW i \in 0..(D - 1), i < Reqs(b), NEW k \in 0..(Q(b, i) - 1)
      PROVE  Grouped(b, stale)[<<i, k>>] = Loc(b, i) + k
  <2>1. i \in 0..(Rows(b) - 1) /\ i \in 0..Rows(b) /\ Q(b, i) \in Nat
    BY <1>2, <1>5, Token
  <2>2. Q(b, i) <= m
    BY <1>1
  <2>3. <<i, k>> \in Cells(b)
    BY <1>1, <2>1, <2>2 DEF Cells, Below
  <2>4. CASE Reshaped(b)
    <3>1. Grouped(b, stale) = [cell \in Cells(b) |-> cell[1] * m + cell[2]]
      BY <2>4 DEF Grouped
    <3>2. Grouped(b, stale)[<<i, k>>] = i * m + k
      BY <2>3, <3>1
    <3>3. \A j \in 0..(D - 1) : Q(b, j) = m
      BY <1>1, <2>4 DEF Reshaped
    <3> HIDE DEF m, D
    <3>4. \A j \in 0..D : Loc(b, j) = j * m
      BY <1>1, <1>2, <3>3, EvenRows
    <3>5. i \in 0..D
      BY <1>2
    <3>6. QED
      BY <3>2, <3>4, <3>5
  <2>5. CASE ~Reshaped(b)
    <3>1. Grouped(b, stale) = Scattered(b, stale)
      BY <2>5 DEF Grouped
    <3> DEFINE start(j) == SumTo(perReq, j)
               real == start(D)
    <3>2. Scattered(b, stale) =
            [cell \in Cells(b) |->
               IF real < DecodeTokens(b) /\ cell = stale THEN real
               ELSE IF cell[2] < perReq[cell[1]] THEN start(cell[1]) + cell[2]
               ELSE NoToken]
      BY DEF Scattered
    <3>3. ~(real < DecodeTokens(b))
      BY <1>4
    <3> HIDE DEF start, real
    <3>4. Scattered(b, stale)[<<i, k>>] =
            IF k < perReq[i] THEN start(i) + k ELSE NoToken
      BY <2>3, <3>2, <3>3
    <3>5. perReq[i] = Q(b, i) /\ k < Q(b, i)
      BY <1>1, <2>1
    <3>6. start(i) = Loc(b, i)
      BY <1>2, <1>3 DEF start
    <3>7. QED
      BY <3>1, <3>4, <3>5, <3>6
  <2>6. QED
    BY <2>4, <2>5
<1>6. QED
  BY <1>5 DEF GroupedIs

LEMMA KeptWrite ==
  ASSUME launch' = launch, NEW b
  PROVE  /\ Ready(b)' <=> Ready(b)
         /\ \A kept, d : Stash(b, kept, d)' <=> Stash(b, kept, d)
         /\ \A cells : GroupedIs(b, cells)' <=> GroupedIs(b, cells)
<1>1. NumDecodes(b)' = NumDecodes(b)
  BY Kept
<1>2. Ready(b)' <=> Ready(b)
  BY DEF Ready
<1>3. QED
  BY <1>1, <1>2 DEF Stash, GroupedIs

LEMMA WriteInit ==
  ASSUME Init
  PROVE  WriteInv
<1>1. /\ launch \in Launches /\ pc = "build" /\ grid = <<>>
      /\ lens = [t \in Slots |-> 0] /\ perReq = lens
      /\ meta = [chunks |-> <<>>, short |-> FALSE, decode |-> NoDecode]
  BY DEF Init
<1>2. DOMAIN perReq = Slots /\ MetaTyped
  BY <1>1 DEF MetaTyped
<1>3. GroupedIs(batch, grid)
  BY <1>1 DEF GroupedIs
<1>4. QED
  BY <1>1, <1>2, <1>3 DEF WriteInv

LEMMA WriteBuild ==
  ASSUME WriteInv, NEW b, b \in Batches(launch), Build(b)
  PROVE  WriteInv'
<1>1. Ready(b) /\ DOMAIN perReq = Slots /\ launch' = launch
  BY DEF WriteInv, Build, Ready
<1>2. pc' = "start" /\ batch' = b
  BY DEF Build
<1>3. PICK d, kept :
        /\ d = (IF NumDecodes(b) > 0 THEN DecodeMeta(b) ELSE NoDecode)
        /\ kept = (IF NumDecodes(b) > 0 THEN Stashed(b) ELSE perReq)
  OBVIOUS
<1>4. meta'.decode = d /\ MetaTyped'
  BY <1>3 DEF Build, MetaTyped
<1>5. perReq' = kept
  BY <1>3 DEF Build
<1>6. DOMAIN kept = Slots /\ (NumDecodes(b) > 0 => Stash(b, kept, d))
  BY <1>1, <1>3, BuildStash
<1>7. Ready(b)' /\ (NumDecodes(b) > 0 => Stash(b, kept, d)')
  BY <1>1, <1>6, KeptWrite
<1>8. NumDecodes(b)' = NumDecodes(b)
  BY <1>1, Kept
<1>9. Ready(batch)' /\ (NumDecodes(batch)' > 0 => Stash(batch, perReq, meta.decode)')
  BY <1>2, <1>4, <1>5, <1>7, <1>8
<1>10. launch' \in Launches /\ DOMAIN perReq' = Slots
  BY <1>1, <1>5, <1>6 DEF Ready
<1>11. QED
  BY <1>2, <1>4, <1>9, <1>10 DEF WriteInv

(* A step within a batch that leaves the kept lengths and the layout alone. *)
LEMMA WriteWithin ==
  ASSUME WriteInv, pc # "build", pc' # "build", launch' = launch, batch' = batch,
         pc' = "failed" => FlatRows(batch) < DecodeTokens(batch), perReq' = perReq, meta'.decode = meta.decode, MetaTyped'
  PROVE  WriteInv'
<1>1. PICK b, d, kept : b = batch /\ d = meta.decode /\ kept = perReq
  OBVIOUS
<1>2. Ready(b) /\ (NumDecodes(b) > 0 => Stash(b, kept, d))
  BY <1>1 DEF WriteInv
<1>3. Ready(b)' /\ (NumDecodes(b) > 0 => Stash(b, kept, d)')
  BY <1>2, KeptWrite
<1>4. NumDecodes(b)' = NumDecodes(b) /\ DecodeTokens(b)' = DecodeTokens(b)
      /\ FlatRows(b)' = FlatRows(b)
  BY Kept DEF FlatRows
<1>5. Ready(batch)' /\ (NumDecodes(batch)' > 0 => Stash(batch, perReq, meta.decode)')
  BY <1>1, <1>3, <1>4
<1>6. pc' = "failed" => FlatRows(batch)' < DecodeTokens(batch)'
  BY <1>1, <1>4
<1>7. QED
  BY <1>5, <1>6 DEF WriteInv

LEMMA WriteDecode ==
  ASSUME WriteAssumed, WriteInv, Decode \/ PlainDecode
  PROVE  WriteInv'
<1>1. PICK b : b = batch
  OBVIOUS
<1>2. /\ pc = "prefill" /\ pc' = "build" /\ launch' = launch /\ batch' = batch
      /\ perReq' = perReq /\ meta' = meta
  BY DEF Decode, PlainDecode
<1>3. PICK cells : cells = grid'
  OBVIOUS
<1>4. GroupedIs(b, cells)
  <2>1. CASE cells = <<>>
    BY <2>1 DEF GroupedIs
  <2>2. CASE cells # <<>>
    <3>1. Decode
      BY <1>3, <2>2 DEF PlainDecode
    <3>2. ~Plain /\ NumDecodes(b) > 0
      BY <1>1, <1>3, <2>2, <3>1 DEF Decode
    <3>3. PICK stale \in Stale(b) : cells = Grouped(b, stale)
      BY <1>1, <1>3, <3>1, <3>2 DEF Decode
    <3>4. Ready(b) /\ Stash(b, perReq, meta.decode) /\ TailShapes(b)
      BY <1>1, <1>2, <3>1, <3>2 DEF WriteInv, Decode
    <3>5. QED
      BY <3>2, <3>3, <3>4, GroupRight
  <2>3. QED
    BY <2>1, <2>2
<1>5. GroupedIs(b, cells)'
  BY <1>2, <1>4, KeptWrite
<1>6. GroupedIs(batch, grid)'
  BY <1>1, <1>2, <1>3, <1>5
<1>7. launch' \in Launches /\ DOMAIN perReq' = Slots /\ MetaTyped'
  BY <1>2 DEF WriteInv, MetaTyped
<1>8. QED
  BY <1>2, <1>6, <1>7 DEF WriteInv

(* The chunks are replaced in the metadata, nothing else is.                *)
LEMMA MetaKept ==
  ASSUME MetaTyped, NEW cs, meta' = [meta EXCEPT !.chunks = cs]
  PROVE  meta'.chunks = cs /\ meta'.short = meta.short /\ meta'.decode = meta.decode
         /\ MetaTyped'
<1>1. PICK ds, short, d : meta = [chunks |-> ds, short |-> short, decode |-> d]
  BY DEF MetaTyped
<1>2. meta' = [chunks |-> cs, short |-> short, decode |-> d]
  BY <1>1
<1>3. QED
  BY <1>1, <1>2 DEF MetaTyped

LEMMA WriteRaises ==
  ASSUME WriteInv, DecodeRaises
  PROVE  WriteInv'
<1>1. PICK b : b = batch
  OBVIOUS
<1>2. /\ pc = "prefill" /\ pc' = "failed" /\ launch' = launch /\ batch' = batch
      /\ perReq' = perReq /\ meta' = meta
      /\ NumDecodes(b) > 0 /\ ~TailShapes(b)
  BY <1>1 DEF DecodeRaises
<1>3. Ready(b) /\ Stash(b, perReq, meta.decode) /\ MetaTyped
  BY <1>1, <1>2 DEF WriteInv
<1>4. FlatRows(b) < DecodeTokens(b)
  <2>1. /\ SumTo(perReq, NumDecodes(b)) = FlatRows(b)
        /\ FlatRows(b) \in Nat /\ DecodeTokens(b) \in Nat
        /\ FlatRows(b) <= DecodeTokens(b)
        /\ Min({FlatRows(b), DecodeTokens(b)}) = FlatRows(b)
    BY <1>2, <1>3, StashSum
  <2>2. FlatRows(b) \notin {1, DecodeTokens(b)}
    BY <1>2, <2>1 DEF TailShapes
  <2>3. QED
    BY <2>1, <2>2
<1>5. MetaTyped'
  BY <1>2, <1>3 DEF MetaTyped
<1>6. QED
  BY <1>1, <1>2, <1>4, <1>5, WriteWithin

LEMMA WriteStutter ==
  ASSUME WriteInv, UNCHANGED vars
  PROVE  WriteInv'
<1>1. /\ launch' = launch /\ pc' = pc /\ batch' = batch /\ meta' = meta
      /\ perReq' = perReq /\ grid' = grid
  BY DEF vars
<1>2. CASE pc # "build"
  <2>1. MetaTyped' /\ (pc' = "failed" => FlatRows(batch) < DecodeTokens(batch))
    BY <1>1 DEF WriteInv, MetaTyped
  <2>2. QED
    BY <1>1, <1>2, <2>1, WriteWithin
<1>3. CASE pc = "build"
  <2>1. PICK b, cells : b = batch /\ cells = grid
    OBVIOUS
  <2>2. GroupedIs(b, cells)' <=> GroupedIs(b, cells)
    BY <1>1, KeptWrite
  <2>3. GroupedIs(batch, grid)'
    BY <1>1, <1>3, <2>1, <2>2 DEF WriteInv
  <2>4. QED
    BY <1>1, <1>3, <2>3 DEF WriteInv, MetaTyped
<1>4. QED
  BY <1>2, <1>3

LEMMA WriteNext ==
  ASSUME WriteAssumed, WriteInv, [Next]_vars
  PROVE  WriteInv'
<1>1. ASSUME NEW b \in Batches(launch), Build(b) PROVE WriteInv'
  BY <1>1, WriteBuild
<1>2. CASE Start \/ PlainStart \/ PrefillChunk \/ PlainChunk
  <2>1. /\ pc # "build" /\ pc' \notin {"build", "failed"}
        /\ launch' = launch /\ batch' = batch /\ perReq' = perReq
    BY <1>2 DEF Start, PlainStart, PrefillChunk, PlainChunk
  <2>2. \/ meta' = meta
        \/ meta' = [meta EXCEPT !.chunks = Tail(@)]
        \/ meta' = [meta EXCEPT !.chunks = IF meta.short THEN <<>> ELSE @]
    BY <1>2 DEF Start, PlainStart, PrefillChunk, PlainChunk
  <2>3. MetaTyped
    BY DEF WriteInv
  <2>4. meta' = meta => meta'.decode = meta.decode /\ MetaTyped'
    BY <2>3 DEF MetaTyped
  <2>5. (\E cs : meta' = [meta EXCEPT !.chunks = cs]) => meta'.decode = meta.decode /\ MetaTyped'
    BY <2>3, MetaKept
  <2>6. meta'.decode = meta.decode /\ MetaTyped'
    BY <2>2, <2>4, <2>5
  <2>7. QED
    BY <2>1, <2>6, WriteWithin
<1>3. CASE Decode \/ PlainDecode
  BY <1>3, WriteDecode
<1>4. CASE DecodeRaises
  BY <1>4, WriteRaises
<1>5. CASE UNCHANGED vars
  BY <1>5, WriteStutter
<1>6. QED
  BY <1>1, <1>2, <1>3, <1>4, <1>5 DEF Next

LEMMA WriteInvGrouped ==
  ASSUME WriteInv
  PROVE  WriteGrouped
<1> SUFFICES ASSUME Done, grid # <<>>,
                    NEW i \in Below(Min({Len(batch.reqs), NumDecodes(batch)})),
                    NEW k \in Below(Q(batch, i))
             PROVE  grid[<<i, k>>] = Loc(batch, i) + k
  <2>1. pc = "failed" => FlatRows(batch) < DecodeTokens(batch)
    BY DEF WriteInv
  <2>2. QED
    BY <2>1 DEF WriteGrouped
<1>1. GroupedIs(batch, grid)
  BY DEF WriteInv, Done
<1>2. Ready(batch)
  BY <1>1 DEF GroupedIs
<1>3. PICK m \in Nat, n \in Nat : m = Reqs(batch) /\ n = NumDecodes(batch)
  <2>1. PICK b : b = batch
    OBVIOUS
  <2>2. Reqs(b) \in Nat /\ NumDecodes(b) \in Nat
    BY <1>2, <2>1, BatchTyped, DecodesTyped
  <2>3. QED
    BY <2>1, <2>2
<1>4. Min({m, n}) \in {m, n} /\ \A x \in {m, n} : Min({m, n}) <= x
  <2>1. {m, n} \subseteq Nat /\ {m, n} # {}
    OBVIOUS
  <2>2. QED
    BY <2>1, MinIs
<1>5. i \in 0..(n - 1) /\ i < m
  BY <1>3, <1>4 DEF Below, Reqs
<1>6. QED
  BY <1>1, <1>3, <1>5 DEF GroupedIs, Below

-----------------------------------------------------------------------------
(* RowsExact is invariant: the inductive invariant says at every pc what    *)
(* the parts of the step that ran have established.                         *)

BuffersTyped ==
  Buffers /\ DOMAIN topk = Slots /\ DOMAIN gathered = Below(Workspace)

RowInv ==
  /\ launch \in Launches
  /\ BuffersTyped /\ MetaTyped
  /\ pc \in {"build", "start", "prefill", "failed"}
  /\ pc # "build" => Ready(batch) /\ DecodeIs(batch, meta.decode)
  /\ pc = "start" => StartIs(batch, meta.chunks, meta.short)
  /\ pc = "prefill" => LoopIs(batch, meta.chunks, gathered, topk)
  /\ pc = "build" => DoneIs(batch, topk)

LEMMA RowInit ==
  ASSUME Init
  PROVE  RowInv
<1>1. /\ launch \in Launches /\ pc = "build"
      /\ batch = [reqs |-> <<>>, pads |-> 0, tokens |-> 0]
      /\ lens = [t \in Slots |-> 0] /\ perReq = lens /\ seqs = lens
      /\ tables = [t \in Slots |-> [c \in Below(Pages * Factor) |-> 0]]
      /\ gathered = [x \in Below(Workspace) |-> NoKey]
      /\ topk = [t \in Slots |-> EmptyRow]
      /\ meta = [chunks |-> <<>>, short |-> FALSE, decode |-> NoDecode]
  BY DEF Init
<1>2. BuffersTyped
  BY <1>1 DEF BuffersTyped, Buffers
<1>3. Reqs(batch) = 0 /\ Loc(batch, 0) = 0
  BY <1>1, SumStep DEF Reqs, Loc
<1>4. DoneIs(batch, topk)
  BY <1>3 DEF DoneIs
<1>5. MetaTyped
  BY <1>1 DEF MetaTyped
<1>6. QED
  BY <1>1, <1>2, <1>4, <1>5 DEF RowInv

LEMMA RowBuild ==
  ASSUME RowsAssumed, RowInv, NEW b, b \in Batches(launch), Build(b)
  PROVE  RowInv'
<1>1. Ready(b) /\ Buffers /\ launch' = launch
  BY DEF RowInv, BuffersTyped, Build, Ready
<1>2. /\ pc' = "start" /\ batch' = b /\ topk' = topk /\ gathered' = gathered
  BY DEF Build
<1>3. BuffersTyped'
  <2>1. CASE NumDecodes(b) > 0
    <3>1. perReq' = Stashed(b) /\ lens' = NewLens(b) /\ seqs' = NewSeqs(b)
          /\ tables' = NewTables(b)
      BY <2>1 DEF Build
    <3>2. DOMAIN Stashed(b) = Slots
      BY <1>1 DEF Stashed, Over, Buffers
    <3>3. DOMAIN NewLens(b) = Slots
      BY <1>1 DEF NewLens, Over, Buffers
    <3>4. DOMAIN NewSeqs(b) = Slots
      <4>1. CASE UseNative(b)
        <5>1. NextN \in {1, 2}
          BY <4>1 DEF UseNative, UseFlattening
        <5>2. NewSeqs(b) = seqs \/ NewSeqs(b) = Over(seqs, NumDecodes(b) * MaxLen(b), LAMBDA t : UniformSeq(b, t))
          BY <4>1, <5>1 DEF NewSeqs
        <5>3. QED
          BY <1>1, <5>2 DEF Over, Buffers
      <4>2. CASE ~UseNative(b)
        BY <4>2 DEF NewSeqs
      <4>3. QED
        BY <4>1, <4>2
    <3>5. DOMAIN NewTables(b) = Slots
      <4>1. CASE UseNative(b)
        BY <1>1, <4>1 DEF NewTables, Buffers
      <4>2. CASE ~UseNative(b) /\ Uniform(b)
        <5>1. NewTables(b) = Over(tables, DecodeTokens(b), LAMBDA t : RawRow(b, t \div MaxLen(b)))
          BY <4>2 DEF NewTables
        <5>2. QED
          BY <1>1, <5>1 DEF Over, Buffers
      <4>3. CASE ~UseNative(b) /\ ~Uniform(b)
        BY <4>3 DEF NewTables
      <4>4. QED
        BY <4>1, <4>2, <4>3
    <3>6. Workspace' = Workspace
      BY <1>1, Kept
    <3>7. QED
      BY <1>2, <3>1, <3>2, <3>3, <3>4, <3>5, <3>6 DEF RowInv, BuffersTyped, Buffers
  <2>2. CASE ~(NumDecodes(b) > 0)
    <3>1. UNCHANGED <<perReq, lens, seqs, tables>>
      BY <2>2 DEF Build
    <3>2. Workspace' = Workspace
      BY <1>1, Kept
    <3>3. QED
      BY <1>2, <3>1, <3>2 DEF RowInv, BuffersTyped, Buffers
  <2>3. QED
    BY <2>1, <2>2
<1>4. PICK d : d = IF NumDecodes(b) > 0 THEN DecodeMeta(b) ELSE NoDecode
  OBVIOUS
<1>5. PICK cs, short : cs = PrefillMeta(b).chunks /\ short = PrefillMeta(b).short
  OBVIOUS
<1>6. /\ meta'.chunks = cs /\ meta'.short = short /\ meta'.decode = d
      /\ MetaTyped'
  BY <1>4, <1>5 DEF Build, MetaTyped
<1>7. DecodeIs(b, d)
  <2>1. CASE NumDecodes(b) > 0
    BY <1>1, <1>4, <2>1, BuildDecodes
  <2>2. CASE ~(NumDecodes(b) > 0)
    BY <2>2 DEF DecodeIs
  <2>3. QED
    BY <2>1, <2>2
<1>8. StartIs(b, cs, short)
  BY <1>1, <1>5, BuildPrefills
<1>9. Ready(b)' /\ DecodeIs(b, d)' /\ StartIs(b, cs, short)'
  BY <1>1, <1>7, <1>8, KeptParts
<1>10. Ready(batch)' /\ DecodeIs(batch, meta.decode)'
       /\ StartIs(batch, meta.chunks, meta.short)'
  BY <1>2, <1>6, <1>9
<1>11. launch' \in Launches
  BY <1>1 DEF Ready
<1>12. QED
  BY <1>2, <1>3, <1>6, <1>10, <1>11 DEF RowInv

(* A step within a batch that leaves the decode part alone.                 *)
LEMMA RowWithin ==
  ASSUME RowInv, pc # "build", NEW b, b = batch, launch' = launch, batch' = batch,
         UNCHANGED <<lens, perReq, seqs, tables>>, meta'.decode = meta.decode,
         DOMAIN topk' = Slots, DOMAIN gathered' = Below(Workspace)
  PROVE  /\ Ready(b) /\ DecodeIs(b, meta.decode)
         /\ launch' \in Launches /\ BuffersTyped' /\ Ready(batch)'
         /\ DecodeIs(batch, meta.decode)'
<1>1. Ready(b) /\ DecodeIs(b, meta.decode) /\ launch \in Launches
  BY DEF RowInv
<1>2. Workspace' = Workspace
  BY Kept
<1>3. BuffersTyped'
  BY <1>2 DEF RowInv, BuffersTyped, Buffers
<1>4. PICK d : d = meta.decode
  OBVIOUS
<1>5. Ready(b)' /\ DecodeIs(b, d)'
  BY <1>1, <1>4, KeptParts
<1>6. Ready(batch)' /\ DecodeIs(batch, meta.decode)'
  BY <1>4, <1>5
<1>7. QED
  BY <1>1, <1>3, <1>6

LEMMA RowStart ==
  ASSUME RowInv, Start \/ PlainStart
  PROVE  RowInv'
<1>1. PICK b : b = batch
  OBVIOUS
<1>2. /\ pc = "start" /\ pc' = "prefill" /\ launch' = launch /\ batch' = batch
      /\ UNCHANGED <<lens, perReq, seqs, tables>> /\ gathered' = gathered
      /\ DOMAIN topk' = Slots
  BY DEF Start, PlainStart, StartRows
<1>3. StartIs(b, meta.chunks, meta.short) /\ Ready(b) /\ DOMAIN gathered = Below(Workspace)
      /\ MetaTyped
  BY <1>1, <1>2 DEF RowInv, BuffersTyped
<1>4. PICK work, rows : work = gathered /\ rows = topk'
  OBVIOUS
<1>5. PICK cs : cs = IF ~Plain /\ meta.short THEN <<>> ELSE meta.chunks
  OBVIOUS
<1>6. meta'.chunks = cs /\ meta'.decode = meta.decode /\ MetaTyped'
  <2>1. CASE Start
    <3>1. meta' = [meta EXCEPT !.chunks = cs]
      BY <1>5, <2>1 DEF Start
    <3>2. QED
      BY <1>3, <3>1, MetaKept
  <2>2. CASE PlainStart
    <3>1. meta' = meta /\ cs = meta.chunks
      BY <1>5, <2>2 DEF PlainStart
    <3>2. QED
      BY <1>3, <3>1 DEF MetaTyped
  <2>3. QED
    BY <2>1, <2>2
<1>7. LoopIs(b, cs, work, rows)
  <2>1. CASE ~Plain /\ meta.short
    <3>1. rows = StartRows(b) /\ cs = <<>>
      BY <1>1, <1>4, <1>5, <2>1 DEF Start, PlainStart
    <3>2. QED
      BY <1>3, <2>1, <3>1, StartShort
  <2>2. CASE Plain \/ ~meta.short
    <3>1. cs = meta.chunks
      BY <1>5, <2>2
    <3>2. QED
      BY <1>3, <2>2, <3>1, StartLoop
  <2>3. QED
    BY <2>1, <2>2
<1>8. LoopIs(b, cs, work, rows)'
  BY <1>2, <1>7, KeptParts
<1>9. LoopIs(batch, meta.chunks, gathered, topk)'
  BY <1>1, <1>2, <1>4, <1>6, <1>8
<1>10. /\ launch' \in Launches /\ BuffersTyped' /\ Ready(batch)'
       /\ DecodeIs(batch, meta.decode)'
  BY <1>1, <1>2, <1>3, <1>6, RowWithin
<1>11. QED
  BY <1>2, <1>6, <1>9, <1>10 DEF RowInv

LEMMA RowChunk ==
  ASSUME RowInv, PrefillChunk \/ PlainChunk
  PROVE  RowInv'
<1>1. PICK b, cs : b = batch /\ cs = meta.chunks
  OBVIOUS
<1>2. PICK c : c = Head(cs)
  OBVIOUS
<1>3. PICK work : work = IF c.skip THEN gathered ELSE Gathered(b, c)
  OBVIOUS
<1>4. /\ pc = "prefill" /\ pc' = pc /\ launch' = launch /\ batch' = batch
      /\ UNCHANGED <<lens, perReq, seqs, tables>> /\ gathered' = work
      /\ meta' = [meta EXCEPT !.chunks = Tail(cs)] /\ cs # <<>>
      /\ DOMAIN topk' = Slots
  BY <1>1, <1>2, <1>3 DEF PrefillChunk, PlainChunk
<1>5. LoopIs(b, cs, gathered, topk) /\ Ready(b) /\ DOMAIN gathered = Below(Workspace)
      /\ MetaTyped
  BY <1>1, <1>4 DEF RowInv, BuffersTyped
<1>6. PICK rows : rows = topk'
  OBVIOUS
<1>7. GoodChunk(b, c)
  <2>1. PICK S : cs \in Seq(S)
    BY <1>5 DEF LoopIs, ChunkList
  <2>2. c = cs[1] /\ 1 \in 1..Len(cs)
    BY <1>2, <1>4, <2>1
  <2>3. QED
    BY <1>5, <2>2 DEF LoopIs, ChunkList
<1>8. ASSUME NEW t \in Slots, HasKeys(b, c, work)
      PROVE  rows[t] = IF InChunk(c, t) THEN OwnRow(b, t) ELSE topk[t]
  <2>1. t \in Nat
    BY DEF Slots
  <2> DEFINE n == c.ke[t - c.token] - c.ks[t - c.token]
             key == RowKeys(c, t - c.token, work)
  <2>2. InChunk(c, t) =>
          /\ Expanded(n, Position(b, t) + 1, key) = OwnRow(b, t)
          /\ Plain => PlainRow(n, key) = OwnRow(b, t)
    BY <1>5, <1>7, <1>8, <2>1, ChunkRowRight
  <2>3. PrefillChunk =>
          rows[t] = IF InChunk(c, t) THEN Expanded(n, Position(b, t) + 1, key) ELSE topk[t]
    BY <1>1, <1>2, <1>3, <1>6 DEF PrefillChunk, InChunk
  <2>4. PlainChunk => Plain /\ rows[t] = IF InChunk(c, t) THEN PlainRow(n, key) ELSE topk[t]
    BY <1>1, <1>2, <1>3, <1>6 DEF PlainChunk, InChunk
  <2> HIDE DEF n, key
  <2>5. QED
    BY <2>2, <2>3, <2>4
<1>9. LoopIs(b, Tail(cs), work, rows) /\ DOMAIN work = Below(Workspace)
  <2>1. /\ Ready(b) /\ DOMAIN gathered = Below(Workspace)
        /\ cs # <<>> /\ LoopIs(b, cs, gathered, topk)
        /\ c = Head(cs) /\ Fetched(b, c, work) /\ Written(b, c, work, rows)
    BY <1>2, <1>3, <1>4, <1>5, <1>8 DEF Fetched, Written
  <2>2. QED
    BY ONLY <2>1, ChunkDone
<1>10. PICK ds : ds = Tail(cs)
  OBVIOUS
<1>11. LoopIs(b, ds, work, rows)'
  BY <1>4, <1>9, <1>10, KeptParts
<1>12. meta'.chunks = ds /\ meta'.decode = meta.decode /\ MetaTyped'
  BY <1>4, <1>5, <1>10, MetaKept
<1>13. LoopIs(batch, meta.chunks, gathered, topk)'
  BY <1>1, <1>4, <1>6, <1>11, <1>12
<1>14. /\ launch' \in Launches /\ BuffersTyped' /\ Ready(batch)'
       /\ DecodeIs(batch, meta.decode)'
  BY <1>1, <1>4, <1>9, <1>12, RowWithin
<1>15. QED
  BY <1>4, <1>12, <1>13, <1>14 DEF RowInv

LEMMA RowDecode ==
  ASSUME RowsAssumed, RowInv, WriteInv, Decode \/ PlainDecode
  PROVE  RowInv'
<1>1. PICK b : b = batch
  OBVIOUS
<1>2. /\ pc = "prefill" /\ pc' = "build" /\ launch' = launch /\ batch' = batch
      /\ UNCHANGED <<lens, perReq, seqs, tables>> /\ gathered' = gathered
      /\ meta' = meta /\ meta.chunks = <<>>
  BY DEF Decode, PlainDecode
<1>3. /\ LoopIs(b, <<>>, gathered, topk) /\ Ready(b) /\ DecodeIs(b, meta.decode)
      /\ MetaTyped /\ BuffersTyped
  BY <1>1, <1>2 DEF RowInv
<1>4. NumDecodes(b) \in Nat /\ (NumDecodes(b) = 0 => Loc(b, NumDecodes(b)) = 0)
      /\ Loc(b, NumDecodes(b)) <= Loc(b, Reqs(b)) /\ Loc(b, NumDecodes(b)) \in Nat
      /\ Loc(b, Reqs(b)) \in Nat
  BY <1>3, DecodesTyped, LocTyped, DecodeTokensTyped, BatchSize
<1>5. PICK rows : rows = topk'
  OBVIOUS
<1>6. DOMAIN rows = Slots /\ \A t \in Slots :
        rows[t] = IF t < Loc(b, NumDecodes(b)) THEN OwnRow(b, t) ELSE topk[t]
  <2>1. CASE NumDecodes(b) = 0
    <3>1. rows = topk
      BY <1>1, <1>5, <2>1 DEF Decode, PlainDecode
    <3>2. \A t \in Slots : ~(t < Loc(b, NumDecodes(b)))
      BY <1>4, <2>1 DEF Slots
    <3>3. QED
      BY <1>3, <3>1, <3>2 DEF BuffersTyped
  <2>2. CASE NumDecodes(b) > 0
    <3>1. ASSUME NEW t \in Slots, t < Loc(b, NumDecodes(b)), NEW stale
          PROVE  /\ ~Plain => DecodeRowAt(b, t, stale) = OwnRow(b, t)
                 /\ Plain => PlainRow(ContextAt(PlaceOf(b, t)), DecodeKeys(b, PlaceOf(b, t)))
                               = OwnRow(b, t)
      <4>1. t \in Nat /\ t < Loc(b, Reqs(b))
        BY <1>4, <3>1 DEF Slots
      <4>2. LaidOut(meta.decode, b, t)
        BY <1>3, <2>2, <3>1, <4>1 DEF DecodeIs
      <4>3. ~Plain => ~(FlatRows(b) < DecodeTokens(b))
        <5> SUFFICES ASSUME ~Plain PROVE ~(FlatRows(b) < DecodeTokens(b))
          OBVIOUS
        <5>1. TailShapes(b)
          BY <1>1, <2>2 DEF Decode, PlainDecode
        <5>2. WriteAssumed
          BY DEF RowsAssumed, WriteAssumed
        <5>3. Stash(b, perReq, meta.decode)
          BY <1>1, <1>2, <2>2 DEF WriteInv
        <5>4. DecodeTokens(b) = FlatRows(b) /\ FlatRows(b) \in Nat
          BY <1>3, <2>2, <5>1, <5>2, <5>3, RealTokens, StashSum
        <5>5. QED
          BY <5>4
      <4>4. QED
        BY <1>3, <4>1, <4>2, <4>3, DecodeRowRight
    <3>2. CASE Decode
      <4>1. PICK stale \in Stale(b) :
              rows = [t \in Slots |-> IF t < FlatRows(b) THEN DecodeRowAt(b, t, stale)
                                      ELSE topk[t]]
        BY <1>1, <1>5, <2>2, <3>2 DEF Decode
      <4>2. ~Plain
        BY <3>2 DEF Decode
      <4>3. \A t \in Slots : t < Loc(b, NumDecodes(b)) => DecodeRowAt(b, t, stale) = OwnRow(b, t)
        BY <3>1, <4>2
      <4>4. QED
        BY <4>1, <4>3 DEF FlatRows
    <3>3. CASE PlainDecode
      <4> DEFINE row(t) == PlainRow(ContextAt(PlaceOf(b, t)), DecodeKeys(b, PlaceOf(b, t)))
      <4>1. rows = [t \in Slots |-> IF t < FlatRows(b) THEN row(t) ELSE topk[t]]
        BY <1>1, <1>5, <2>2, <3>3 DEF PlainDecode
      <4>2. Plain
        BY <3>3 DEF PlainDecode
      <4>3. \A t \in Slots : t < Loc(b, NumDecodes(b)) => row(t) = OwnRow(b, t)
        BY <3>1, <4>2
      <4> HIDE DEF row
      <4>4. QED
        BY <4>1, <4>3 DEF FlatRows
    <3>4. QED
      BY <3>2, <3>3
  <2>3. QED
    BY <1>4, <2>1, <2>2
<1>7. DoneIs(b, rows)
  BY <1>3, <1>6, DecodeDone
<1>8. DoneIs(b, rows)'
  BY <1>2, <1>7, KeptParts
<1>9. DoneIs(batch, topk)'
  BY <1>1, <1>2, <1>5, <1>8
<1>10. Workspace' = Workspace
  BY <1>2, Kept
<1>11. BuffersTyped' /\ MetaTyped'
  BY <1>2, <1>3, <1>5, <1>6, <1>10 DEF BuffersTyped, Buffers, MetaTyped
<1>12. launch' \in Launches
  BY <1>2 DEF RowInv
<1>13. QED
  BY <1>2, <1>9, <1>11, <1>12 DEF RowInv

(* The rows are not looked at in a step that raised.                        *)
LEMMA RowRaises ==
  ASSUME RowInv, DecodeRaises
  PROVE  RowInv'
<1>1. PICK b : b = batch
  OBVIOUS
<1>2. /\ pc = "prefill" /\ pc' = "failed" /\ launch' = launch /\ batch' = batch
      /\ UNCHANGED <<lens, perReq, seqs, tables>> /\ gathered' = gathered
      /\ meta' = meta /\ topk' = topk
  BY DEF DecodeRaises
<1>3. DOMAIN topk' = Slots /\ DOMAIN gathered' = Below(Workspace) /\ MetaTyped'
  BY <1>2 DEF RowInv, BuffersTyped, MetaTyped
<1>4. /\ launch' \in Launches /\ BuffersTyped' /\ Ready(batch)'
      /\ DecodeIs(batch, meta.decode)'
  BY <1>1, <1>2, <1>3, RowWithin
<1>5. QED
  BY <1>2, <1>3, <1>4 DEF RowInv

LEMMA RowStutter ==
  ASSUME RowInv, UNCHANGED vars
  PROVE  RowInv'
<1>1. /\ launch' = launch /\ pc' = pc /\ batch' = batch /\ meta' = meta /\ gathered' = gathered
      /\ topk' = topk /\ UNCHANGED <<lens, perReq, seqs, tables>>
  BY DEF vars
<1>2. PICK b, d, cs, short, work, rows :
        /\ b = batch /\ d = meta.decode /\ cs = meta.chunks /\ short = meta.short
        /\ work = gathered /\ rows = topk
  OBVIOUS
<1>3. /\ Ready(b)' <=> Ready(b)
      /\ DecodeIs(b, d)' <=> DecodeIs(b, d)
      /\ StartIs(b, cs, short)' <=> StartIs(b, cs, short)
      /\ LoopIs(b, cs, work, rows)' <=> LoopIs(b, cs, work, rows)
      /\ DoneIs(b, rows)' <=> DoneIs(b, rows)
  BY <1>1, KeptParts
<1>4. Workspace' = Workspace
  BY <1>1, Kept
<1>5. BuffersTyped' /\ MetaTyped' /\ launch' \in Launches /\ pc' \in {"build", "start", "prefill", "failed"}
  BY <1>1, <1>4 DEF RowInv, BuffersTyped, Buffers, MetaTyped
<1>6. pc' # "build" => Ready(batch)' /\ DecodeIs(batch, meta.decode)'
  BY <1>1, <1>2, <1>3 DEF RowInv
<1>7. pc' = "start" => StartIs(batch, meta.chunks, meta.short)'
  BY <1>1, <1>2, <1>3 DEF RowInv
<1>8. pc' = "prefill" => LoopIs(batch, meta.chunks, gathered, topk)'
  BY <1>1, <1>2, <1>3 DEF RowInv
<1>9. pc' = "build" => DoneIs(batch, topk)'
  BY <1>1, <1>2, <1>3 DEF RowInv
<1>10. QED
  BY <1>5, <1>6, <1>7, <1>8, <1>9 DEF RowInv

LEMMA RowNext ==
  ASSUME RowsAssumed, RowInv, WriteInv, [Next]_vars
  PROVE  RowInv'
<1>1. ASSUME NEW b \in Batches(launch), Build(b) PROVE RowInv'
  BY <1>1, RowBuild
<1>2. CASE Start \/ PlainStart
  BY <1>2, RowStart
<1>3. CASE PrefillChunk \/ PlainChunk
  BY <1>3, RowChunk
<1>4. CASE Decode \/ PlainDecode
  BY <1>4, RowDecode
<1>5. CASE DecodeRaises
  BY <1>5, RowRaises
<1>6. CASE UNCHANGED vars
  BY <1>6, RowStutter
<1>7. QED
  BY <1>1, <1>2, <1>3, <1>4, <1>5, <1>6 DEF Next

(* The invariant implies the property.                                      *)
LEMMA RowInvExact ==
  ASSUME RowInv
  PROVE  RowsExact
<1> SUFFICES ASSUME Done, NEW t \in Below(Loc(batch, Len(batch.reqs)))
             PROVE  /\ topk[t].pos = OwnRow(batch, t).pos
                    /\ topk[t].seen \in {OwnRow(batch, t).seen} \cup
                         (IF Position(batch, t) < TopK THEN {{}} ELSE {})
  BY DEF RowsExact
<1>1. DoneIs(batch, topk)
  BY DEF RowInv, Done
<1>2. Exact(batch, t, topk[t])
  <2>1. PICK n \in Nat : n = Loc(batch, Reqs(batch))
    BY <1>1 DEF DoneIs
  <2>2. t \in Nat /\ t < n
    BY <2>1 DEF Below, Reqs
  <2>3. QED
    BY <1>1, <2>1, <2>2 DEF DoneIs
<1>3. QED
  BY <1>2 DEF Exact

-----------------------------------------------------------------------------
(* ChunksFit needs no more than that the batch of a step is one.            *)

ReadyInv == launch \in Launches /\ (pc # "build" => Ready(batch))

LEMMA ReadyNext ==
  ASSUME ReadyInv, [Next]_vars
  PROVE  ReadyInv'
<1>1. ASSUME NEW b \in Batches(launch), Build(b) PROVE ReadyInv'
  <2>1. launch' = launch /\ batch' = b
    BY <1>1 DEF Build
  <2>2. QED
    BY <1>1, <2>1 DEF ReadyInv, Ready
<1>2. CASE Start \/ PlainStart \/ PrefillChunk \/ PlainChunk \/ DecodeRaises \/ Decode
              \/ PlainDecode
  <2>1. launch' = launch /\ batch' = batch /\ pc # "build"
    BY <1>2 DEF Start, PlainStart, PrefillChunk, PlainChunk, DecodeRaises, Decode, PlainDecode
  <2>2. QED
    BY <2>1 DEF ReadyInv, Ready
<1>3. CASE UNCHANGED vars
  BY <1>3 DEF vars, ReadyInv, Ready
<1>4. QED
  BY <1>1, <1>2, <1>3 DEF Next

LEMMA ReadyFit ==
  ASSUME ReadyInv
  PROVE  ChunksFit
<1> SUFFICES ASSUME pc = "start", NumDecodes(batch) < Rows(batch) PROVE ChunksFit
  BY DEF ChunksFit
<1>1. PICK b, specs : b = batch /\ specs = ChunkSpecs(b)
  OBVIOUS
<1>2. Ready(b) /\ NumDecodes(b) < Rows(b)
  BY <1>1 DEF ReadyInv
<1>3. /\ \A k \in DOMAIN specs :
           LET c == specs[k]
               keys == ChunkKeys(b, c.first, c.last)
           IN /\ keys <= Workspace
              /\ c.to > c.from => (c.to - c.from + 1) * keys <= MaxLogits
              /\ c.from <= c.to
              /\ Loc(b, c.first) + c.from =
                   IF k = 1 THEN DecodeTokens(b)
                   ELSE Loc(b, specs[k - 1].first) + specs[k - 1].to + 1
      /\ Loc(b, specs[Len(specs)].first) + specs[Len(specs)].to = b.tokens - 1
  BY <1>1, <1>2, SpecsFit
<1>4. QED
  BY <1>1, <1>3 DEF ChunksFit

-----------------------------------------------------------------------------
(* SlotsExact: the columns of a row, the slots of the columns, and the      *)
(* invariant.  First the columns.                                           *)

Gap(n) == [c \in 1..n |-> -1]

Sorted(S) ==
  [n \in 1..Cardinality(S) |-> CHOOSE x \in S : Cardinality({y \in S : y < x}) = n - 1]

LEMMA GapIs ==
  ASSUME NEW n \in Int
  PROVE  /\ Gap(n) \in Seq(Int) /\ Len(Gap(n)) = IF n > 0 THEN n ELSE 0
         /\ \A c \in 1..Len(Gap(n)) : Gap(n)[c] = -1
<1>1. CASE n > 0
  BY <1>1 DEF Gap
<1>2. CASE ~(n > 0)
  <2>1. 1..n = 1..0
    BY <1>2
  <2>2. Gap(n) = [c \in 1..0 |-> -1]
    BY <2>1 DEF Gap
  <2>3. QED
    BY <1>2, <2>2
<1>3. QED
  BY <1>1, <1>2

(* An interval is sorted by counting from its start.                        *)
LEMMA SortedIs ==
  ASSUME NEW a \in Int, NEW e \in Int, a <= e + 1
  PROVE  /\ Sorted(a..e) \in Seq(Int) /\ Len(Sorted(a..e)) = e - a + 1
         /\ \A n \in 1..(e - a + 1) : Sorted(a..e)[n] = a + n - 1
<1>1. Cardinality(a..e) = e - a + 1
  BY FS_Interval
<1>2. ASSUME NEW x \in a..e
      PROVE  Cardinality({y \in a..e : y < x}) = x - a
  <2>1. {y \in a..e : y < x} = a..(x - 1)
    OBVIOUS
  <2>2. Cardinality(a..(x - 1)) = x - a
    <3>1. x - 1 \in Int /\ (a > x - 1 => x - a = 0) /\ ((x - 1) - a) + 1 = x - a
      OBVIOUS
    <3>2. QED
      BY <3>1, FS_Interval
  <2>3. QED
    BY <2>1, <2>2
<1>3. ASSUME NEW n \in 1..(e - a + 1)
      PROVE  (CHOOSE x \in a..e : Cardinality({y \in a..e : y < x}) = n - 1) = a + n - 1
  <2> DEFINE x == a + n - 1
  <2>1. x \in a..e /\ x - a = n - 1
    OBVIOUS
  <2>2. \A z \in a..e : z - a = n - 1 => z = x
    OBVIOUS
  <2> HIDE DEF x
  <2>3. Cardinality({y \in a..e : y < x}) = n - 1
    BY <1>2, <2>1
  <2>4. \A z \in a..e : Cardinality({y \in a..e : y < z}) = n - 1 => z = x
    BY <1>2, <2>2
  <2>5. (CHOOSE z \in a..e : Cardinality({y \in a..e : y < z}) = n - 1) = x
    BY <2>1, <2>3, <2>4
  <2>6. QED
    BY <2>5 DEF x
<1>4. Sorted(a..e) = [n \in 1..(e - a + 1) |-> a + n - 1]
  BY <1>1, <1>3 DEF Sorted
<1>5. QED
  BY <1>4

(* A sequence, a gap up to column k, a sequence, a gap up to column w.      *)
Filled(A, T, k, w) ==
  LET head == A \o Gap(k - Len(A)) \o T IN head \o Gap(w - Len(head))

Lengths(A, T, k, w, na, ng, nt, nr) ==
  /\ A \in Seq(Int) /\ T \in Seq(Int) /\ k \in Nat /\ w \in Nat
  /\ na \in Nat /\ ng \in Nat /\ nt \in Nat /\ nr \in Nat
  /\ Len(A) = na /\ Len(T) = nt /\ Len(Gap(k - Len(A))) = ng /\ w = na + ng + nt + nr

InColumn(A, T, na, ng, nt, j) ==
  IF j <= na THEN A[j]
  ELSE IF na + ng < j /\ j <= na + ng + nt THEN T[j - (na + ng)] ELSE -1

LEMMA FilledIs ==
  ASSUME NEW A, NEW T, NEW k, NEW w, NEW na, NEW ng, NEW nt, NEW nr,
         Lengths(A, T, k, w, na, ng, nt, nr)
  PROVE  \A j \in 1..w : Filled(A, T, k, w)[j] = InColumn(A, T, na, ng, nt, j)
<1>0. /\ A \in Seq(Int) /\ T \in Seq(Int) /\ k \in Nat /\ w \in Nat
      /\ na \in Nat /\ ng \in Nat /\ nt \in Nat /\ nr \in Nat
      /\ Len(A) = na /\ Len(T) = nt /\ Len(Gap(k - Len(A))) = ng /\ w = na + ng + nt + nr
  BY DEF Lengths
<1> USE <1>0
<1> DEFINE m == k - Len(A)
           G == Gap(m)
           AG == A \o G
           H == AG \o T
           n == w - Len(H)
           R == Gap(n)
           W == H \o R
<1>1. m \in Int
  BY LenProperties
<1>2. G \in Seq(Int) /\ Len(G) = ng /\ \A j \in 1..ng : G[j] = -1
  <2> HIDE DEF m
  <2>1. G \in Seq(Int) /\ \A j \in 1..Len(G) : G[j] = -1
    BY <1>1, GapIs
  <2>2. Len(G) = ng
    BY DEF m
  <2>3. QED
    BY <2>1, <2>2
<1> HIDE DEF m, G
<1>3. AG \in Seq(Int) /\ Len(AG) = Len(A) + Len(G)
      /\ \A j \in 1..(Len(A) + Len(G)) : AG[j] = IF j <= Len(A) THEN A[j] ELSE G[j - Len(A)]
  BY <1>2, ConcatProperties
<1> HIDE DEF AG
<1>4. /\ Len(AG) = na + ng
      /\ \A j \in 1..(na + ng) : AG[j] = IF j <= na THEN A[j] ELSE G[j - na]
  BY <1>2, <1>3
<1>5. H \in Seq(Int) /\ Len(H) = Len(AG) + Len(T)
      /\ \A j \in 1..(Len(AG) + Len(T)) : H[j] = IF j <= Len(AG) THEN AG[j] ELSE T[j - Len(AG)]
  <2>1. AG \in Seq(Int) /\ T \in Seq(Int)
    BY <1>3
  <2>2. QED
    BY <2>1, ConcatProperties
<1> HIDE DEF H
<1>6. /\ Len(H) = na + ng + nt
      /\ \A j \in 1..(na + ng + nt) : H[j] = IF j <= na + ng THEN AG[j] ELSE T[j - (na + ng)]
  BY <1>4, <1>5
<1>7. n = nr
  BY <1>6
<1> HIDE DEF n
<1>8. R \in Seq(Int) /\ Len(R) = nr /\ \A j \in 1..nr : R[j] = -1
  <2>0. nr \in Int
    OBVIOUS
  <2>1. /\ Gap(nr) \in Seq(Int) /\ Len(Gap(nr)) = IF nr > 0 THEN nr ELSE 0
        /\ \A j \in 1..Len(Gap(nr)) : Gap(nr)[j] = -1
    BY <2>0, GapIs
  <2>2. (IF nr > 0 THEN nr ELSE 0) = nr
    OBVIOUS
  <2>3. QED
    BY <1>7, <2>1, <2>2
<1> HIDE DEF R
<1>9. Len(W) = Len(H) + Len(R)
      /\ \A j \in 1..(Len(H) + Len(R)) : W[j] = IF j <= Len(H) THEN H[j] ELSE R[j - Len(H)]
  <2>1. H \in Seq(Int) /\ R \in Seq(Int)
    BY <1>5, <1>8
  <2>2. QED
    BY <2>1, ConcatProperties
<1>10. W = Filled(A, T, k, w)
  BY DEF Filled, W, R, n, H, AG, G, m
<1> HIDE DEF W
<1>11. /\ Len(W) = na + ng + nt + nr
       /\ \A j \in 1..(na + ng + nt + nr) :
            W[j] = IF j <= na + ng + nt THEN H[j] ELSE R[j - (na + ng + nt)]
  BY <1>6, <1>8, <1>9
<1>12. ASSUME NEW j \in 1..(na + ng + nt + nr)
       PROVE  W[j] = IF j <= na THEN A[j]
                     ELSE IF na + ng < j /\ j <= na + ng + nt THEN T[j - (na + ng)] ELSE -1
  <2>1. CASE j <= na
    <3>1. j \in 1..(na + ng) /\ j \in 1..(na + ng + nt) /\ j <= na + ng /\ j <= na + ng + nt
      BY <2>1
    <3>2. W[j] = H[j] /\ H[j] = AG[j] /\ AG[j] = A[j]
      BY <2>1, <3>1, <1>4, <1>6, <1>11
    <3>3. QED
      BY <2>1, <3>2
  <2>2. CASE na < j /\ j <= na + ng
    <3>1. /\ j - na \in 1..ng /\ j \in 1..(na + ng) /\ j \in 1..(na + ng + nt)
          /\ j <= na + ng + nt /\ ~(j <= na) /\ ~(na + ng < j)
      BY <2>2
    <3>2. W[j] = H[j] /\ H[j] = AG[j] /\ AG[j] = G[j - na] /\ G[j - na] = -1
      BY <2>2, <3>1, <1>2, <1>4, <1>6, <1>11
    <3>3. QED
      BY <3>1, <3>2
  <2>3. CASE na + ng < j /\ j <= na + ng + nt
    <3>1. j \in 1..(na + ng + nt) /\ ~(j <= na) /\ ~(j <= na + ng)
      BY <2>3
    <3>2. W[j] = H[j] /\ H[j] = T[j - (na + ng)]
      BY <2>3, <3>1, <1>6, <1>11
    <3>3. QED
      BY <2>3, <3>1, <3>2
  <2>4. CASE na + ng + nt < j
    <3>1. /\ j - (na + ng + nt) \in 1..nr /\ ~(j <= na) /\ ~(j <= na + ng)
          /\ ~(j <= na + ng + nt)
      BY <2>4
    <3>2. W[j] = R[j - (na + ng + nt)] /\ R[j - (na + ng + nt)] = -1
      BY <3>1, <1>8, <1>11
    <3>3. QED
      BY <3>1, <3>2
  <2>5. QED
    BY <2>1, <2>2, <2>3, <2>4
<1>13. QED
  BY <1>10, <1>12 DEF InColumn

(* The intervals lo..mid-1 and mid..len-1 behind one another: every position *)
(* is in one column, and the other columns are -1.                          *)
Parts(lo, mid, len, k, w) ==
  /\ {lo, mid, len, k, w} \subseteq Nat
  /\ lo <= mid /\ mid <= len /\ k + (len - mid) <= w /\ len - lo <= w

OnceEach(row, P, w) ==
  /\ \A j \in 1..w : row[j] = -1 \/ row[j] \in P
  /\ \A p \in P : \E j \in 1..w : row[j] = p
  /\ \A i, j \in 1..w : row[i] = row[j] /\ row[i] # -1 => i = j

LEMMA FilledPositions ==
  ASSUME NEW lo, NEW mid, NEW len, NEW k, NEW w, Parts(lo, mid, len, k, w)
  PROVE  OnceEach(Filled(Sorted(lo..(mid - 1)), Sorted(mid..(len - 1)), k, w),
                  lo..(len - 1), w)
<1>0. /\ lo \in Nat /\ mid \in Nat /\ len \in Nat /\ k \in Nat /\ w \in Nat
      /\ lo <= mid /\ mid <= len /\ k + (len - mid) <= w /\ len - lo <= w
  BY DEF Parts
<1> USE <1>0
<1> PICK row : row = Filled(Sorted(lo..(mid - 1)), Sorted(mid..(len - 1)), k, w)
  OBVIOUS
<1> DEFINE A == Sorted(lo..(mid - 1))
           T == Sorted(mid..(len - 1))
<1>1. PICK na \in Nat, nt \in Nat : na = mid - lo /\ nt = len - mid
  OBVIOUS
<1>2. PICK ng \in Nat, nr \in Nat :
        ng = (IF k - na > 0 THEN k - na ELSE 0) /\ w = na + ng + nt + nr
  <2>1. CASE k - na > 0
    <3>1. k - na \in Nat /\ w - (k + nt) \in Nat /\ w = na + (k - na) + nt + (w - (k + nt))
      BY <1>1, <2>1
    <3>2. QED
      BY <2>1, <3>1
  <2>2. CASE ~(k - na > 0)
    <3>1. w - (na + nt) \in Nat /\ w = na + 0 + nt + (w - (na + nt)) /\ 0 \in Nat
      BY <1>1, <2>2
    <3>2. QED
      BY <2>2, <3>1
  <2>3. QED
    BY <2>1, <2>2
<1>3. /\ A \in Seq(Int) /\ Len(A) = na /\ \A n \in 1..na : A[n] = lo + n - 1
  <2>1. lo \in Int /\ mid - 1 \in Int /\ lo <= (mid - 1) + 1 /\ (mid - 1) - lo + 1 = na
    BY <1>1
  <2>2. QED
    BY <2>1, SortedIs
<1>4. /\ T \in Seq(Int) /\ Len(T) = nt /\ \A n \in 1..nt : T[n] = mid + n - 1
  <2>1. mid \in Int /\ len - 1 \in Int /\ mid <= (len - 1) + 1 /\ (len - 1) - mid + 1 = nt
    BY <1>1
  <2>2. QED
    BY <2>1, SortedIs
<1> HIDE DEF A, T
<1>5. Len(Gap(k - Len(A))) = ng
  <2>1. k - na \in Int
    OBVIOUS
  <2>2. Len(Gap(k - na)) = IF k - na > 0 THEN k - na ELSE 0
    BY <2>1, GapIs
  <2>3. QED
    BY <1>2, <1>3, <2>2
<1>6. row = Filled(A, T, k, w)
  BY DEF A, T
<1>7. \A j \in 1..w : row[j] =
        IF j <= na THEN A[j]
        ELSE IF na + ng < j /\ j <= na + ng + nt THEN T[j - (na + ng)] ELSE -1
  <2>1. /\ A \in Seq(Int) /\ T \in Seq(Int) /\ Len(A) = na /\ Len(T) = nt
        /\ w = na + ng + nt + nr
    BY <1>2, <1>3, <1>4
  <2>2. Lengths(A, T, k, w, na, ng, nt, nr)
    BY <1>5, <2>1 DEF Lengths
  <2>3. \A j \in 1..w : Filled(A, T, k, w)[j] = InColumn(A, T, na, ng, nt, j)
    BY <2>2, FilledIs
  <2>4. QED
    BY <1>6, <2>3 DEF InColumn
<1>8. \A j \in 1..w : row[j] =
        IF j <= na THEN lo + j - 1
        ELSE IF na + ng < j /\ j <= na + ng + nt THEN mid + (j - (na + ng)) - 1 ELSE -1
  <2> SUFFICES ASSUME NEW j \in 1..w
               PROVE  row[j] =
                 IF j <= na THEN lo + j - 1
                 ELSE IF na + ng < j /\ j <= na + ng + nt THEN mid + (j - (na + ng)) - 1 ELSE -1
    OBVIOUS
  <2>1. CASE j <= na
    BY <1>3, <1>7, <2>1
  <2>2. CASE na + ng < j /\ j <= na + ng + nt
    <3>1. j - (na + ng) \in 1..nt /\ ~(j <= na)
      BY <2>2
    <3>2. T[j - (na + ng)] = mid + (j - (na + ng)) - 1
      BY <1>4, <3>1
    <3>3. QED
      BY <1>7, <2>2, <3>1, <3>2
  <2>3. CASE ~(j <= na) /\ ~(na + ng < j /\ j <= na + ng + nt)
    BY <1>7, <2>3
  <2>4. QED
    BY <2>1, <2>2, <2>3
<1>9. ASSUME NEW j \in 1..w PROVE row[j] = -1 \/ row[j] \in lo..(len - 1)
  BY <1>1, <1>8
<1>10. ASSUME NEW p \in lo..(len - 1) PROVE \E j \in 1..w : row[j] = p
  <2>1. CASE p < mid
    <3>1. (p - lo) + 1 \in 1..w /\ (p - lo) + 1 <= na
      BY <1>1, <1>2, <2>1
    <3>2. row[(p - lo) + 1] = lo + ((p - lo) + 1) - 1
      BY <1>8, <3>1
    <3>3. QED
      BY <3>1, <3>2
  <2>2. CASE ~(p < mid)
    <3> DEFINE j == na + ng + (p - mid) + 1
    <3>1. j \in 1..w /\ ~(j <= na) /\ na + ng < j /\ j <= na + ng + nt
      BY <1>1, <1>2, <2>2
    <3>2. row[j] = mid + (j - (na + ng)) - 1
      BY <1>8, <3>1
    <3>3. QED
      BY <3>1, <3>2
  <2>3. QED
    BY <2>1, <2>2
<1>11. ASSUME NEW i \in 1..w, NEW j \in 1..w, row[i] = row[j], row[i] # -1 PROVE i = j
  BY <1>1, <1>8, <1>11
<1>12. QED
  BY <1>9, <1>10, <1>11 DEF OnceEach

(* The positions of a row are an interval that ends at the token, its tail  *)
(* the positions behind the last pool.                                      *)
LEMMA PosInterval ==
  ASSUME launch \in Launches, NEW len \in Nat, NEW key
  PROVE  \E lo \in Nat, mid \in Nat :
           /\ lo <= mid /\ mid <= len /\ mid - lo <= TopK /\ len - mid <= KPool - 1
           /\ Expanded(Pooled(len), len, key).pos = lo..(len - 1)
           /\ TailOf(len) = mid..(len - 1)
<1>1. PICK k \in Nat \ {0} : k = KPool
  BY LaunchTyped
<1>2. PICK n \in Nat : n = Pooled(len)
  BY PooledTyped
<1>3. n * k \in Nat /\ n * k <= len /\ len - n * k <= k - 1
  BY <1>1, <1>2, DivMod DEF Pooled
<1>4. PICK s \in Nat : s = SelectK /\ s * k = TopK
  <2>1. TopK \in Nat /\ TopK % k = 0
    BY <1>1, LaunchTyped
  <2>2. TopK \div k \in Nat /\ TopK = ((TopK \div k) * k) + (TopK % k)
    BY <2>1, DivMod
  <2>3. QED
    BY <1>1, <2>1, <2>2 DEF SelectK
<1>5. PICK m \in Nat : m = IF n <= s THEN 0 ELSE n - s
  OBVIOUS
<1>6. m * k \in Nat /\ m * k <= n * k /\ n * k - m * k <= TopK
  <2>1. m <= n /\ n - m <= s
    BY <1>5
  <2>2. (n - m) * k >= 0 /\ (s - (n - m)) * k >= 0 /\ m * k \in Nat
    BY <2>1
  <2>3. (n - m) * k = n * k - m * k /\ (s - (n - m)) * k = s * k - (n * k - m * k)
    OBVIOUS
  <2>4. QED
    BY <1>3, <1>4, <2>2, <2>3
<1>7. \A p \in Nat : p \div k \in Nat /\ (p \div k < m <=> p < m * k) /\ (p \div k < n <=> p < n * k)
  BY DivMod, DivLess
<1>8. \A p \in Nat : p \div k \in Chosen(n) <=> m <= p \div k /\ p \div k < n
  BY <1>4, <1>5, <1>7 DEF Chosen, Below
<1>9. PICK lo \in Nat, mid \in Nat : lo = m * k /\ mid = n * k
  BY <1>3, <1>6
<1>10. \A p \in Nat : p \div k \in Chosen(n) <=> lo <= p /\ p < mid
  <2> SUFFICES ASSUME NEW p \in Nat PROVE p \div k \in Chosen(n) <=> lo <= p /\ p < mid
    OBVIOUS
  <2>1. PICK d \in Nat : d = p \div k
    BY <1>7
  <2>2. (d < m <=> p < lo) /\ (d < n <=> p < mid) /\ (d \in Chosen(n) <=> m <= d /\ d < n)
    BY <1>7, <1>8, <1>9, <2>1
  <2>3. QED
    BY <2>1, <2>2
<1>11. TailOf(len) = mid..(len - 1)
  <2>1. TailOf(len) = {p \in 0..(len - 1) : p >= mid}
    BY <1>1, <1>2, <1>9 DEF TailOf, Below
  <2>2. QED
    BY <2>1
<1>12. Expanded(n, len, key).pos = lo..(len - 1)
  <2>1. Expanded(n, len, key).pos = {p \in 0..(mid - 1) : p \div k \in Chosen(n)} \cup TailOf(len)
    BY <1>1, <1>9 DEF Expanded, Below
  <2>2. ASSUME NEW p \in 0..(mid - 1) PROVE p \div k \in Chosen(n) <=> lo <= p
    <3>1. p \in Nat /\ p < mid
      OBVIOUS
    <3>2. QED
      BY <1>10, <3>1
  <2>3. {p \in 0..(mid - 1) : p \div k \in Chosen(n)} = lo..(mid - 1)
    BY <2>2
  <2>4. lo..(len - 1) = (lo..(mid - 1)) \cup (mid..(len - 1))
    BY <1>3, <1>6, <1>9
  <2>5. QED
    BY <1>11, <2>1, <2>3, <2>4
<1>13. QED
  BY <1>1, <1>2, <1>3, <1>6, <1>9, <1>11, <1>12

(* The buffer has a column for every pool chosen and every token of a tail. *)
LEMMA BufferWide ==
  ASSUME launch \in Launches
  PROVE  BufferWidth \in Nat /\ TopK + KPool - 1 <= BufferWidth
<1>1. PICK x \in Nat : x = TopK + KPool - 1
  BY LaunchTyped
<1>2. PICK k \in Nat \ {0} : k = TileColumns
  BY AttendAssumption
<1>3. BufferWidth = ((x + k - 1) \div k) * k
  BY <1>1, <1>2 DEF BufferWidth, RoundUp
<1>4. PICK a \in Nat : a = x + k - 1
  OBVIOUS
<1>5. PICK d \in Nat, m \in Nat : d = a \div k /\ m < k /\ a = d * k + m
  BY DivMod
<1>6. d * k \in Nat
  OBVIOUS
<1>7. QED
  BY <1>1, <1>3, <1>4, <1>5, <1>6

(* The columns of a row hold its positions, each once, and -1.              *)
LEMMA RowHolds ==
  ASSUME NEW b, Ready(b), NEW t \in Nat, Position(b, t) \in Nat,
         topk[t].pos = OwnRow(b, t).pos
  PROVE  /\ OnceEach(RowColumns(b, t), OwnRow(b, t).pos, BufferWidth)
         /\ \A p \in OwnRow(b, t).pos : p \in Nat /\ p <= Position(b, t)
<1>1. launch \in Launches
  BY DEF Ready
<1>2. PICK len \in Nat : len = Position(b, t) + 1
  OBVIOUS
<1> DEFINE key == [pool \in Below(Pooled(len)) |-> KeyAt(Translate(RawRow(b, RowOf(b, t))), pool)]
<1>3. OwnRow(b, t) = Expanded(Pooled(len), len, key)
  BY <1>2 DEF OwnRow
<1> HIDE DEF key
<1>4. PICK lo \in Nat, mid \in Nat :
        /\ lo <= mid /\ mid <= len /\ mid - lo <= TopK /\ len - mid <= KPool - 1
        /\ Expanded(Pooled(len), len, key).pos = lo..(len - 1)
        /\ TailOf(len) = mid..(len - 1)
  BY <1>1, PosInterval
<1>5. OwnRow(b, t).pos = lo..(len - 1) /\ topk[t].pos = lo..(len - 1)
  BY <1>3, <1>4
<1>6. PICK w \in Nat, k \in Nat, kp \in Nat \ {0} :
        w = BufferWidth /\ k = TopK /\ kp = KPool /\ k + kp - 1 <= w
  BY <1>1, BufferWide, LaunchTyped
<1>7. OnceEach(RowColumns(b, t), lo..(len - 1), w)
  <2> DEFINE short == meta.short /\ t >= DecodeTokens(b)
             tail == IF short THEN {} ELSE topk[t].pos \cap TailOf(Position(b, t) + 1)
  <2>1. RowColumns(b, t) = Filled(Sorted(topk[t].pos \ tail), Sorted(tail), k, w)
    BY <1>6 DEF RowColumns, Filled, Sorted, Gap
  <2>2. CASE short
    <3>1. tail = {} /\ topk[t].pos \ tail = lo..(len - 1)
      BY <1>5, <2>2
    <3>2. len..(len - 1) = {}
      OBVIOUS
    <3>3. RowColumns(b, t) = Filled(Sorted(lo..(len - 1)), Sorted(len..(len - 1)), k, w)
      BY <2>1, <3>1, <3>2
    <3>4. Parts(lo, len, len, k, w)
      BY <1>4, <1>6 DEF Parts
    <3>5. QED
      BY <3>3, <3>4, FilledPositions
  <2>3. CASE ~short
    <3>1. tail = mid..(len - 1)
      <4>1. tail = (lo..(len - 1)) \cap (mid..(len - 1))
        BY <1>2, <1>4, <1>5, <2>3
      <4>2. (lo..(len - 1)) \cap (mid..(len - 1)) = mid..(len - 1)
        BY <1>4
      <4>3. QED
        BY <4>1, <4>2
    <3>2. topk[t].pos \ tail = lo..(mid - 1)
      <4>1. (lo..(len - 1)) \ (mid..(len - 1)) = lo..(mid - 1)
        BY <1>4
      <4>2. QED
        BY <1>5, <3>1, <4>1
    <3>3. RowColumns(b, t) = Filled(Sorted(lo..(mid - 1)), Sorted(mid..(len - 1)), k, w)
      BY <2>1, <3>1, <3>2
    <3>4. Parts(lo, mid, len, k, w)
      BY <1>4, <1>6 DEF Parts
    <3>5. QED
      BY <3>3, <3>4, FilledPositions
  <2>4. QED
    BY <2>2, <2>3
<1>8. \A p \in lo..(len - 1) : p \in Nat /\ p <= Position(b, t)
  BY <1>2
<1>9. QED
  BY <1>5, <1>6, <1>7, <1>8

-----------------------------------------------------------------------------
(* Slots.                                                                   *)

LEMMA SlotIs ==
  ASSUME NEW b, Ready(b), NEW i \in 0..(Reqs(b) - 1),
         NEW pos \in Nat, pos < Seq_(b, i)
  PROVE  GlobalSlot(b, i, pos) = HomeSlot(b, i, pos) /\ HomeSlot(b, i, pos) \in Nat
<1>1. launch \in Launches
  BY DEF Ready
<1>2. Reqs(b) \in Nat \ {0} /\ i + 1 \in 1..Reqs(b) /\ Seq_(b, i) = b.reqs[i + 1].seq
  BY BatchTyped
<1>3. b.reqs[i + 1].id \in Nat /\ b.reqs[i + 1].seq <= Pages * PageTokens
      /\ b.reqs[i + 1].seq \in Nat
  <2>1. WellFormed(launch, b)
    BY BatchAssumption DEF Ready
  <2>2. QED
    BY <1>2, <2>1 DEF WellFormed, Reqs
<1>4. PICK id \in Nat, pg \in Nat \ {0}, pt \in Nat \ {0}, f \in Nat \ {0} :
        id = b.reqs[i + 1].id /\ pg = Pages /\ pt = PageTokens /\ f = Factor
  BY <1>1, <1>3, LaunchTyped, SelectAssumption
<1>5. pt % f = 0
  BY <1>1, <1>4, SelectAssumption DEF Factor
<1>6. PICK bt \in Nat : bt = pt \div f /\ pt = bt * f
  BY <1>5, DivMod
<1>7. bt \in Nat \ {0}
  BY <1>6
<1>8. BlockTokens = bt
  BY <1>4, <1>6 DEF BlockTokens
<1>9. PICK c \in Nat, r \in Nat : c = pos \div bt /\ r = pos % bt /\ pos = c * bt + r
  BY <1>7, DivMod
<1>10. c < pg * f
  <2>1. pos < pg * pt /\ pg * f \in Nat
    BY <1>2, <1>3, <1>4
  <2>2. pg * pt = (pg * f) * bt
    BY <1>6
  <2>3. QED
    BY <1>7, <1>9, <2>1, <2>2, DivLess
<1>11. RawRow(b, i)[c] = (id * pg + (c \div f)) * f + (c % f)
  <2>1. c \in Below(Pages * Factor) /\ i < Len(b.reqs)
    BY <1>2, <1>4, <1>10 DEF Below, Reqs
  <2>2. QED
    BY <1>4, <2>1 DEF RawRow
<1>12. PICK d \in Nat, m \in Nat : d = c \div f /\ m = c % f /\ c = d * f + m
  BY DivMod
<1>13. RawRow(b, i)[c] = (id * pg) * f + c
  <2>1. PICK x \in Nat : x = id * pg
    OBVIOUS
  <2>2. (x + d) * f = x * f + d * f /\ x * f \in Nat /\ d * f \in Nat
    OBVIOUS
  <2>3. QED
    BY <1>11, <1>12, <2>1, <2>2
<1>14. ((id * pg) * f + c) * bt + r = (id * pg) * pt + pos
  <2>1. PICK x \in Nat : x = id * pg
    OBVIOUS
  <2>2. (x * f + c) * bt = (x * f) * bt + c * bt /\ (x * f) * bt = x * (bt * f)
    OBVIOUS
  <2>3. (x * f + c) * bt \in Nat /\ c * bt \in Nat /\ x * pt \in Nat
    OBVIOUS
  <2>4. QED
    BY <1>6, <1>9, <2>1, <2>2, <2>3
<1>15. GlobalSlot(b, i, pos) = RawRow(b, i)[c] * bt + r
  BY <1>8, <1>9 DEF GlobalSlot
<1>16. HomeSlot(b, i, pos) = (id * pg) * pt + pos
  BY <1>4 DEF HomeSlot
<1>17. (id * pg) * pt + pos \in Nat
  OBVIOUS
<1>18. QED
  BY <1>13, <1>14, <1>15, <1>16, <1>17

(* The columns of a token are the slots of its positions.                   *)
SlotsOf(b, t) ==
  LET idx == Indices(b, t)
      own == {HomeSlot(b, RowOf(b, t), pos) : pos \in OwnRow(b, t).pos}
  IN /\ {idx[c] : c \in Columns} \ {-1} = own
     /\ \A c, d \in Columns : idx[c] = idx[d] /\ idx[c] # -1 => c = d

LEMMA SlotsRight ==
  ASSUME NEW b, Ready(b), NEW t \in Nat, t < Loc(b, Reqs(b)),
         topk[t].pos = OwnRow(b, t).pos, reqIds[t] = RowOf(b, t)
  PROVE  SlotsOf(b, t)
<1> DEFINE row == RowColumns(b, t)
           P == OwnRow(b, t).pos
           idx == Indices(b, t)
<1>1. PICK i \in 0..(Reqs(b) - 1) : i = RowOf(b, t) /\ Holds(b, i, t)
  BY RowOfIs
<1>2. Position(b, t) \in Nat /\ Position(b, t) < Seq_(b, i)
  BY <1>1, PositionIs
<1>3. PICK w \in Nat : w = BufferWidth
  BY BufferWide DEF Ready
<1>4. /\ \A j \in 1..w : row[j] = -1 \/ row[j] \in P
      /\ \A p \in P : \E j \in 1..w : row[j] = p
      /\ \A j, k \in 1..w : row[j] = row[k] /\ row[j] # -1 => j = k
      /\ \A p \in P : p \in Nat /\ p <= Position(b, t)
  BY <1>2, <1>3, RowHolds DEF OnceEach
<1>5. idx = [c \in 0..(w - 1) |-> GlobalSlot(b, i, row[c + 1])]
  BY <1>1, <1>3 DEF Indices, Columns, Below
<1> HIDE DEF row, idx
<1>6. \A p \in P : GlobalSlot(b, i, p) = HomeSlot(b, i, p) /\ HomeSlot(b, i, p) \in Nat
  <2> SUFFICES ASSUME NEW p \in P
               PROVE  GlobalSlot(b, i, p) = HomeSlot(b, i, p) /\ HomeSlot(b, i, p) \in Nat
    OBVIOUS
  <2>1. Seq_(b, i) \in Nat
    BY BatchTyped
  <2>2. p \in Nat /\ p < Seq_(b, i)
    BY <1>2, <1>4, <2>1
  <2>3. QED
    BY <2>2, SlotIs
<1>7. \A p, q \in P : HomeSlot(b, i, p) = HomeSlot(b, i, q) => p = q
  <2> SUFFICES ASSUME NEW p \in P, NEW q \in P, HomeSlot(b, i, p) = HomeSlot(b, i, q)
               PROVE  p = q
    OBVIOUS
  <2>1. p \in Nat /\ q \in Nat
    BY <1>4
  <2>2. PICK x \in Nat : x = b.reqs[i + 1].id * Pages * PageTokens
    <3>1. Reqs(b) \in Nat /\ i + 1 \in 1..Reqs(b)
      BY BatchTyped
    <3>2. b.reqs[i + 1].id \in Nat
      BY <3>1, BatchAssumption DEF Ready, WellFormed, Reqs
    <3>3. Pages \in Nat /\ PageTokens \in Nat
      BY SelectAssumption
    <3>4. QED
      BY <3>2, <3>3
  <2>3. x + p = x + q
    BY <2>2 DEF HomeSlot
  <2>4. QED
    BY <2>1, <2>3
<1> HIDE DEF P
<1>8. ASSUME NEW c \in 0..(w - 1)
      PROVE  /\ c + 1 \in 1..w
             /\ \/ row[c + 1] = -1 /\ idx[c] = -1
                \/ row[c + 1] \in P /\ idx[c] = HomeSlot(b, i, row[c + 1]) /\ idx[c] # -1
  <2>1. c + 1 \in 1..w
    OBVIOUS
  <2>2. CASE row[c + 1] = -1
    <3>1. idx[c] = -1
      BY <1>5, <2>2 DEF GlobalSlot
    <3>2. QED
      BY <2>1, <2>2, <3>1
  <2>3. CASE row[c + 1] \in P
    <3>1. idx[c] = HomeSlot(b, i, row[c + 1]) /\ HomeSlot(b, i, row[c + 1]) \in Nat
      BY <1>5, <1>6, <2>3
    <3>2. QED
      BY <2>1, <2>3, <3>1
  <2>4. QED
    BY <1>4, <2>1, <2>2, <2>3
<1>9. ASSUME NEW p \in P
      PROVE  \E c \in 0..(w - 1) : idx[c] = HomeSlot(b, i, p) /\ idx[c] # -1
  <2>1. PICK j \in 1..w : row[j] = p
    BY <1>4
  <2>2. PICK c \in 0..(w - 1) : c = j - 1 /\ c + 1 = j
    OBVIOUS
  <2>3. idx[c] = GlobalSlot(b, i, p)
    BY <1>5, <2>1, <2>2
  <2>4. idx[c] = HomeSlot(b, i, p) /\ HomeSlot(b, i, p) \in Nat
    BY <1>6, <2>3
  <2>5. QED
    BY <2>4
<1>10. {idx[c] : c \in 0..(w - 1)} \ {-1} = {HomeSlot(b, i, p) : p \in P}
  BY <1>8, <1>9
<1>11. ASSUME NEW c \in 0..(w - 1), NEW d \in 0..(w - 1), idx[c] = idx[d], idx[c] # -1
       PROVE  c = d
  <2>1. /\ c + 1 \in 1..w /\ row[c + 1] \in P /\ idx[c] = HomeSlot(b, i, row[c + 1])
        /\ d + 1 \in 1..w /\ row[d + 1] \in P /\ idx[d] = HomeSlot(b, i, row[d + 1])
    BY <1>8, <1>11
  <2>2. row[c + 1] = row[d + 1]
    BY <1>7, <1>11, <2>1
  <2>3. row[c + 1] # -1
    BY <1>4, <2>1
  <2>4. c + 1 = d + 1
    BY <1>4, <2>1, <2>2, <2>3
  <2>5. QED
    BY <2>4
<1>12. QED
  BY <1>1, <1>3, <1>10, <1>11 DEF SlotsOf, Columns, Below, P, idx

-----------------------------------------------------------------------------
(* SlotsExact is invariant: the request ids of the batch are from its build. *)

IdsOf(b, ids) == \A t \in Nat : t < Loc(b, Reqs(b)) => ids[t] = RowOf(b, t)

SlotInv ==
  /\ RowInv /\ WriteInv
  /\ steps \in Nat /\ attended \in Nat
  /\ steps # 0 => Ready(batch) /\ IdsOf(batch, reqIds)

LEMMA SlotBuild ==
  ASSUME NEW b, Ready(b)
  PROVE  IdsOf(b, TokenRequests(b))
<1> SUFFICES ASSUME NEW t \in Nat, t < Loc(b, Reqs(b))
             PROVE  TokenRequests(b)[t] = RowOf(b, t)
  BY DEF IdsOf
<1>1. t \in Slots
  BY InSlots
<1>2. QED
  BY <1>1 DEF TokenRequests, Reqs

LEMMA SlotNext ==
  ASSUME RowsAssumed, SlotInv, [AttendNext]_attendVars
  PROVE  SlotInv'
<1>1. ASSUME NEW b \in Batches(launch), BuildBoth(b) PROVE SlotInv'
  <2>1. Build(b) /\ launch' = launch /\ batch' = b /\ steps' = steps + 1 /\ attended' = attended
        /\ reqIds' = TokenRequests(b)
    BY <1>1 DEF BuildBoth, Build
  <2>2. RowInv'
    BY <2>1, RowBuild DEF SlotInv
  <2>3. WriteInv'
    BY <2>1, WriteBuild DEF SlotInv
  <2>4. Ready(b)
    BY DEF SlotInv, RowInv, Ready
  <2>5. IdsOf(b, TokenRequests(b))
    BY <2>4, SlotBuild
  <2>6. Ready(batch)' /\ IdsOf(batch, reqIds)'
    BY <2>1, <2>4, <2>5 DEF Ready, IdsOf, Loc, RowOf, Reqs, Rows, Q
  <2>7. QED
    BY <2>1, <2>2, <2>3, <2>6 DEF SlotInv
<1>2. ASSUME [Next]_vars, UNCHANGED <<launch, batch, steps, reqIds>>, attended' \in {attended, steps}
      PROVE  SlotInv'
  <2>1. RowInv'
    BY <1>2, RowNext DEF SlotInv
  <2>2. WriteInv'
    <3>1. WriteAssumed
      BY DEF RowsAssumed, WriteAssumed
    <3>2. QED
      BY <1>2, <3>1, WriteNext DEF SlotInv
  <2>3. Ready(batch) => Ready(batch)'
    BY <1>2 DEF Ready
  <2>4. IdsOf(batch, reqIds) => IdsOf(batch, reqIds)'
    BY <1>2 DEF IdsOf, Loc, RowOf, Reqs, Rows, Q
  <2>5. QED
    BY <1>2, <2>1, <2>2, <2>3, <2>4 DEF SlotInv
<1>3. CASE Indexer
  <2>1. [Next]_vars /\ UNCHANGED <<launch, batch, steps, reqIds>> /\ attended' = attended
    BY <1>3 DEF Indexer, Next, Start, PrefillChunk, DecodeRaises, Decode, PlainStart, PlainChunk, PlainDecode
  <2>2. QED
    BY <1>2, <2>1
<1>4. CASE Attend
  <2>1. [Next]_vars /\ UNCHANGED <<launch, batch, steps, reqIds>> /\ attended' = steps
    BY <1>4 DEF Attend, vars
  <2>2. QED
    BY <1>2, <2>1
<1>5. CASE UNCHANGED attendVars
  <2>1. [Next]_vars /\ UNCHANGED <<launch, batch, steps, reqIds>> /\ attended' = attended
    BY <1>5 DEF attendVars, vars
  <2>2. QED
    BY <1>2, <2>1
<1>6. QED
  BY <1>1, <1>3, <1>4, <1>5 DEF AttendNext

LEMMA SlotInvExact ==
  ASSUME SlotInv
  PROVE  SlotsExact
<1> SUFFICES ASSUME Done, attended < steps, NEW t \in Below(Loc(batch, Len(batch.reqs)))
             PROVE  SlotsOf(batch, t)
  BY DEF SlotsExact, SlotsOf
<1>1. Ready(batch) /\ IdsOf(batch, reqIds) /\ DoneIs(batch, topk)
  BY DEF SlotInv, RowInv, Done
<1>2. PICK n \in Nat : n = Loc(batch, Reqs(batch))
  BY <1>1 DEF DoneIs
<1>3. t \in Nat /\ t < Loc(batch, Reqs(batch))
  BY <1>2 DEF Below, Reqs
<1>4. topk[t].pos = OwnRow(batch, t).pos
  BY <1>1, <1>3 DEF DoneIs, Exact
<1>5. reqIds[t] = RowOf(batch, t)
  BY <1>1, <1>3 DEF IdsOf
<1>6. PICK b : b = batch
  OBVIOUS
<1>7. SlotsOf(b, t)
  BY <1>1, <1>3, <1>4, <1>5, <1>6, SlotsRight
<1>8. QED
  BY <1>6, <1>7

-----------------------------------------------------------------------------
(* The theorems.                                                            *)

(* A step of the composition is a step of the indexer or leaves it alone:   *)
(* what holds of IndexerSelect holds of SparseAttend.                       *)
LEMMA Composition == AttendSpec => Spec
<1>1. AttendInit => Init
  BY DEF AttendInit
<1>2. [AttendNext]_attendVars => [Next]_vars
  <2> SUFFICES ASSUME [AttendNext]_attendVars PROVE [Next]_vars
    OBVIOUS
  <2>1. ASSUME NEW b \in Batches(launch), BuildBoth(b) PROVE Next
    BY <2>1 DEF BuildBoth, Next
  <2>2. CASE Indexer
    BY <2>2 DEF Indexer, Next
  <2>3. CASE Attend
    BY <2>3 DEF Attend
  <2>4. CASE UNCHANGED attendVars
    BY <2>4 DEF attendVars, vars
  <2>5. QED
    BY <2>1, <2>2, <2>3, <2>4 DEF AttendNext
<1>3. QED
  BY <1>1, <1>2, PTL DEF AttendSpec, Spec

(* The slices of the prefill cover its rows once and in order and keep the  *)
(* budgets, for every batch the scheduler may form.                         *)
THEOREM ChunksAlwaysFit == (Spec => []ChunksFit) /\ (AttendSpec => []ChunksFit)
<1>1. Init => ReadyInv
  BY DEF Init, ReadyInv
<1>2. ReadyInv /\ [Next]_vars => ReadyInv'
  BY ReadyNext
<1>3. ReadyInv => ChunksFit
  BY ReadyFit
<1>4. Spec => []ChunksFit
  BY <1>1, <1>2, <1>3, PTL DEF Spec
<1>5. QED
  BY <1>4, Composition, PTL

(* Every token of every step attends to its own positions and chose its     *)
(* pools by its own keys.                                                   *)
THEOREM RowsAlwaysExact ==
  ASSUME RowsAssumed
  PROVE  (Spec => []RowsExact) /\ (AttendSpec => []RowsExact)
<1> DEFINE Inv == RowInv /\ WriteInv
<1>1. Init => Inv
  BY RowInit, WriteInit
<1>2. Inv /\ [Next]_vars => Inv'
  <2>1. WriteAssumed
    BY DEF RowsAssumed, WriteAssumed
  <2>2. QED
    BY <2>1, RowNext, WriteNext
<1>3. Inv => RowsExact
  BY RowInvExact
<1> HIDE DEF Inv
<1>4. Spec => []RowsExact
  BY <1>1, <1>2, <1>3, PTL DEF Spec
<1>5. QED
  BY <1>4, Composition, PTL

(* The decode write has the tokens of each request in its row, in order.    *)
THEOREM WriteAlwaysGrouped ==
  ASSUME WriteAssumed
  PROVE  (Spec => []WriteGrouped) /\ (AttendSpec => []WriteGrouped)
<1>1. Init => WriteInv
  BY WriteInit
<1>2. WriteInv /\ [Next]_vars => WriteInv'
  BY WriteNext
<1>3. WriteInv => WriteGrouped
  BY WriteInvGrouped
<1>4. Spec => []WriteGrouped
  BY <1>1, <1>2, <1>3, PTL DEF Spec
<1>5. QED
  BY <1>4, Composition, PTL

(* The kernels of every step are given exactly the slots of each token's    *)
(* own positions, for every row width and block size, whatever the buffer   *)
(* of request ids held of an earlier batch.                                 *)
THEOREM SlotsAlwaysExact ==
  ASSUME RowsAssumed
  PROVE  AttendSpec => []SlotsExact
<1>1. AttendInit => SlotInv
  BY RowInit, WriteInit DEF AttendInit, SlotInv, Init
<1>2. SlotInv /\ [AttendNext]_attendVars => SlotInv'
  BY SlotNext
<1>3. SlotInv => SlotsExact
  BY SlotInvExact
<1>4. QED
  BY <1>1, <1>2, <1>3, PTL DEF AttendSpec
=============================================================================
