-------------------------- MODULE KpoolTail_proofs --------------------------
(***************************************************************************)
(* Theorems about KpoolTail, for every number of requests and blocks, pool *)
(* size and length.                                                        *)
(*                                                                         *)
(* The argument for PoolsExact, where a decode batch has at most two       *)
(* tokens of a request: the first token of a verify batch is always kept,  *)
(* so that the walk over the batch is exact up to the token it is at; a    *)
(* rejected second token falls behind the unfinished pool's keys and is    *)
(* overwritten next.  With three tokens this breaks (KpoolTail_verify).    *)
(***************************************************************************)
EXTENDS KpoolTail, TLAPS

(* What has been written for a request: the tokens computed, and those the  *)
(* program of its decode batch has walked over.                             *)
Final(r) == computed[r] + work[r].t

(* Two running requests have different blocks.                              *)
OwnersApart == \A r, q \in Reqs : own[r] = own[q] /\ own[r] # NoBlock => r = q

WorkOK ==
  \A r \in Reqs : work[r] = Idle \/
    /\ own[r] # NoBlock
    /\ work[r].t < work[r].n /\ work[r].acc >= 1 /\ work[r].acc <= work[r].n
    /\ computed[r] + work[r].n <= MaxPos

(* The pools that are complete.                                             *)
PoolsWritten ==
  \A r \in Reqs : own[r] # NoBlock =>
    \A j \in PoolIds : (j + 1) * KPool <= Final(r) => pool[r][j] = Exact(r, j)

(* With n tokens written, offset i of pool j is and the pool is not.        *)
Unfinished(n, j, i) == j * KPool + i < n /\ n < (j + 1) * KPool

(* The keys of the unfinished pool.                                         *)
TailKept ==
  \A r \in Reqs : own[r] # NoBlock =>
    \A j \in PoolIds, i \in Offsets :
      Unfinished(Final(r), j, i) =>
        ring[own[r]][i] = Key(r, j * KPool + i, TRUE)

IInv == TypeOK /\ OwnersApart /\ WorkOK /\ PoolsWritten /\ TailKept

-----------------------------------------------------------------------------
(* Division by the size of a pool.                                          *)

LEMMA DivMod ==
  ASSUME NEW a \in Nat
  PROVE  /\ a \div KPool \in Nat /\ a % KPool \in Offsets
         /\ a = ((a \div KPool) * KPool) + (a % KPool)
  BY KpoolAssumption DEF Offsets

LEMMA MulMono ==
  ASSUME NEW a \in Int, NEW b \in Int, a < b
  PROVE  a * KPool + KPool <= b * KPool
<1>1. (b - a - 1) * KPool >= 0
  BY KpoolAssumption
<1>2. (b - a - 1) * KPool = b * KPool - a * KPool - KPool
  BY KpoolAssumption
<1>3. a * KPool \in Int /\ b * KPool \in Int
  BY KpoolAssumption
<1>4. QED
  BY <1>1, <1>2, <1>3, KpoolAssumption

LEMMA DivUnique ==
  ASSUME NEW q \in Nat, NEW i \in Offsets
  PROVE  (q * KPool + i) \div KPool = q /\ (q * KPool + i) % KPool = i
<1> DEFINE a == q * KPool + i
           p == a \div KPool
<1>1. a \in Nat
  BY KpoolAssumption DEF Offsets
<1>2. p \in Nat /\ a % KPool \in Offsets /\ a = (p * KPool) + (a % KPool)
  BY <1>1, DivMod
<1> HIDE DEF p
<1>3. ~(p < q)
  <2> SUFFICES ASSUME p < q PROVE FALSE
    OBVIOUS
  <2>1. p * KPool + KPool <= q * KPool
    BY <1>2, MulMono
  <2>2. p * KPool \in Int /\ q * KPool \in Int
    BY <1>2, KpoolAssumption
  <2>3. QED
    BY <1>2, <2>1, <2>2, KpoolAssumption DEF Offsets
<1>4. ~(q < p)
  <2> SUFFICES ASSUME q < p PROVE FALSE
    OBVIOUS
  <2>1. q * KPool + KPool <= p * KPool
    BY <1>2, MulMono
  <2>2. p * KPool \in Int /\ q * KPool \in Int
    BY <1>2, KpoolAssumption
  <2>3. QED
    BY <1>2, <2>1, <2>2, KpoolAssumption DEF Offsets
<1>5. p = q
  BY <1>2, <1>3, <1>4
<1>6. QED
  BY <1>2, <1>5, KpoolAssumption DEF p, Offsets

(* The pool a position is in.                                               *)
LEMMA MulOrder ==
  ASSUME NEW a \in Int, NEW b \in Int, a * KPool < b * KPool + KPool
  PROVE  a <= b
<1> SUFFICES ASSUME b < a PROVE FALSE
  OBVIOUS
<1>1. b * KPool + KPool <= a * KPool
  BY MulMono
<1>2. a * KPool \in Int /\ b * KPool \in Int
  BY KpoolAssumption
<1>3. QED
  BY <1>1, <1>2, KpoolAssumption

LEMMA PoolOf ==
  ASSUME NEW p \in 0..MaxPos
  PROVE  p \div KPool \in PoolIds
<1> DEFINE a == p \div KPool
           b == MaxPos \div KPool
<1>1. a \in Nat /\ p % KPool \in Offsets /\ p = (a * KPool) + (p % KPool)
  BY DivMod, KpoolAssumption
<1>2. b \in Nat /\ MaxPos % KPool \in Offsets /\ MaxPos = (b * KPool) + (MaxPos % KPool)
  BY DivMod, KpoolAssumption
<1> HIDE DEF a, b
<1>3. a * KPool < b * KPool + KPool
  <2>1. a * KPool \in Int /\ b * KPool \in Int
    BY <1>1, <1>2, KpoolAssumption
  <2>2. QED
    BY <1>1, <1>2, <2>1, KpoolAssumption DEF Offsets
<1>4. a <= b
  BY <1>1, <1>2, <1>3, MulOrder
<1>5. QED
  BY <1>1, <1>2, <1>4 DEF a, b, PoolIds

-----------------------------------------------------------------------------
(* Prefill batches.                                                         *)

(* The rows off+1 to off+k of a batch are a chunk of request x, and no other *)
(* row is of x.                                                             *)
Part(batch, x, off, k) ==
  /\ x \in Reqs /\ off \in Nat /\ k \in Nat /\ k \in Chunks(x) /\ off + k <= Len(batch)
  /\ \A i \in 1..Len(batch) :
       /\ batch[i].r \in Reqs
       /\ batch[i].r = x <=> (i > off /\ i <= off + k)
       /\ batch[i].r = x => batch[i].pos = computed[x] + i - off - 1

LEMMA BatchParts ==
  ASSUME TypeOK, NEW r \in Reqs, NEW q \in Reqs, NEW n \in 1..MaxPos, NEW m \in 0..MaxPos,
         n \in Chunks(r), m = 0 \/ (q # r /\ m \in Chunks(q))
  PROVE  /\ Len(Batch(r, n, q, m)) = n + m /\ DOMAIN Batch(r, n, q, m) = 1..(n + m)
         /\ Part(Batch(r, n, q, m), r, 0, n)
         /\ m > 0 => Part(Batch(r, n, q, m), q, n, m)
         /\ \A i \in 1..(n + m) : Batch(r, n, q, m)[i].r \in {r, IF m > 0 THEN q ELSE r}
<1> DEFINE batch == Batch(r, n, q, m)
<1>1. n + m \in Nat
  BY KpoolAssumption
<1>2. DOMAIN batch = 1..(n + m) /\ Len(batch) = n + m
  BY <1>1 DEF Batch
<1>3. \A i \in 1..(n + m) :
        batch[i] = IF i <= n THEN [r |-> r, pos |-> computed[r] + i - 1]
                   ELSE [r |-> q, pos |-> computed[q] + i - n - 1]
  BY DEF Batch
<1>4. computed[r] \in Nat /\ computed[q] \in Nat
  BY KpoolAssumption DEF TypeOK
<1> HIDE DEF batch
<1>5. Part(batch, r, 0, n)
  BY <1>1, <1>2, <1>3, <1>4, KpoolAssumption DEF Part
<1>6. m > 0 => Part(batch, q, n, m)
  BY <1>1, <1>2, <1>3, <1>4, KpoolAssumption DEF Part
<1>7. ASSUME NEW i \in 1..(n + m)
      PROVE  batch[i].r \in {r, IF m > 0 THEN q ELSE r}
  <2>1. i <= n => batch[i].r = r
    BY <1>1, <1>2, <1>5, KpoolAssumption DEF Part
  <2>2. ~(i <= n) => m > 0 /\ batch[i].r = q
    BY <1>1, <1>2, <1>6, KpoolAssumption DEF Part
  <2>3. QED
    BY <2>1, <2>2
<1>8. QED
  BY <1>2, <1>5, <1>6, <1>7 DEF batch

(* A chunk starts with a pool.                                              *)
LEMMA ChunkStart ==
  ASSUME TypeOK, NEW x \in Reqs, NEW k \in Nat, k \in Chunks(x)
  PROVE  /\ computed[x] \in Nat /\ k >= 1 /\ computed[x] + k <= goal[x] /\ goal[x] <= MaxPos
         /\ own[x] # NoBlock /\ work[x] = Idle /\ goal[x] \in Nat
         /\ \E c \in Nat : computed[x] = c * KPool
<1>1. computed[x] \in Nat /\ goal[x] \in Nat /\ goal[x] <= MaxPos
  BY KpoolAssumption DEF TypeOK
<1>2. computed[x] % KPool = 0 /\ own[x] # NoBlock /\ work[x] = Idle
      /\ k \in 1..(goal[x] - computed[x])
  BY DEF Chunks
<1>3. computed[x] = ((computed[x] \div KPool) * KPool) + (computed[x] % KPool)
      /\ computed[x] \div KPool \in Nat
  BY <1>1, DivMod
<1>4. computed[x] = (computed[x] \div KPool) * KPool
  <2>1. (computed[x] \div KPool) * KPool \in Int
    BY <1>3, KpoolAssumption
  <2>2. QED
    BY <1>2, <1>3, <2>1
<1>5. QED
  BY <1>1, <1>2, <1>3, <1>4

LEMMA ChunkFits ==
  ASSUME TypeOK, NEW x \in Reqs, NEW k \in Nat, k \in Chunks(x)
  PROVE  computed[x] + k \in 0..MaxPos
<1>1. PICK base \in Nat, len \in Nat :
        base = computed[x] /\ len = goal[x] /\ base + k <= len /\ len <= MaxPos
  BY ChunkStart
<1>2. QED
  BY <1>1, KpoolAssumption

(* The pooled keys of a batch are those of the request's own pools.         *)
LEMMA PartPools ==
  ASSUME TypeOK, NEW batch, NEW x, NEW off, NEW k, Part(batch, x, off, k),
         Len(batch) \in Nat, NEW j \in PoolIds
  PROVE  /\ computed[x] <= j * KPool /\ (j + 1) * KPool <= computed[x] + k =>
              \E i \in 1..Len(batch) : Completes(batch, i, x, j)
         /\ \A i \in 1..Len(batch) : Completes(batch, i, x, j) =>
              /\ Gathered(batch, i) = Exact(x, j)
              /\ computed[x] <= j * KPool /\ (j + 1) * KPool <= computed[x] + k
<1>1. PICK c \in Nat : computed[x] = c * KPool
  BY ChunkStart DEF Part
<1>2. computed[x] \in Nat /\ k \in Nat /\ k >= 1 /\ off \in Nat /\ off + k <= Len(batch)
  BY ChunkStart DEF Part
<1>3. j \in Nat /\ j * KPool \in Nat /\ KPool \in Nat \ {0, 1} /\ (j + 1) * KPool = j * KPool + KPool
  BY KpoolAssumption DEF PoolIds
<1>4. ASSUME computed[x] <= j * KPool, (j + 1) * KPool <= computed[x] + k
      PROVE  \E i \in 1..Len(batch) : Completes(batch, i, x, j)
  <2> DEFINE start == j * KPool
             i == off + start + KPool - computed[x]
  <2>1. /\ start \in Nat /\ computed[x] <= start /\ start + KPool <= computed[x] + k
        /\ KPool \in Nat /\ KPool > 1
    BY <1>3, <1>4
  <2> HIDE DEF start
  <2>2. i \in 1..Len(batch) /\ i >= KPool /\ i > off /\ i <= off + k
    BY <1>2, <2>1
  <2>3. batch[i].r = x /\ batch[i].pos = computed[x] + i - off - 1
    BY <2>2 DEF Part
  <2>4. computed[x] + i - off - 1 = start + KPool - 1
    BY <1>2, <2>1
  <2>5. batch[i].pos = j * KPool + KPool - 1
    BY <2>3, <2>4 DEF start
  <2>6. QED
    BY <2>2, <2>3, <2>5 DEF Completes
<1>5. ASSUME NEW i \in 1..Len(batch), Completes(batch, i, x, j)
      PROVE  /\ Gathered(batch, i) = Exact(x, j)
             /\ computed[x] <= j * KPool /\ (j + 1) * KPool <= computed[x] + k
  <2>1. i > off /\ i <= off + k /\ computed[x] + i - off - 1 = j * KPool + KPool - 1
    BY <1>5 DEF Completes, Part
  <2>2. c <= j
    <3>1. c * KPool < j * KPool + KPool
      BY <1>1, <1>2, <1>3, <2>1
    <3>2. QED
      BY <1>3, <3>1, MulOrder
  <2>3. computed[x] <= j * KPool
    <3>1. CASE c = j
      BY <1>1, <1>2, <3>1
    <3>2. CASE c < j
      BY <1>1, <1>2, <1>3, <3>2, MulMono
    <3>3. QED
      BY <1>3, <2>2, <3>1, <3>2
  <2>4. ASSUME NEW o \in Offsets
        PROVE  KeyOf(batch[i - (KPool - 1) + o]) = Key(x, j * KPool + o, TRUE)
    <3> DEFINE a == i - (KPool - 1) + o
    <3>1. a \in 1..Len(batch) /\ a > off /\ a <= off + k
      BY <1>2, <1>3, <2>1, <2>3 DEF Offsets
    <3>2. batch[a].r = x /\ batch[a].pos = computed[x] + a - off - 1
      BY <3>1 DEF Part
    <3>3. computed[x] + a - off - 1 = j * KPool + o
      BY <1>2, <1>3, <2>1 DEF Offsets
    <3>4. QED
      BY <3>2, <3>3 DEF KeyOf
  <2>5. Gathered(batch, i) = Exact(x, j)
    BY <2>4 DEF Gathered, Exact
  <2>6. (j + 1) * KPool <= computed[x] + k
    BY <1>2, <1>3, <2>1
  <2>7. QED
    BY <2>3, <2>5, <2>6
<1>6. QED
  BY <1>4, <1>5

(* Some row of the batch is seeded where offset o of pool j of x belongs, and *)
(* it is the row of that token.                                             *)
Seeded(batch, x, j, o) ==
  /\ \E i \in 1..Len(batch) : SeedsAt(batch, i, own[x], o)
  /\ \A i \in 1..Len(batch) : SeedsAt(batch, i, own[x], o) =>
       KeyOf(batch[i]) = Key(x, j * KPool + o, TRUE)

(* The seeded ring holds the keys of the request's own unfinished pool.     *)
LEMMA PartRing ==
  ASSUME TypeOK, OwnersApart, NEW batch, NEW x, NEW off, NEW k, Part(batch, x, off, k),
         Len(batch) \in Nat, NEW j \in PoolIds, NEW o \in Offsets,
         Unfinished(computed[x] + k, j, o)
  PROVE  Seeded(batch, x, j, o)
<1> DEFINE start == j * KPool
<1>0. PICK c \in Nat : computed[x] = c * KPool
  BY ChunkStart DEF Part
<1>1. PICK base \in Nat : base = computed[x] /\ base = c * KPool
  BY <1>0, ChunkStart DEF Part
<1> DEFINE e == base + k
<1>2. base \in Nat /\ k \in Nat /\ k >= 1 /\ off \in Nat /\ off + k <= Len(batch)
      /\ own[x] # NoBlock /\ x \in Reqs
  BY <1>1, ChunkStart DEF Part
<1>3. /\ j \in Nat /\ start \in Nat /\ KPool \in Nat /\ KPool > 1 /\ o \in Nat /\ o < KPool
      /\ start + o < e /\ e < start + KPool /\ e \in Nat
  <2>1. j \in Nat /\ start \in Nat /\ KPool \in Nat /\ KPool > 1 /\ o \in Nat /\ o < KPool
    BY KpoolAssumption DEF PoolIds, Offsets
  <2>2. (j + 1) * KPool = start + KPool
    BY <2>1
  <2>3. QED
    BY <1>1, <1>2, <2>1, <2>2 DEF Unfinished
<1>4. base <= start
  <2>1. c * KPool < j * KPool + KPool
    BY <1>1, <1>2, <1>3
  <2>2. c <= j
    BY <1>3, <2>1, MulOrder
  <2>3. CASE c = j
    BY <1>1, <1>2, <2>3
  <2>4. CASE c < j
    BY <1>1, <1>2, <1>3, <2>4, MulMono
  <2>5. QED
    BY <1>3, <2>2, <2>3, <2>4
<1>5. \A i \in 1..Len(batch) :
        /\ TailBlock(batch[i].r, batch[i].pos) = own[x] <=> batch[i].r = x
        /\ batch[i].r = x <=> (i > off /\ i <= off + k)
        /\ batch[i].r = x => batch[i].pos = base + i - off - 1
  BY <1>1, <1>2 DEF Part, TailBlock, OwnersApart
<1> HIDE DEF start, e
<1>6. \E i \in 1..Len(batch) : SeedsAt(batch, i, own[x], o)
  <2>0. PICK i \in Int : i = off + (start + o - base) + 1
    BY <1>2, <1>3
  <2>1. i \in 1..Len(batch) /\ i > off /\ i <= off + k
    BY <2>0, <1>2, <1>3, <1>4 DEF e
  <2>2. batch[i].r = x /\ batch[i].pos = base + i - off - 1
        /\ TailBlock(batch[i].r, batch[i].pos) = own[x]
    BY <1>5, <2>1
  <2>3. base + i - off - 1 = start + o
    BY <2>0, <1>2, <1>3
  <2>4. TailOffset(batch[i].pos) = o
    BY <1>3, <2>2, <2>3, DivUnique DEF TailOffset, start
  <2>5. ~(i + KPool <= off + k)
    BY <2>0, <1>2, <1>3 DEF e
  <2>6. Seeds(batch, i)
    <3>1. i + KPool \in Nat \ {0} /\ i + KPool > off
      BY <1>2, <1>3, <2>1
    <3>2. i + KPool <= Len(batch) => batch[i + KPool].r # x
      BY <1>5, <2>5, <3>1
    <3>3. i + KPool <= Len(batch) =>
            TailBlock(batch[i + KPool].r, batch[i + KPool].pos) # own[x]
      BY <1>5, <2>5, <3>1, <3>2
    <3>4. QED
      BY <2>2, <3>3 DEF Seeds
  <2>7. QED
    BY <2>1, <2>2, <2>4, <2>6 DEF SeedsAt
<1>7. ASSUME NEW i \in 1..Len(batch), SeedsAt(batch, i, own[x], o)
      PROVE  KeyOf(batch[i]) = Key(x, j * KPool + o, TRUE)
  <2>1. batch[i].r = x /\ i > off /\ i <= off + k
        /\ batch[i].pos = base + i - off - 1 /\ batch[i].pos % KPool = o
    BY <1>5, <1>7 DEF SeedsAt, TailOffset
  <2>2. ~(i + KPool <= off + k)
    <3> SUFFICES ASSUME i + KPool <= off + k PROVE FALSE
      OBVIOUS
    <3>1. i + KPool \in 1..Len(batch) /\ i + KPool > off
      BY <1>2, <1>3, <2>1
    <3>2. batch[i + KPool].r = x
      BY <1>5, <3>1
    <3>3. TailBlock(batch[i + KPool].r, batch[i + KPool].pos)
            = TailBlock(batch[i].r, batch[i].pos)
      BY <2>1, <3>2 DEF TailBlock
    <3>4. QED
      BY <1>7, <3>1, <3>3 DEF SeedsAt, Seeds
  <2> DEFINE p == batch[i].pos
             a == p \div KPool
             low == a * KPool
  <2>3. p \in Nat /\ p < e /\ p + KPool >= e
    BY <1>2, <1>3, <2>1, <2>2 DEF e
  <2>4. a \in Nat /\ low \in Nat /\ p = low + o
    <3>1. a \in Nat /\ p = (a * KPool) + (p % KPool)
      BY <2>3, DivMod
    <3>2. a * KPool \in Nat
      BY <1>3, <3>1
    <3>3. QED
      BY <2>1, <3>1, <3>2
  <2> HIDE DEF p, a, low
  <2>5. low < start + KPool /\ start < low + KPool
    BY <1>3, <2>3, <2>4
  <2>6. a = j
    <3>1. a <= j
      BY <1>3, <2>4, <2>5, MulOrder DEF low, start
    <3>2. j <= a
      BY <1>3, <2>4, <2>5, MulOrder DEF low, start
    <3>3. QED
      BY <1>3, <2>4, <3>1, <3>2
  <2>7. QED
    BY <2>1, <2>4, <2>6 DEF p, low, KeyOf
<1>8. QED
  BY <1>6, <1>7 DEF Seeded

(* What a prefill step does to a request: one of the batch, or another.     *)
LEMMA PrefillComputed ==
  ASSUME TypeOK, NEW r \in Reqs, NEW q \in Reqs, NEW n \in 1..MaxPos, NEW m \in 0..MaxPos,
         Prefill(r, n, q, m), NEW x \in Reqs
  PROVE  LET batch == Batch(r, n, q, m) IN
         \/ \E off, k : Part(batch, x, off, k) /\ computed'[x] = computed[x] + k
         \/ /\ \A i \in 1..Len(batch) : batch[i].r # x
            /\ computed'[x] = computed[x]
<1> DEFINE batch == Batch(r, n, q, m)
<1>1. n \in Chunks(r) /\ (m = 0 \/ (q # r /\ m \in Chunks(q)))
  BY DEF Prefill
<1>2. /\ Len(batch) = n + m /\ Part(batch, r, 0, n) /\ (m > 0 => Part(batch, q, n, m))
      /\ \A i \in 1..(n + m) : batch[i].r \in {r, IF m > 0 THEN q ELSE r}
  BY <1>1, BatchParts
<1>3. computed' = [computed EXCEPT ![r] = @ + n, ![q] = IF m = 0 THEN @ ELSE computed[q] + m]
  BY DEF Prefill
<1>4. computed \in [Reqs -> 0..MaxPos]
  BY DEF TypeOK
<1> HIDE DEF batch
<1>5. CASE x = r
  <2>1. computed'[x] = computed[x] + n
    BY <1>1, <1>3, <1>4, <1>5, KpoolAssumption
  <2>2. QED
    BY <1>2, <1>5, <2>1 DEF batch
<1>6. CASE x = q /\ m > 0
  <2>1. computed'[x] = computed[x] + m
    BY <1>1, <1>3, <1>4, <1>6, KpoolAssumption
  <2>2. QED
    BY <1>2, <1>6, <2>1 DEF batch
<1>7. CASE x # r /\ ~(x = q /\ m > 0)
  <2>1. \A i \in 1..Len(batch) : batch[i].r # x
    BY <1>2, <1>7
  <2>2. computed'[x] = computed[x]
    BY <1>3, <1>4, <1>7, KpoolAssumption
  <2>3. QED
    BY <2>1, <2>2 DEF batch
<1>8. QED
  BY <1>5, <1>6, <1>7 DEF batch

LEMMA PrefillPool ==
  ASSUME TypeOK, NEW r \in Reqs, NEW q \in Reqs, NEW n \in 1..MaxPos, NEW m \in 0..MaxPos,
         Prefill(r, n, q, m), NEW x \in Reqs, NEW j \in PoolIds
  PROVE  \/ /\ pool'[x][j] = Exact(x, j)
            /\ (j + 1) * KPool <= computed'[x]
         \/ /\ pool'[x][j] = pool[x][j]
            /\ (j + 1) * KPool <= computed'[x] => (j + 1) * KPool <= computed[x]
<1> DEFINE batch == Batch(r, n, q, m)
<1>1. n \in Chunks(r) /\ (m = 0 \/ (q # r /\ m \in Chunks(q)))
  BY DEF Prefill
<1>2. /\ Len(batch) \in Nat /\ DOMAIN batch = 1..Len(batch)
      /\ \A i \in 1..Len(batch) : batch[i].r \in {r, IF m > 0 THEN q ELSE r}
  BY <1>1, BatchParts, KpoolAssumption
<1>3. pool'[x][j] = IF \E i \in DOMAIN batch : Completes(batch, i, x, j)
                    THEN Gathered(batch, CHOOSE i \in DOMAIN batch : Completes(batch, i, x, j))
                    ELSE pool[x][j]
  BY DEF Prefill
<1>4. \/ \E off, k : Part(batch, x, off, k) /\ computed'[x] = computed[x] + k
      \/ (\A i \in 1..Len(batch) : batch[i].r # x) /\ computed'[x] = computed[x]
  BY PrefillComputed
<1> HIDE DEF batch
<1>5. CASE \E off, k : Part(batch, x, off, k) /\ computed'[x] = computed[x] + k
  <2>1. PICK off, k : Part(batch, x, off, k) /\ computed'[x] = computed[x] + k
    BY <1>5
  <2>2. CASE \E i \in DOMAIN batch : Completes(batch, i, x, j)
    <3> DEFINE i == CHOOSE i \in DOMAIN batch : Completes(batch, i, x, j)
    <3>1. i \in 1..Len(batch) /\ Completes(batch, i, x, j)
      BY <1>2, <2>2
    <3>2. pool'[x][j] = Gathered(batch, i)
      BY <1>3, <2>2
    <3> HIDE DEF i
    <3>3. QED
      BY <1>2, <2>1, <3>1, <3>2, PartPools
  <2>3. CASE ~ \E i \in DOMAIN batch : Completes(batch, i, x, j)
    <3>1. ~(computed[x] <= j * KPool /\ (j + 1) * KPool <= computed[x] + k)
      BY <1>2, <2>1, <2>3, PartPools
    <3>2. PICK c \in Nat : computed[x] = c * KPool
      BY <2>1, ChunkStart DEF Part
    <3>3. PICK base \in Nat : base = computed[x] /\ base = c * KPool
      BY <2>1, <3>2, ChunkStart DEF Part
    <3>4. j \in Nat /\ j * KPool \in Nat /\ (j + 1) * KPool = j * KPool + KPool
      BY KpoolAssumption DEF PoolIds
    <3>5. ~(base <= j * KPool) => (j + 1) * KPool <= base
      <4>1. j < c => j * KPool + KPool <= c * KPool
        BY <3>4, MulMono
      <4>2. c = j => base <= j * KPool
        BY <3>3, <3>4
      <4>3. c < j => c * KPool + KPool <= j * KPool
        BY <3>4, MulMono
      <4>4. QED
        BY <3>3, <3>4, <4>1, <4>2, <4>3, KpoolAssumption
    <3>6. QED
      BY <1>3, <2>1, <2>3, <3>1, <3>3, <3>5
  <2>4. QED
    BY <2>2, <2>3
<1>6. CASE (\A i \in 1..Len(batch) : batch[i].r # x) /\ computed'[x] = computed[x]
  <2>1. ~ \E i \in DOMAIN batch : Completes(batch, i, x, j)
    BY <1>2, <1>6 DEF Completes
  <2>2. QED
    BY <1>3, <1>6, <2>1
<1>7. QED
  BY <1>4, <1>5, <1>6

LEMMA PrefillRing ==
  ASSUME TypeOK, OwnersApart, NEW r \in Reqs, NEW q \in Reqs, NEW n \in 1..MaxPos,
         NEW m \in 0..MaxPos, Prefill(r, n, q, m),
         NEW x \in Reqs, own[x] # NoBlock, NEW j \in PoolIds, NEW o \in Offsets
  PROVE  \/ Unfinished(computed'[x], j, o) => ring'[own[x]][o] = Key(x, j * KPool + o, TRUE)
         \/ ring'[own[x]][o] = ring[own[x]][o] /\ computed'[x] = computed[x]
<1> DEFINE batch == Batch(r, n, q, m)
<1>1. n \in Chunks(r) /\ (m = 0 \/ (q # r /\ m \in Chunks(q)))
  BY DEF Prefill
<1>2. /\ Len(batch) \in Nat /\ DOMAIN batch = 1..Len(batch)
      /\ \A i \in 1..Len(batch) : batch[i].r \in {r, IF m > 0 THEN q ELSE r}
  BY <1>1, BatchParts, KpoolAssumption
<1>3. own[x] \in Blocks
  BY DEF TypeOK
<1>4. ring'[own[x]][o] =
        IF \E i \in DOMAIN batch : SeedsAt(batch, i, own[x], o)
        THEN KeyOf(batch[CHOOSE i \in DOMAIN batch : SeedsAt(batch, i, own[x], o)])
        ELSE ring[own[x]][o]
  BY <1>3 DEF Prefill
<1>5. \/ \E off, k : Part(batch, x, off, k) /\ computed'[x] = computed[x] + k
      \/ (\A i \in 1..Len(batch) : batch[i].r # x) /\ computed'[x] = computed[x]
  BY PrefillComputed
<1> HIDE DEF batch
<1>6. ASSUME NEW off, NEW k, Part(batch, x, off, k), computed'[x] = computed[x] + k,
             Unfinished(computed'[x], j, o)
      PROVE  ring'[own[x]][o] = Key(x, j * KPool + o, TRUE)
  <2> DEFINE i == CHOOSE i \in DOMAIN batch : SeedsAt(batch, i, own[x], o)
  <2>1. Unfinished(computed[x] + k, j, o)
    BY <1>6
  <2>0. Seeded(batch, x, j, o)
    BY <1>2, <1>6, <2>1, PartRing
  <2>2. \E a \in 1..Len(batch) : SeedsAt(batch, a, own[x], o)
    BY <2>0 DEF Seeded
  <2>3. i \in 1..Len(batch) /\ SeedsAt(batch, i, own[x], o)
    BY <1>2, <2>2
  <2>4. ring'[own[x]][o] = KeyOf(batch[i])
    BY <1>2, <1>4, <2>2
  <2> HIDE DEF i
  <2>5. \A a \in 1..Len(batch) : SeedsAt(batch, a, own[x], o) =>
          KeyOf(batch[a]) = Key(x, j * KPool + o, TRUE)
    BY <2>0 DEF Seeded
  <2>6. QED
    BY <2>3, <2>4, <2>5
<1>7. ASSUME \A i \in 1..Len(batch) : batch[i].r # x, computed'[x] = computed[x]
      PROVE  ring'[own[x]][o] = ring[own[x]][o]
  <2>1. ~ \E i \in DOMAIN batch : SeedsAt(batch, i, own[x], o)
    <3> SUFFICES ASSUME NEW i \in 1..Len(batch), own[batch[i].r] = own[x] PROVE FALSE
      BY <1>2 DEF SeedsAt, TailBlock
    <3>1. batch[i].r \in Reqs
      BY <1>2
    <3>2. QED
      BY <1>7, <3>1 DEF OwnersApart
  <2>2. QED
    BY <1>4, <2>1
<1>8. QED
  BY <1>5, <1>6, <1>7

(* A request whose program is under way is in no prefill batch.             *)
LEMMA PrefillBusy ==
  ASSUME TypeOK, OwnersApart, NEW r \in Reqs, NEW q \in Reqs, NEW n \in 1..MaxPos,
         NEW m \in 0..MaxPos, Prefill(r, n, q, m),
         NEW x \in Reqs, own[x] # NoBlock, work[x] # Idle, NEW o \in Offsets
  PROVE  ring'[own[x]][o] = ring[own[x]][o]
<1> DEFINE batch == Batch(r, n, q, m)
<1>1. n \in Chunks(r) /\ (m = 0 \/ (q # r /\ m \in Chunks(q)))
  BY DEF Prefill
<1>2. /\ DOMAIN batch = 1..(n + m)
      /\ \A i \in 1..(n + m) : batch[i].r \in {r, IF m > 0 THEN q ELSE r}
  BY <1>1, BatchParts
<1>3. r # x /\ (m > 0 => q # x)
  BY <1>1 DEF Chunks
<1>4. ring'[own[x]][o] =
        IF \E i \in DOMAIN batch : SeedsAt(batch, i, own[x], o)
        THEN KeyOf(batch[CHOOSE i \in DOMAIN batch : SeedsAt(batch, i, own[x], o)])
        ELSE ring[own[x]][o]
  BY DEF Prefill, TypeOK
<1> HIDE DEF batch
<1>5. ~ \E i \in DOMAIN batch : SeedsAt(batch, i, own[x], o)
  <2> SUFFICES ASSUME NEW i \in 1..(n + m), own[batch[i].r] = own[x] PROVE FALSE
    BY <1>2 DEF SeedsAt, TailBlock
  <2>1. batch[i].r \in Reqs /\ batch[i].r # x
    BY <1>2, <1>3
  <2>2. QED
    BY <2>1 DEF OwnersApart
<1>6. QED
  BY <1>4, <1>5

-----------------------------------------------------------------------------
(* The type invariant.                                                      *)

LEMMA KeyTyped ==
  ASSUME NEW r \in Reqs, NEW p \in 0..MaxPos, NEW ok \in BOOLEAN
  PROVE  Key(r, p, ok) \in Keys
  BY DEF Key, Keys

LEMMA ExactTyped ==
  ASSUME NEW r \in Reqs, NEW j \in PoolIds, (j + 1) * KPool <= MaxPos + 1
  PROVE  Exact(r, j) \in [Offsets -> Keys]
<1> SUFFICES ASSUME NEW i \in Offsets PROVE Key(r, j * KPool + i, TRUE) \in Keys
  BY DEF Exact
<1>1. j * KPool \in Nat /\ (j + 1) * KPool = j * KPool + KPool
  BY KpoolAssumption DEF PoolIds
<1>2. j * KPool + i \in 0..MaxPos
  BY <1>1, KpoolAssumption DEF Offsets
<1>3. QED
  BY <1>2, KeyTyped

LEMMA UnwrittenTyped == Unwritten \in [Offsets -> Keys]
  BY DEF Unwritten, Keys

LEMMA PrefillType ==
  ASSUME TypeOK, NEW r \in Reqs, NEW q \in Reqs, NEW n \in 1..MaxPos, NEW m \in 0..MaxPos,
         Prefill(r, n, q, m)
  PROVE  TypeOK'
<1>1. UNCHANGED <<own, goal, work>>
  BY DEF Prefill
<1>2. ASSUME NEW x \in Reqs
      PROVE  computed'[x] \in 0..MaxPos
  <2>1. CASE computed'[x] = computed[x]
    BY <2>1 DEF TypeOK
  <2>2. CASE \E off, k : Part(Batch(r, n, q, m), x, off, k) /\ computed'[x] = computed[x] + k
    <3>1. PICK k \in Nat : k \in Chunks(x) /\ computed'[x] = computed[x] + k
      BY <2>2 DEF Part
    <3>2. QED
      BY <3>1, ChunkFits
  <2>3. QED
    BY <2>1, <2>2, PrefillComputed
<1>3. computed' \in [Reqs -> 0..MaxPos]
  BY <1>2 DEF Prefill, TypeOK
<1>4. ASSUME NEW x \in Reqs, NEW j \in PoolIds
      PROVE  pool'[x][j] \in [Offsets -> Keys]
  <2>1. CASE pool'[x][j] = Exact(x, j) /\ (j + 1) * KPool <= computed'[x]
    <3>1. (j + 1) * KPool <= MaxPos + 1
      <4>1. (j + 1) * KPool \in Nat
        BY KpoolAssumption DEF PoolIds
      <4>2. QED
        BY <1>2, <2>1, <4>1, KpoolAssumption
    <3>2. QED
      BY <2>1, <3>1, ExactTyped
  <2>2. CASE pool'[x][j] = pool[x][j]
    BY <2>2 DEF TypeOK
  <2>3. QED
    BY <2>1, <2>2, PrefillPool
<1>5. pool' \in [Reqs -> [PoolIds -> [Offsets -> Keys]]]
  BY <1>4 DEF Prefill
<1>6. ASSUME NEW i \in DOMAIN Batch(r, n, q, m)
      PROVE  KeyOf(Batch(r, n, q, m)[i]) \in Keys
  <2> DEFINE batch == Batch(r, n, q, m)
  <2>1. n \in Chunks(r) /\ (m = 0 \/ (q # r /\ m \in Chunks(q)))
    BY DEF Prefill
  <2>2. /\ Len(batch) = n + m /\ DOMAIN batch = 1..(n + m)
        /\ Part(batch, r, 0, n) /\ (m > 0 => Part(batch, q, n, m))
        /\ \A a \in 1..(n + m) : batch[a].r \in {r, IF m > 0 THEN q ELSE r}
        /\ i \in 1..(n + m) /\ n + m \in Nat
    BY <2>1, BatchParts, KpoolAssumption
  <2> HIDE DEF batch
  <2>3. ASSUME NEW x, NEW off, NEW k, Part(batch, x, off, k), batch[i].r = x
        PROVE  KeyOf(batch[i]) \in Keys
    <3>1. /\ x \in Reqs /\ k \in Nat /\ k \in Chunks(x) /\ off \in Nat /\ i \in 1..Len(batch)
          /\ i \in Nat
      BY <2>2, <2>3 DEF Part
    <3>2. PICK base \in Nat : base = computed[x] /\ base + k \in 0..MaxPos
      BY <3>1, ChunkFits, ChunkStart
    <3>3. i > off /\ i <= off + k /\ batch[i].pos = base + i - off - 1
      BY <2>3, <3>1, <3>2 DEF Part
    <3>4. base + i - off - 1 \in 0..MaxPos
      <4>1. i > off /\ i <= off + k /\ base + k \in 0..MaxPos
        BY <3>2, <3>3
      <4>2. QED
        BY <3>1, <4>1, KpoolAssumption
    <3>5. batch[i].pos \in 0..MaxPos
      BY <3>3, <3>4
    <3>6. QED
      BY <2>3, <3>1, <3>5, KeyTyped DEF KeyOf
  <2>4. QED
    BY <2>2, <2>3 DEF batch
<1>7. ring' \in [Blocks -> [Offsets -> Keys]]
  BY <1>6 DEF Prefill, TypeOK
<1>8. QED
  BY <1>1, <1>3, <1>5, <1>7 DEF TypeOK

LEMMA TokenPos ==
  ASSUME TypeOK, WorkOK, NEW r \in Reqs, work[r].t < work[r].n
  PROVE  /\ own[r] \in Blocks /\ computed[r] \in Nat
         /\ work[r].t \in Nat /\ work[r].n \in 0..MaxNextN /\ work[r].acc \in 0..MaxNextN
         /\ work[r].acc >= 1 /\ work[r].acc <= work[r].n
         /\ Final(r) \in 0..MaxPos /\ Final(r) + 1 \in 0..MaxPos
         /\ computed[r] + work[r].acc \in 0..MaxPos
<1>1. /\ computed[r] \in 0..MaxPos /\ own[r] \in Blocks \cup {NoBlock}
      /\ work[r] \in [n : 0..MaxNextN, acc : 0..MaxNextN, t : 0..MaxNextN]
  BY DEF TypeOK
<1>2. work[r] # Idle
  BY DEF Idle
<1>3. PICK c \in Nat, n \in Nat, acc \in Nat, t \in Nat :
        c = computed[r] /\ n = work[r].n /\ acc = work[r].acc /\ t = work[r].t
  BY <1>1, KpoolAssumption
<1>4. own[r] # NoBlock /\ acc >= 1 /\ acc <= n /\ c + n <= MaxPos /\ t < n
  BY <1>2, <1>3 DEF WorkOK
<1>5. c + t \in 0..MaxPos /\ c + t + 1 \in 0..MaxPos /\ c + acc \in 0..MaxPos
  BY <1>4, KpoolAssumption
<1>6. QED
  BY <1>1, <1>3, <1>4, <1>5 DEF Final

(* What one iteration of the decode kernel does.                            *)
LEMMA TokenEffect ==
  ASSUME NEW r \in Reqs, Token(r)
  PROVE  LET w   == work[r]
             p   == Final(r)
             key == Key(r, p, w.t < w.acc)
         IN  /\ w.t < w.n /\ UNCHANGED <<own, goal>>
             /\ pool' = IF p % KPool = KPool - 1
                        THEN [pool EXCEPT ![r][p \div KPool] = PoolRead(ring[own[r]], key)]
                        ELSE pool
             /\ ring' = [ring EXCEPT ![own[r]][p % KPool] = key]
             /\ work' = [work EXCEPT ![r] = IF w.t + 1 = w.n THEN Idle
                                            ELSE [w EXCEPT !.t = w.t + 1]]
             /\ computed' = [computed EXCEPT ![r] =
                               IF w.t + 1 = w.n THEN computed[r] + w.acc ELSE computed[r]]
  BY DEF Token, Final, TailBlock, TailOffset, Stash, Committed

LEMMA TokenType ==
  ASSUME TypeOK, WorkOK, NEW r \in Reqs, Token(r)
  PROVE  TypeOK' /\ WorkOK'
<1> DEFINE w == work[r]
           p == Final(r)
           key == Key(r, p, w.t < w.acc)
<1>1. /\ w.t < w.n /\ UNCHANGED <<own, goal>>
      /\ pool' = IF p % KPool = KPool - 1
                 THEN [pool EXCEPT ![r][p \div KPool] = PoolRead(ring[own[r]], key)] ELSE pool
      /\ ring' = [ring EXCEPT ![own[r]][p % KPool] = key]
      /\ work' = [work EXCEPT ![r] = IF w.t + 1 = w.n THEN Idle ELSE [w EXCEPT !.t = w.t + 1]]
      /\ computed' = [computed EXCEPT ![r] =
                        IF w.t + 1 = w.n THEN computed[r] + w.acc ELSE computed[r]]
  BY TokenEffect
<1>2. /\ own[r] \in Blocks /\ computed[r] \in Nat
      /\ w.t \in Nat /\ w.n \in 0..MaxNextN /\ w.acc \in 0..MaxNextN
      /\ w.acc >= 1 /\ w.acc <= w.n
      /\ p \in 0..MaxPos /\ p + 1 \in 0..MaxPos /\ computed[r] + w.acc \in 0..MaxPos
  BY <1>1, TokenPos
<1>3. p % KPool \in Offsets /\ p \div KPool \in PoolIds
  BY <1>2, DivMod, PoolOf
<1>4. key \in Keys
  <2>1. (w.t < w.acc) \in BOOLEAN
    OBVIOUS
  <2>2. QED
    BY <1>2, <2>1, KeyTyped, Zenon
<1>5. PoolRead(ring[own[r]], key) \in [Offsets -> Keys]
  BY <1>2, <1>4 DEF PoolRead, TypeOK
<1> HIDE DEF p, key
<1>6. pool' \in [Reqs -> [PoolIds -> [Offsets -> Keys]]]
  <2>1. CASE p % KPool = KPool - 1
    <3>1. pool' = [pool EXCEPT ![r][p \div KPool] = PoolRead(ring[own[r]], key)]
      BY <1>1, <2>1
    <3>2. QED
      BY <1>3, <1>5, <3>1 DEF TypeOK
  <2>2. CASE p % KPool # KPool - 1
    BY <1>1, <2>2 DEF TypeOK
  <2>3. QED
    BY <2>1, <2>2
<1>7. ring' \in [Blocks -> [Offsets -> Keys]]
  BY <1>1, <1>2, <1>3, <1>4 DEF TypeOK
<1>8. computed' \in [Reqs -> 0..MaxPos]
  BY <1>1, <1>2 DEF TypeOK
<1>9. w \in [n : 0..MaxNextN, acc : 0..MaxNextN, t : 0..MaxNextN]
  BY DEF TypeOK
<1>10. work'[r] \in [n : 0..MaxNextN, acc : 0..MaxNextN, t : 0..MaxNextN]
       /\ (work'[r] = Idle \/ /\ w.t + 1 # w.n /\ work'[r].t = w.t + 1
                              /\ work'[r].n = w.n /\ work'[r].acc = w.acc)
  <2>1. Idle \in [n : 0..MaxNextN, acc : 0..MaxNextN, t : 0..MaxNextN]
    BY KpoolAssumption DEF Idle
  <2>2. ASSUME w.t + 1 # w.n
        PROVE  w.t + 1 \in 0..MaxNextN
    BY <1>1, <1>2, <2>2, KpoolAssumption
  <2>3. work'[r] = IF w.t + 1 = w.n THEN Idle ELSE [w EXCEPT !.t = w.t + 1]
    BY <1>1 DEF TypeOK
  <2>4. QED
    BY <1>9, <2>1, <2>2, <2>3
<1>11. work' \in [Reqs -> [n : 0..MaxNextN, acc : 0..MaxNextN, t : 0..MaxNextN]]
  BY <1>1, <1>10 DEF TypeOK
<1>12. TypeOK'
  BY <1>1, <1>6, <1>7, <1>8, <1>11 DEF TypeOK
<1>13. ASSUME NEW x \in Reqs, work'[x] # Idle
       PROVE  /\ own'[x] # NoBlock
              /\ work'[x].t < work'[x].n /\ work'[x].acc >= 1 /\ work'[x].acc <= work'[x].n
              /\ computed'[x] + work'[x].n <= MaxPos
  <2>1. CASE x = r
    <3>1. /\ w.t + 1 # w.n /\ work'[r].t = w.t + 1
          /\ work'[r].n = w.n /\ work'[r].acc = w.acc
      BY <1>10, <1>13, <2>1
    <3>2. w # Idle
      BY <1>1 DEF Idle
    <3>3. computed'[r] = computed[r]
      BY <1>1, <3>1 DEF TypeOK
    <3>4. computed[r] + w.n <= MaxPos /\ own[r] # NoBlock
      BY <3>2 DEF WorkOK
    <3>5. w.t + 1 < w.n
      BY <1>1, <1>2, <3>1, KpoolAssumption
    <3>6. QED
      BY <1>1, <1>2, <2>1, <3>1, <3>3, <3>4, <3>5
  <2>2. CASE x # r
    BY <1>1, <1>13, <2>2 DEF WorkOK, TypeOK
  <2>3. QED
    BY <2>1, <2>2
<1>14. QED
  BY <1>12, <1>13 DEF WorkOK

LEMMA AdmitType ==
  ASSUME TypeOK, WorkOK, NEW r \in Reqs, NEW b \in Blocks, NEW hits \in 0..MaxPos,
         NEW len \in 0..MaxPos, Admit(r, b, hits, len)
  PROVE  TypeOK' /\ WorkOK'
<1>1. /\ UNCHANGED <<work, ring>> /\ own' = [own EXCEPT ![r] = b]
      /\ computed' = [computed EXCEPT ![r] = hits * KPool] /\ goal' = [goal EXCEPT ![r] = len]
      /\ pool' = [pool EXCEPT ![r] = [j \in PoolIds |-> IF j < hits THEN Exact(r, j)
                                                        ELSE Unwritten]]
  BY DEF Admit
<1>2. hits * KPool \in Nat /\ hits * KPool < len /\ hits \in Nat
  BY KpoolAssumption DEF Admit
<1>3. hits * KPool \in 0..MaxPos
  BY <1>2, KpoolAssumption
<1>4. ASSUME NEW j \in PoolIds, j < hits
      PROVE  Exact(r, j) \in [Offsets -> Keys]
  <2>1. j \in Nat /\ j * KPool \in Nat /\ (j + 1) * KPool = j * KPool + KPool
    BY KpoolAssumption DEF PoolIds
  <2>2. j * KPool + KPool <= hits * KPool
    BY <1>2, <1>4, <2>1, MulMono
  <2>3. (j + 1) * KPool <= MaxPos + 1
    BY <1>2, <1>3, <2>1, <2>2, KpoolAssumption
  <2>4. QED
    BY <2>3, ExactTyped
<1>5. [j \in PoolIds |-> IF j < hits THEN Exact(r, j) ELSE Unwritten]
        \in [PoolIds -> [Offsets -> Keys]]
  BY <1>4, UnwrittenTyped
<1>6. TypeOK'
  BY <1>1, <1>3, <1>5 DEF TypeOK
<1>7. work[r] = Idle
  BY DEF Admit, WorkOK
<1>8. WorkOK'
  BY <1>1, <1>7 DEF WorkOK, TypeOK
<1>9. QED
  BY <1>6, <1>8

LEMMA ReleaseType ==
  ASSUME TypeOK, WorkOK, NEW r \in Reqs, Release(r)
  PROVE  TypeOK' /\ WorkOK'
<1>1. /\ UNCHANGED <<work, ring>> /\ own' = [own EXCEPT ![r] = NoBlock] /\ work[r] = Idle
      /\ computed' = [computed EXCEPT ![r] = 0] /\ goal' = [goal EXCEPT ![r] = 0]
      /\ pool' = [pool EXCEPT ![r] = [j \in PoolIds |-> Unwritten]]
  BY DEF Release
<1>2. TypeOK'
  BY <1>1, UnwrittenTyped, KpoolAssumption DEF TypeOK
<1>3. WorkOK'
  BY <1>1 DEF WorkOK, TypeOK
<1>4. QED
  BY <1>2, <1>3

(* A program starts on a request that has none.                             *)
LEMMA StartFacts ==
  ASSUME TypeOK, NEW r \in Reqs, StartExtend(r) \/ \E n, acc \in 1..MaxNextN : StartVerify(r, n, acc)
  PROVE  \E n \in 1..MaxNextN, acc \in 1..MaxNextN :
           /\ work' = [work EXCEPT ![r] = [n |-> n, acc |-> acc, t |-> 0]]
           /\ acc <= n /\ computed[r] + n <= MaxPos
           /\ own[r] # NoBlock /\ work[r] = Idle /\ UNCHANGED <<own, computed, goal, ring, pool>>
<1>1. CASE StartExtend(r)
  <2> DEFINE n == goal[r] - computed[r]
  <2>1. PICK c \in Nat, g \in Nat : c = computed[r] /\ g = goal[r] /\ g <= MaxPos
    BY KpoolAssumption DEF TypeOK
  <2>2. c < g /\ g - c <= MaxNextN
    BY <1>1, <2>1 DEF StartExtend
  <2>3. g - c \in 1..MaxNextN /\ c + (g - c) <= MaxPos
    BY <2>1, <2>2, KpoolAssumption
  <2>4. n \in 1..MaxNextN /\ n <= n /\ computed[r] + n <= MaxPos
    BY <2>1, <2>3, KpoolAssumption
  <2>5. /\ work' = [work EXCEPT ![r] = [n |-> n, acc |-> n, t |-> 0]]
        /\ own[r] # NoBlock /\ work[r] = Idle /\ UNCHANGED <<own, computed, goal, ring, pool>>
    BY <1>1 DEF StartExtend
  <2> HIDE DEF n
  <2>6. QED
    BY <2>4, <2>5
<1>2. CASE \E n, acc \in 1..MaxNextN : StartVerify(r, n, acc)
  BY <1>2 DEF StartVerify
<1>3. QED
  BY <1>1, <1>2

LEMMA StartType ==
  ASSUME TypeOK, WorkOK, NEW r \in Reqs,
         StartExtend(r) \/ \E n, acc \in 1..MaxNextN : StartVerify(r, n, acc)
  PROVE  TypeOK' /\ WorkOK'
<1>1. PICK n \in 1..MaxNextN, acc \in 1..MaxNextN :
        /\ work' = [work EXCEPT ![r] = [n |-> n, acc |-> acc, t |-> 0]]
        /\ acc <= n /\ computed[r] + n <= MaxPos
        /\ own[r] # NoBlock /\ work[r] = Idle /\ UNCHANGED <<own, computed, goal, ring, pool>>
  BY StartFacts
<1>2. [n |-> n, acc |-> acc, t |-> 0] \in [n : 0..MaxNextN, acc : 0..MaxNextN, t : 0..MaxNextN]
  BY KpoolAssumption
<1>3. TypeOK'
  BY <1>1, <1>2 DEF TypeOK
<1>4. ASSUME NEW x \in Reqs, work'[x] # Idle
      PROVE  /\ own'[x] # NoBlock
             /\ work'[x].t < work'[x].n /\ work'[x].acc >= 1 /\ work'[x].acc <= work'[x].n
             /\ computed'[x] + work'[x].n <= MaxPos
  <2>1. CASE x = r
    <3>1. work'[x] = [n |-> n, acc |-> acc, t |-> 0]
      BY <1>1, <2>1 DEF TypeOK
    <3>2. QED
      BY <1>1, <2>1, <3>1, KpoolAssumption
  <2>2. CASE x # r
    BY <1>1, <1>4, <2>2 DEF WorkOK, TypeOK
  <2>3. QED
    BY <2>1, <2>2
<1>5. QED
  BY <1>3, <1>4 DEF WorkOK

LEMMA PrefillWork ==
  ASSUME TypeOK, WorkOK, NEW r \in Reqs, NEW q \in Reqs, NEW n \in 1..MaxPos,
         NEW m \in 0..MaxPos, Prefill(r, n, q, m)
  PROVE  WorkOK' /\ \A x \in Reqs : computed'[x] # computed[x] => work[x] = Idle
<1>1. UNCHANGED <<own, goal, work>>
  BY DEF Prefill
<1>2. ASSUME NEW x \in Reqs
      PROVE  computed'[x] = computed[x] \/ work[x] = Idle
  BY PrefillComputed, ChunkStart DEF Part
<1>3. QED
  BY <1>1, <1>2 DEF WorkOK

LEMMA NextType ==
  ASSUME TypeOK, WorkOK, [Next]_vars
  PROVE  TypeOK' /\ WorkOK'
<1>1. ASSUME NEW r \in Reqs, NEW q \in Reqs, NEW n \in 1..MaxPos, NEW m \in 0..MaxPos,
             Prefill(r, n, q, m)
      PROVE  TypeOK' /\ WorkOK'
  BY <1>1, PrefillType, PrefillWork
<1>2. CASE UNCHANGED vars
  BY <1>2 DEF vars, TypeOK, WorkOK
<1>3. QED
  BY <1>1, <1>2, AdmitType, ReleaseType, StartType, TokenType DEF Next

LEMMA InitType == Init => TypeOK /\ WorkOK
  BY UnwrittenTyped, KpoolAssumption DEF Init, TypeOK, WorkOK, Idle

\* Every variable keeps its shape: no token of any batch, prefill or verify,
\* has a position, an offset or a pool outside the caches.
THEOREM TypeCorrect == Spec => []TypeOK
<1>1. (TypeOK /\ WorkOK) /\ [Next]_vars => (TypeOK /\ WorkOK)'
  BY NextType
<1>2. QED
  BY <1>1, InitType, PTL DEF Spec

-----------------------------------------------------------------------------
(* Pools and tails.                                                         *)

LEMMA NextOwners ==
  ASSUME TypeOK, OwnersApart, [Next]_vars
  PROVE  OwnersApart'
<1>1. ASSUME NEW r \in Reqs, NEW b \in Blocks, \A q \in Reqs : own[q] # b,
             own' = [own EXCEPT ![r] = b]
      PROVE  OwnersApart'
  BY <1>1 DEF OwnersApart, TypeOK
<1>2. ASSUME NEW r \in Reqs, own' = [own EXCEPT ![r] = NoBlock]
      PROVE  OwnersApart'
  BY <1>2 DEF OwnersApart, TypeOK
<1>3. CASE own' = own
  BY <1>3 DEF OwnersApart
<1>4. ASSUME NEW r \in Reqs, NEW b \in Blocks, NEW hits, NEW len, Admit(r, b, hits, len)
      PROVE  OwnersApart'
  BY <1>1, <1>4 DEF Admit
<1>5. ASSUME NEW r \in Reqs, Release(r)
      PROVE  OwnersApart'
  BY <1>2, <1>5 DEF Release
<1>6. ASSUME NEW r, NEW q, NEW n, NEW m, Prefill(r, n, q, m)
      PROVE  OwnersApart'
  BY <1>3, <1>6 DEF Prefill
<1>7. ASSUME NEW r, StartExtend(r) \/ Token(r) \/ \E n, acc \in 1..MaxNextN : StartVerify(r, n, acc)
      PROVE  OwnersApart'
  BY <1>3, <1>7 DEF StartExtend, Token, StartVerify
<1>8. CASE UNCHANGED vars
  BY <1>3, <1>8 DEF vars
<1>9. QED
  BY <1>4, <1>5, <1>6, <1>7, <1>8 DEF Next

(* A step that leaves a request, its pools and its block alone.             *)
Untouched(x) ==
  /\ own'[x] = own[x] /\ (Final(x))' = Final(x) /\ pool'[x] = pool[x]
  /\ own[x] # NoBlock => ring'[own[x]] = ring[own[x]]

(* What PoolsWritten and TailKept say of one request.                       *)
PoolsOf(x) == \A j \in PoolIds : (j + 1) * KPool <= Final(x) => pool[x][j] = Exact(x, j)
TailOf(x) ==
  \A j \in PoolIds, i \in Offsets :
    Unfinished(Final(x), j, i) => ring[own[x]][i] = Key(x, j * KPool + i, TRUE)

LEMMA UntouchedExact ==
  ASSUME NEW x \in Reqs, Untouched(x), own[x] # NoBlock, PoolsOf(x), TailOf(x)
  PROVE  PoolsOf(x)' /\ TailOf(x)'
  BY DEF Untouched, PoolsOf, TailOf

LEMMA AdmitExact ==
  ASSUME TypeOK, WorkOK, NEW r \in Reqs, NEW b \in Blocks, NEW hits \in 0..MaxPos,
         NEW len \in 0..MaxPos, Admit(r, b, hits, len)
  PROVE  PoolsOf(r)' /\ TailOf(r)' /\ \A x \in Reqs \ {r} : Untouched(x)
<1>1. /\ UNCHANGED <<work, ring>> /\ own' = [own EXCEPT ![r] = b]
      /\ computed' = [computed EXCEPT ![r] = hits * KPool]
      /\ pool' = [pool EXCEPT ![r] = [j \in PoolIds |-> IF j < hits THEN Exact(r, j)
                                                        ELSE Unwritten]]
  BY DEF Admit
<1>2. work[r] = Idle /\ work[r].t = 0
  BY DEF Admit, WorkOK, Idle
<1>3. (Final(r))' = hits * KPool
  <2>1. computed'[r] = hits * KPool /\ work'[r].t = 0
    BY <1>1, <1>2 DEF TypeOK
  <2>2. hits * KPool \in Nat
    BY KpoolAssumption
  <2>3. QED
    BY <2>1, <2>2 DEF Final
<1>4. ASSUME NEW j \in PoolIds
      PROVE  \/ j < hits /\ (j + 1) * KPool <= hits * KPool
             \/ ~(j < hits) /\ hits * KPool < (j + 1) * KPool /\ hits * KPool <= j * KPool
  <2>1. j \in Nat /\ hits \in Nat /\ j * KPool \in Nat /\ hits * KPool \in Nat
        /\ (j + 1) * KPool = j * KPool + KPool /\ KPool \in Nat \ {0}
    BY KpoolAssumption DEF PoolIds
  <2>2. CASE j < hits
    BY <2>1, <2>2, MulMono
  <2>3. CASE hits < j
    <3>1. hits * KPool + KPool <= j * KPool
      BY <2>1, <2>3, MulMono
    <3>2. QED
      BY <2>1, <2>3, <3>1
  <2>4. CASE hits = j
    BY <2>1, <2>4
  <2>5. QED
    BY <2>1, <2>2, <2>3, <2>4
<1>5. pool'[r] = [j \in PoolIds |-> IF j < hits THEN Exact(r, j) ELSE Unwritten]
  BY <1>1 DEF TypeOK
<1>6. ASSUME NEW j \in PoolIds, (j + 1) * KPool <= (Final(r))'
      PROVE  pool'[r][j] = Exact(r, j)
  <2>1. (j + 1) * KPool \in Int /\ hits * KPool \in Int
    BY KpoolAssumption DEF PoolIds
  <2>2. j < hits
    BY <1>3, <1>4, <1>6, <2>1
  <2>3. QED
    BY <1>5, <2>2
<1>7. PoolsOf(r)'
  BY <1>6 DEF PoolsOf, Exact
<1>8. ASSUME NEW j \in PoolIds, NEW i \in Offsets
      PROVE  ~Unfinished(hits * KPool, j, i)
  <2>1. j * KPool \in Int /\ (j + 1) * KPool \in Int /\ hits * KPool \in Int /\ i \in Nat
    BY KpoolAssumption DEF PoolIds, Offsets
  <2>2. QED
    BY <1>4, <2>1 DEF Unfinished
<1>9. TailOf(r)'
  BY <1>3, <1>8 DEF TailOf
<1>10. \A x \in Reqs \ {r} : Untouched(x)
  BY <1>1 DEF Untouched, Final, TypeOK
<1>11. QED
  BY <1>7, <1>9, <1>10

LEMMA StartExact ==
  ASSUME TypeOK, NEW r \in Reqs,
         StartExtend(r) \/ \E n, acc \in 1..MaxNextN : StartVerify(r, n, acc)
  PROVE  \A x \in Reqs : Untouched(x)
<1>1. PICK n \in 1..MaxNextN, acc \in 1..MaxNextN :
        /\ work' = [work EXCEPT ![r] = [n |-> n, acc |-> acc, t |-> 0]]
        /\ work[r] = Idle /\ UNCHANGED <<own, computed, goal, ring, pool>>
  BY StartFacts
<1>2. \A x \in Reqs : work'[x].t = work[x].t
  BY <1>1 DEF TypeOK, Idle
<1>3. QED
  BY <1>1, <1>2 DEF Untouched, Final

LEMMA PrefillExact ==
  ASSUME TypeOK, WorkOK, OwnersApart, NEW r \in Reqs, NEW q \in Reqs, NEW n \in 1..MaxPos,
         NEW m \in 0..MaxPos, Prefill(r, n, q, m),
         NEW x \in Reqs, own[x] # NoBlock, PoolsOf(x), TailOf(x)
  PROVE  PoolsOf(x)' /\ TailOf(x)'
<1>1. UNCHANGED <<own, goal, work>>
  BY DEF Prefill
<1>2. computed'[x] # computed[x] => work[x] = Idle
  BY PrefillWork
<1>3. \/ computed'[x] = computed[x] /\ (Final(x))' = Final(x)
      \/ Final(x) = computed[x] /\ (Final(x))' = computed'[x]
  <2>1. computed[x] \in Nat /\ computed'[x] \in Nat
    BY PrefillType, KpoolAssumption DEF TypeOK
  <2>2. CASE computed'[x] = computed[x]
    BY <1>1, <2>2 DEF Final
  <2>3. CASE work[x] = Idle
    BY <1>1, <2>1, <2>3 DEF Final, Idle
  <2>4. QED
    BY <1>2, <2>2, <2>3
<1>4. ASSUME NEW j \in PoolIds, (j + 1) * KPool <= (Final(x))'
      PROVE  pool'[x][j] = Exact(x, j)
  <2>1. CASE computed'[x] = computed[x] /\ (Final(x))' = Final(x)
    BY <1>4, <2>1, PrefillPool DEF PoolsOf
  <2>2. CASE Final(x) = computed[x] /\ (Final(x))' = computed'[x]
    BY <1>4, <2>2, PrefillPool DEF PoolsOf
  <2>3. QED
    BY <1>3, <2>1, <2>2
<1>5. ASSUME NEW j \in PoolIds, NEW i \in Offsets, Unfinished((Final(x))', j, i)
      PROVE  ring'[own[x]][i] = Key(x, j * KPool + i, TRUE)
  <2>0. \/ Unfinished(computed'[x], j, i) => ring'[own[x]][i] = Key(x, j * KPool + i, TRUE)
        \/ ring'[own[x]][i] = ring[own[x]][i] /\ computed'[x] = computed[x]
    BY PrefillRing
  <2>1. CASE computed'[x] = computed[x] /\ (Final(x))' = Final(x)
    <3>0. Unfinished(Final(x), j, i)
      BY <1>5, <2>1 DEF Unfinished
    <3>9. ring[own[x]][i] = Key(x, j * KPool + i, TRUE)
      BY <3>0 DEF TailOf
    <3>1. CASE work[x] = Idle
      <4>1. Final(x) = computed[x]
        BY <3>1, KpoolAssumption DEF Final, Idle, TypeOK
      <4>2. Unfinished(computed'[x], j, i)
        BY <2>1, <3>0, <4>1 DEF Unfinished
      <4>3. QED
        BY <2>0, <3>9, <4>2
    <3>2. CASE work[x] # Idle
      <4>1. ring'[own[x]][i] = ring[own[x]][i]
        BY <3>2, PrefillBusy
      <4>2. QED
        BY <1>5, <2>1, <4>1 DEF TailOf
    <3>3. QED
      BY <3>1, <3>2
  <2>2. CASE Final(x) = computed[x] /\ (Final(x))' = computed'[x]
    <3>1. Unfinished(computed'[x], j, i)
      BY <1>5, <2>2 DEF Unfinished
    <3>2. CASE computed'[x] = computed[x]
      <4>1. Unfinished(Final(x), j, i)
        BY <2>2, <3>1, <3>2 DEF Unfinished
      <4>2. ring[own[x]][i] = Key(x, j * KPool + i, TRUE)
        BY <4>1 DEF TailOf
      <4>3. QED
        BY <2>0, <3>1, <4>2
    <3>3. QED
      BY <2>0, <3>1, <3>2
  <2>3. QED
    BY <1>3, <2>1, <2>2
<1>6. QED
  BY <1>1, <1>4, <1>5 DEF PoolsOf, TailOf, Exact

LEMMA ReleaseExact ==
  ASSUME TypeOK, NEW r \in Reqs, Release(r)
  PROVE  own'[r] = NoBlock /\ \A x \in Reqs \ {r} : Untouched(x)
  BY DEF Release, Untouched, Final, TypeOK

(* Two tokens at most: the first is kept, so that the walk is exact up to   *)
(* the token it is at, and a rejected second token adds nothing.            *)
LEMMA TokenFinal ==
  ASSUME MaxNextN <= 2, TypeOK, WorkOK, NEW r \in Reqs, Token(r)
  PROVE  (Final(r))' = IF work[r].t < work[r].acc THEN Final(r) + 1 ELSE Final(r)
<1>1. /\ work[r].t < work[r].n
      /\ work' = [work EXCEPT ![r] = IF work[r].t + 1 = work[r].n THEN Idle
                                     ELSE [work[r] EXCEPT !.t = work[r].t + 1]]
      /\ computed' = [computed EXCEPT ![r] = IF work[r].t + 1 = work[r].n
                                             THEN computed[r] + work[r].acc ELSE computed[r]]
  BY TokenEffect
<1>2. PICK c \in Nat, n \in Nat, acc \in Nat, t \in Nat :
        c = computed[r] /\ n = work[r].n /\ acc = work[r].acc /\ t = work[r].t
  BY KpoolAssumption DEF TypeOK
<1>3. t < n /\ n <= 2 /\ acc >= 1 /\ acc <= n
  <2>1. work[r] # Idle
    BY <1>1 DEF Idle
  <2>2. work[r].n \in 0..MaxNextN
    BY DEF TypeOK
  <2>3. QED
    BY <1>1, <1>2, <2>1, <2>2, KpoolAssumption DEF WorkOK
<1>4. CASE t + 1 = n
  <2>1. computed'[r] = c + acc /\ work'[r].t = 0
    BY <1>1, <1>2, <1>4 DEF TypeOK, Idle
  <2>2. c + acc + 0 = IF t < acc THEN c + t + 1 ELSE c + t
    BY <1>2, <1>3, <1>4
  <2>3. QED
    BY <1>2, <2>1, <2>2 DEF Final
<1>5. CASE t + 1 # n
  <2>1. computed'[r] = c /\ work'[r].t = t + 1
    BY <1>1, <1>2, <1>5 DEF TypeOK
  <2>2. t < acc
    BY <1>2, <1>3, <1>5
  <2>3. QED
    BY <1>2, <2>1, <2>2 DEF Final
<1>6. QED
  BY <1>4, <1>5

LEMMA TokenExact ==
  ASSUME MaxNextN <= 2, TypeOK, WorkOK, OwnersApart, NEW r \in Reqs, Token(r),
         PoolsOf(r), TailOf(r)
  PROVE  PoolsOf(r)' /\ TailOf(r)' /\ \A x \in Reqs \ {r} : Untouched(x)
<1> DEFINE kept == work[r].t < work[r].acc
           blk  == own[r]
<1>1. PICK e \in Nat : e = Final(r) /\ e \in 0..MaxPos
  <2>1. work[r].t < work[r].n
    BY DEF Token
  <2>2. QED
    BY <2>1, TokenPos, KpoolAssumption
<1>2. /\ UNCHANGED <<own, goal>> /\ own[r] \in Blocks
      /\ pool' = IF e % KPool = KPool - 1
                 THEN [pool EXCEPT ![r][e \div KPool] = PoolRead(ring[blk], Key(r, e, kept))]
                 ELSE pool
      /\ ring' = [ring EXCEPT ![blk][e % KPool] = Key(r, e, kept)]
      /\ work' = [work EXCEPT ![r] = work'[r]]
      /\ computed' = [computed EXCEPT ![r] = computed'[r]]
  <2> DEFINE p   == Final(r)
             key == Key(r, p, kept)
  <2>0. /\ work[r].t < work[r].n /\ UNCHANGED <<own, goal>>
        /\ pool' = IF p % KPool = KPool - 1
                   THEN [pool EXCEPT ![r][p \div KPool] = PoolRead(ring[own[r]], key)] ELSE pool
        /\ ring' = [ring EXCEPT ![own[r]][p % KPool] = key]
    BY TokenEffect
  <2>6. key = Key(r, e, kept)
    <3> HIDE DEF kept
    <3>1. QED
      BY <1>1
  <2> HIDE DEF kept, key
  <2>1. /\ UNCHANGED <<own, goal>> /\ work[r].t < work[r].n
        /\ pool' = IF e % KPool = KPool - 1
                   THEN [pool EXCEPT ![r][e \div KPool] = PoolRead(ring[blk], Key(r, e, kept))]
                   ELSE pool
        /\ ring' = [ring EXCEPT ![blk][e % KPool] = Key(r, e, kept)]
    BY <1>1, <2>0, <2>6
  <2>2. own[r] \in Blocks
    BY <2>1, TokenPos
  <2>3. work' = [work EXCEPT ![r] = work'[r]]
    BY TokenEffect DEF TypeOK
  <2>4. computed' = [computed EXCEPT ![r] = computed'[r]]
    BY TokenEffect DEF TypeOK
  <2>5. QED
    BY <2>1, <2>2, <2>3, <2>4
<1>3. (Final(r))' = IF kept THEN e + 1 ELSE e
  BY <1>1, TokenFinal
<1>4. PICK a \in Nat, o \in Offsets, low \in Nat :
        a = e \div KPool /\ o = e % KPool /\ low = a * KPool /\ e = low + o
  <2>1. e \div KPool \in Nat /\ e % KPool \in Offsets
        /\ e = ((e \div KPool) * KPool) + (e % KPool)
    BY DivMod
  <2>2. (e \div KPool) * KPool \in Nat
    BY <2>1, KpoolAssumption
  <2>3. QED
    BY <2>1, <2>2
<1>5. kept => Key(r, e, kept) = Key(r, e, TRUE)
  <2>1. kept \in BOOLEAN
    OBVIOUS
  <2>2. kept => kept = TRUE
    BY <2>1
  <2>3. QED
    BY <2>2, Zenon
<1>6. KPool \in Nat \ {0, 1} /\ o \in 0..(KPool - 1)
  BY KpoolAssumption DEF Offsets
<1> HIDE DEF kept
<1>7. ASSUME NEW j \in PoolIds
      PROVE  j \in Nat /\ j * KPool \in Nat /\ (j + 1) * KPool = j * KPool + KPool
  BY KpoolAssumption DEF PoolIds
<1>8. ASSUME NEW j \in PoolIds, (j + 1) * KPool <= (Final(r))'
      PROVE  pool'[r][j] = Exact(r, j)
  <2>1. PICK start \in Nat : start = j * KPool /\ (j + 1) * KPool = start + KPool
    BY <1>7
  <2>2. CASE (j + 1) * KPool <= e
    <3>1. j # a
      <4> SUFFICES ASSUME j = a PROVE FALSE
        OBVIOUS
      <4>1. start = low
        BY <1>4, <2>1
      <4>2. QED
        BY <1>4, <1>6, <2>1, <2>2, <4>1
    <3>2. pool'[r][j] = pool[r][j]
      BY <1>2, <1>4, <3>1 DEF TypeOK
    <3>3. pool[r][j] = Exact(r, j)
      BY <1>1, <2>2 DEF PoolsOf
    <3>4. QED
      BY <3>2, <3>3
  <2>3. CASE ~((j + 1) * KPool <= e)
    <3>1. kept /\ e = start + (KPool - 1)
      BY <1>3, <1>6, <1>8, <2>1, <2>3
    <3>2. KPool - 1 \in Offsets
      BY <1>6 DEF Offsets
    <3>3. e \div KPool = j /\ e % KPool = KPool - 1
      BY <1>7, <2>1, <3>1, <3>2, DivUnique
    <3>4. pool'[r][j] = PoolRead(ring[blk], Key(r, e, TRUE))
      BY <1>2, <1>5, <3>1, <3>3 DEF TypeOK
    <3>5. ASSUME NEW i \in Offsets
          PROVE  (IF i = KPool - 1 THEN Key(r, e, TRUE) ELSE ring[blk][i])
                   = Key(r, j * KPool + i, TRUE)
      <4>1. CASE i = KPool - 1
        BY <2>1, <3>1, <4>1
      <4>2. CASE i # KPool - 1
        <5>1. start + i < e /\ e < start + KPool
          BY <1>6, <3>1, <4>2 DEF Offsets
        <5>2. Unfinished(Final(r), j, i)
          BY <1>1, <2>1, <5>1 DEF Unfinished
        <5>3. QED
          BY <4>2, <5>2 DEF TailOf
      <4>3. QED
        BY <4>1, <4>2
    <3>6. QED
      BY <3>4, <3>5 DEF PoolRead, Exact
  <2>4. QED
    BY <2>2, <2>3
<1>9. ASSUME NEW j \in PoolIds, NEW i \in Offsets, Unfinished((Final(r))', j, i)
      PROVE  ring'[blk][i] = Key(r, j * KPool + i, TRUE)
  <2>1. PICK start \in Nat : start = j * KPool /\ (j + 1) * KPool = start + KPool
    BY <1>7
  <2>2. /\ start + i < IF kept THEN e + 1 ELSE e
        /\ (IF kept THEN e + 1 ELSE e) < start + KPool
    BY <1>3, <1>9, <2>1 DEF Unfinished
  <2>3. CASE kept /\ start + i = e
    <3>1. e % KPool = i
      BY <1>7, <2>1, <2>3, DivUnique
    <3>2. QED
      BY <1>2, <1>5, <2>1, <2>3, <3>1 DEF TypeOK
  <2>4. CASE ~(kept /\ start + i = e)
    <3>1. start + i < e /\ e < start + KPool
      BY <1>6, <2>2, <2>4 DEF Offsets
    <3>2. i # o
      <4> SUFFICES ASSUME i = o PROVE FALSE
        OBVIOUS
      <4>1. start < low /\ j \in Nat
        BY <1>4, <1>6, <1>7, <3>1
      <4>2. j < a
        <5> SUFFICES ASSUME ~(j < a) PROVE FALSE
          OBVIOUS
        <5>1. a = j \/ a < j
          BY <1>4, <4>1
        <5>2. a < j => low + KPool <= start
          BY <1>4, <2>1, <4>1, MulMono
        <5>3. a = j => low = start
          BY <1>4, <2>1
        <5>4. QED
          BY <1>6, <4>1, <5>1, <5>2, <5>3
      <4>3. start + KPool <= low
        BY <1>4, <2>1, <4>1, <4>2, MulMono
      <4>4. QED
        BY <1>4, <1>6, <3>1, <4>3
    <3>3. ring'[blk][i] = ring[blk][i]
      BY <1>2, <1>4, <3>2 DEF TypeOK
    <3>4. Unfinished(Final(r), j, i)
      BY <1>1, <2>1, <3>1 DEF Unfinished
    <3>5. QED
      BY <3>3, <3>4 DEF TailOf
  <2>5. QED
    BY <2>3, <2>4
<1>10. ASSUME NEW x \in Reqs \ {r}
       PROVE  Untouched(x)
  <2>1. own'[x] = own[x] /\ work'[x] = work[x] /\ computed'[x] = computed[x]
    BY <1>2 DEF TypeOK
  <2>2. pool'[x] = pool[x]
    BY <1>2 DEF TypeOK
  <2>3. own[x] # NoBlock => own[x] # blk
    BY DEF OwnersApart
  <2>4. own[x] # NoBlock => ring'[own[x]] = ring[own[x]]
    BY <1>2, <2>3 DEF TypeOK
  <2>5. QED
    BY <2>1, <2>2, <2>4 DEF Untouched, Final
<1>11. PoolsOf(r)'
  BY <1>8 DEF PoolsOf, Exact
<1>12. TailOf(r)'
  BY <1>2, <1>9 DEF TailOf
<1>13. QED
  BY <1>10, <1>11, <1>12

-----------------------------------------------------------------------------
(* The invariant.                                                           *)

AllExact == \A r \in Reqs : own[r] # NoBlock => PoolsOf(r) /\ TailOf(r)

LEMMA ExactSplit == PoolsWritten /\ TailKept <=> AllExact
  BY DEF PoolsWritten, TailKept, PoolsOf, TailOf, AllExact

LEMMA NextExact ==
  ASSUME MaxNextN <= 2, TypeOK, WorkOK, OwnersApart, [Next]_vars,
         AllExact, NEW x \in Reqs, own'[x] # NoBlock
  PROVE  PoolsOf(x)' /\ TailOf(x)'
<1>1. ASSUME Untouched(x)
      PROVE  PoolsOf(x)' /\ TailOf(x)'
  <2>1. own[x] # NoBlock
    BY <1>1 DEF Untouched
  <2>2. QED
    BY <1>1, <2>1, UntouchedExact DEF AllExact
<1>2. ASSUME NEW r \in Reqs, NEW b \in Blocks, NEW hits \in 0..MaxPos, NEW len \in 0..MaxPos,
             Admit(r, b, hits, len)
      PROVE  PoolsOf(x)' /\ TailOf(x)'
  BY <1>1, <1>2, AdmitExact
<1>3. ASSUME NEW r \in Reqs, Release(r)
      PROVE  PoolsOf(x)' /\ TailOf(x)'
  BY <1>1, <1>3, ReleaseExact
<1>4. ASSUME NEW r \in Reqs, NEW q \in Reqs, NEW n \in 1..MaxPos, NEW m \in 0..MaxPos,
             Prefill(r, n, q, m)
      PROVE  PoolsOf(x)' /\ TailOf(x)'
  <2>1. own[x] # NoBlock
    BY <1>4 DEF Prefill
  <2>2. QED
    BY <1>4, <2>1, PrefillExact DEF AllExact
<1>5. ASSUME NEW r \in Reqs,
             StartExtend(r) \/ \E n, acc \in 1..MaxNextN : StartVerify(r, n, acc)
      PROVE  PoolsOf(x)' /\ TailOf(x)'
  BY <1>1, <1>5, StartExact
<1>6. ASSUME NEW r \in Reqs, Token(r)
      PROVE  PoolsOf(x)' /\ TailOf(x)'
  <2>1. own[r] # NoBlock
    BY <1>6, TokenEffect, TokenPos, KpoolAssumption
  <2>2. PoolsOf(r)' /\ TailOf(r)' /\ \A y \in Reqs \ {r} : Untouched(y)
    BY <1>6, <2>1, TokenExact DEF AllExact
  <2>3. QED
    BY <1>1, <2>2
<1>7. CASE UNCHANGED vars
  <2>1. Untouched(x)
    BY <1>7 DEF Untouched, Final, vars
  <2>2. QED
    BY <1>1, <2>1
<1>8. QED
  BY <1>2, <1>3, <1>4, <1>5, <1>6, <1>7 DEF Next

LEMMA InitInv == Init => IInv
<1> SUFFICES ASSUME Init PROVE IInv
  OBVIOUS
<1>1. TypeOK /\ WorkOK
  BY InitType
<1>2. \A r \in Reqs : own[r] = NoBlock
  BY DEF Init
<1>3. OwnersApart /\ PoolsWritten /\ TailKept
  BY <1>2 DEF OwnersApart, PoolsWritten, TailKept
<1>4. QED
  BY <1>1, <1>3 DEF IInv

\* Every step keeps the inductive invariant where a decode batch has at most two
\* tokens of a request: running requests have blocks of their own, complete
\* pools are exact and the tail ring holds the keys of the unfinished one.
THEOREM NextInv ==
  ASSUME MaxNextN <= 2
  PROVE  IInv /\ [Next]_vars => IInv'
<1> SUFFICES ASSUME IInv, [Next]_vars PROVE IInv'
  OBVIOUS
<1>1. TypeOK' /\ WorkOK'
  BY NextType DEF IInv
<1>2. OwnersApart'
  BY NextOwners DEF IInv
<1>3. AllExact
  BY ExactSplit DEF IInv
<1>4. AllExact'
  BY <1>3, NextExact DEF IInv, AllExact
<1>5. (PoolsWritten /\ TailKept)'
  BY <1>4, ExactSplit, PTL
<1>6. QED
  BY <1>1, <1>2, <1>5 DEF IInv

LEMMA InvExact == IInv => PoolsExact
<1> SUFFICES ASSUME IInv, NEW r \in Reqs, own[r] # NoBlock,
                    NEW j \in PoolIds, (j + 1) * KPool <= computed[r]
             PROVE  pool[r][j] = Exact(r, j)
  BY DEF PoolsExact
<1>1. (j + 1) * KPool \in Int
  BY KpoolAssumption DEF PoolIds
<1>2. computed[r] \in Nat /\ work[r].t \in Nat
  BY KpoolAssumption DEF IInv, TypeOK
<1>3. (j + 1) * KPool <= Final(r)
  BY <1>1, <1>2 DEF Final
<1>4. QED
  BY <1>3 DEF IInv, PoolsWritten

\* The keys a query scores a request's past with are the request's own, at
\* their positions, and none is a rejected draft's.  The model of the decode
\* batch is exact for one draft a step (MaxNextN = 2); with two, the run
\* KpoolTail_verify breaks it.
THEOREM PoolsStayExact ==
  ASSUME MaxNextN <= 2
  PROVE  Spec => []PoolsExact
<1>1. IInv /\ [Next]_vars => IInv'
  BY NextInv
<1>2. QED
  BY <1>1, InitInv, InvExact, PTL DEF Spec
=============================================================================
