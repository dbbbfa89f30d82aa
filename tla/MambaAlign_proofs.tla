-------------------------- MODULE MambaAlign_proofs --------------------------
(***************************************************************************)
(* Theorems about MambaAlign, for every launch: any number of stages and   *)
(* slots, any block size above the number of drafts, any length.           *)
(*                                                                         *)
(* The argument.  A batch leaves the states after its last tokens side by  *)
(* side at the running column; until the postprocess of the batch is over  *)
(* nothing touches them, and the count that selects one of them is fixed   *)
(* with the tokens that stay (RelaysOK).  The programs of a postprocess    *)
(* decide alike, whatever their order: each copies the state at a block    *)
(* boundary, if the batch passed one, and leaves a state that the count    *)
(* selects when all are done (TodoOK, IdleOK).  Columns in front of the    *)
(* running one are never written again.                                    *)
(***************************************************************************)
EXTENDS MambaAlign, SequenceTheorems, TLAPS

(* The tokens of a sequence up to the end of column c.                      *)
End(c) == (c + 1) * BS

(* The state that a reader finds at offset i of column c.                   *)
InWindows(blocks, c, i) == IF c \in Cols /\ i \in Nat THEN At(blocks[c], i) ELSE Junk
InStates(blocks, c, i) == IF c \in Cols /\ i \in Nat /\ c + i \in Cols THEN blocks[c + i] ELSE Junk

Found(kind, s, c, i) ==
  IF kind = "conv" THEN InWindows(conv[s], c, i) ELSE InStates(temporal[s], c, i)

(* The last a of n states lie where column and count point.                 *)
Left(kind, s, a, n) ==
  \A j \in 1..a : Found(kind, s, col[s], j - 1) = After(s, n - a + j)

(* The full blocks up to token n hold the state at their ends.              *)
Saved(kind, s, n) ==
  \A c \in Cols : plen[s] <= End(c) /\ End(c) <= n => Found(kind, s, c, 0) = After(s, End(c))

Unsaved(kind, s, a, n) == Left(kind, s, a, n) /\ Saved(kind, s, n - a)

(* The last a of n tokens are behind the last full block but one, and not   *)
(* behind the running column.                                               *)
Reach(s, a, n) == plen[s] # 0 /\ col[s] >= 0 /\ a <= n /\ n <= End(col[s])

(* A row is a chunk or a plain step, all of which stays, or verifies K drafts. *)
RowOK(row) ==
  \/ row.d = 0 /\ row.keep = row.n /\ row.sampled \in {0, 1}
  \/ row.d = K /\ row.n = K + 1 /\ row.sampled = row.keep

Stays(row) == computed[row.s] - Rejected(row)

RelayOK(row) ==
  /\ RowOK(row)
  /\ Reach(row.s, Accepted(row.sampled), Stays(row))
  /\ \A kind \in Kinds : Unsaved(kind, row.s, Accepted(row.sampled), Stays(row))

RelaysOK == \A i \in DOMAIN queue : \A j \in DOMAIN queue[i] : RelayOK(queue[i][j])

(* A slot is in one place of one step on its way.                           *)
RelaysApart ==
  \A i, k \in DOMAIN queue : \A j \in DOMAIN queue[i] : \A l \in DOMAIN queue[k] :
    queue[i][j].s = queue[k][l].s => i = k /\ j = l

QueueShape == queue = [i \in 1..Len(queue) |-> queue[i]]

(* The kernel programs of a slot that have not run.                         *)
Rest(s) == {kind \in Kinds : \E i \in DOMAIN entry : entry[i].s = s /\ <<i, kind>> \in todo}

TodoOK ==
  \A i \in DOMAIN entry, kind \in Kinds : <<i, kind>> \in todo =>
    /\ ~Pending(entry[i].s)
    /\ Reach(entry[i].s, snap[entry[i].s], computed[entry[i].s])
    /\ Unsaved(kind, entry[i].s, snap[entry[i].s], computed[entry[i].s])
    /\ \A k \in DOMAIN entry : entry[k].s = entry[i].s => k = i

(* The accepted count that the programs of a slot leave.                    *)
Settles(s) == IF NeedsCopy(s) /\ col[s] = Dest(s) THEN 1 ELSE snap[s]

Selects(s) == IF Rest(s) = {} THEN acc[s] ELSE Settles(s)

Exactly(kind, s) ==
  /\ computed[s] > 0 => Found(kind, s, col[s], Selects(s) - 1) = After(s, computed[s])
  /\ Saved(kind, s, computed[s])

IdleSlot(s) ==
  /\ computed[s] = 0 => col[s] = -1
  /\ computed[s] > 0 => col[s] >= 0
  /\ Rest(s) # {} => acc[s] = IF "conv" \in Rest(s) THEN snap[s] ELSE Settles(s)
  /\ \A kind \in Kinds \ Rest(s) : Exactly(kind, s)

IdleOK == \A s \in Slots : plen[s] # 0 /\ ~Pending(s) => IdleSlot(s)

IInv == TypeOK /\ QueueShape /\ RelaysOK /\ RelaysApart /\ TodoOK /\ IdleOK

-----------------------------------------------------------------------------
(* What the launch fixes.                                                   *)

LEMMA Sizes ==
  ASSUME launch \in Launches
  PROVE  /\ K \in Nat \ {0} /\ BS \in Nat \ {0} /\ K < BS /\ MaxPos \in Nat
         /\ MaxReqs \in Nat \ {0} /\ PPSize \in Nat \ {0, 1} /\ IsLast \in BOOLEAN
         /\ Depth \in Nat \ {0}
  BY AlignAssumption DEF K, BS, MaxPos, MaxReqs, PPSize, IsLast, Depth

LEMMA SameLaunch ==
  ASSUME launch' = launch
  PROVE  /\ K' = K /\ BS' = BS /\ MaxPos' = MaxPos /\ MaxReqs' = MaxReqs
         /\ IsLast' = IsLast /\ Depth' = Depth /\ Slots' = Slots /\ Cols' = Cols
         /\ State' = State /\ Rows' = Rows /\ JunkConv' = JunkConv
         /\ JunkTemporal' = JunkTemporal
         /\ \A c : End(c)' = End(c)
  BY DEF K, BS, MaxPos, MaxReqs, PPSize, IsLast, Depth, Slots, Cols, State, Rows, End,
         JunkConv, JunkTemporal

-----------------------------------------------------------------------------
(* Blocks.                                                                  *)

LEMMA Division ==
  ASSUME launch \in Launches, NEW a \in Int
  PROVE  /\ a \div BS \in Int
         /\ (a \div BS) * BS \in Int
         /\ (a \div BS) * BS <= a /\ a < (a \div BS) * BS + BS
  BY Sizes

LEMMA EndInt ==
  ASSUME launch \in Launches, NEW c \in Int
  PROVE  End(c) \in Int /\ End(c + 1) = End(c) + BS /\ End(-1) = 0
  BY Sizes DEF End

LEMMA EndMono ==
  ASSUME launch \in Launches, NEW b \in Int, NEW c \in Int, b < c
  PROVE  End(b) + BS <= End(c)
<1>1. (c - b - 1) * BS >= 0
  BY Sizes
<1>2. (c - b - 1) * BS = (c + 1) * BS - (b + 1) * BS - BS
  BY Sizes
<1>3. (b + 1) * BS \in Int /\ (c + 1) * BS \in Int
  BY Sizes
<1>4. QED
  BY <1>1, <1>2, <1>3, Sizes DEF End

LEMMA EndOrder ==
  ASSUME launch \in Launches, NEW b \in Int, NEW c \in Int, End(b) < End(c) + BS
  PROVE  b <= c
<1> SUFFICES ASSUME c < b PROVE FALSE
  OBVIOUS
<1>1. End(c) + BS <= End(b)
  BY EndMono
<1>2. End(b) \in Int /\ End(c) \in Int
  BY EndInt
<1>3. QED
  BY <1>1, <1>2, Sizes

(* The block of the last token of a batch.                                  *)
LEMMA WindowEnd ==
  ASSUME launch \in Launches, NEW x \in Nat, NEW n \in Nat \ {0}
  PROVE  /\ Window(x, n) \in Nat
         /\ x + n <= End(Window(x, n)) /\ End(Window(x, n)) < x + n + BS
<1> DEFINE a == x + n + BS - 1
           w == a \div BS - 1
<1>1. a \in Int /\ BS \in Nat \ {0} /\ a = x + n + BS - 1
  BY Sizes
<1>2. w \in Int /\ End(w) \in Int /\ End(w) <= a /\ a < End(w) + BS
  BY <1>1, Division DEF End
<1> HIDE DEF a, w
<1>3. w >= 0
  <2>1. End(-1) = 0
    BY <1>2, EndInt
  <2>2. End(-1) < End(w) + BS
    BY <1>1, <1>2, <2>1
  <2>3. -1 <= w
    BY <1>2, <2>2, EndOrder
  <2>4. w # -1
    BY <1>1, <1>2, <2>1
  <2>5. QED
    BY <1>2, <2>3, <2>4
<1>4. QED
  BY <1>1, <1>2, <1>3 DEF Window, w, a

(* The last full block.                                                     *)
LEMMA LastBlock ==
  ASSUME launch \in Launches, NEW x \in Nat
  PROVE  /\ x \div BS - 1 \in Int
         /\ (x \div BS) * BS = End(x \div BS - 1)
         /\ End(x \div BS - 1) <= x /\ x < End(x \div BS - 1) + BS
<1> DEFINE q == x \div BS
<1>1. q \in Int /\ q * BS \in Int /\ q * BS <= x /\ x < q * BS + BS
  BY Division
<1> HIDE DEF q
<1>2. q - 1 \in Int /\ (q - 1) + 1 = q
  BY <1>1
<1>3. End(q - 1) = q * BS
  BY <1>2 DEF End
<1>4. QED
  BY <1>1, <1>2, <1>3 DEF q

(* Columns of the blocks that a request may use.                            *)
LEMMA ColumnOf ==
  ASSUME launch \in Launches, NEW c \in Int, c >= 0, End(c) < MaxPos + BS
  PROVE  c <= MaxPos \div BS /\ MaxPos \div BS \in Nat
<1> DEFINE m == MaxPos \div BS
<1>1. m - 1 \in Int /\ m \in Int /\ MaxPos < End(m - 1) + BS
  BY LastBlock, Sizes
<1>2. End(m - 1) + BS = End(m) /\ End(m) \in Int /\ End(m - 1) \in Int /\ End(c) \in Int
  <2>1. End((m - 1) + 1) = End(m - 1) + BS
    BY <1>1, EndInt
  <2>2. QED
    BY <1>1, <2>1, EndInt
<1>3. End(c) < End(m) + BS
  BY <1>1, <1>2, Sizes
<1>4. c <= m
  BY <1>1, <1>3, EndOrder
<1>5. QED
  BY <1>1, <1>4

-----------------------------------------------------------------------------
(* What a step leaves alone.                                                *)

Unmoved(s) ==
  /\ launch' = launch
  /\ plen'[s] = plen[s] /\ col'[s] = col[s]
  /\ conv'[s] = conv[s] /\ temporal'[s] = temporal[s]

Untouched(s) == Unmoved(s) /\ computed'[s] = computed[s]

Intact(kind, s) == \A c, i : Found(kind, s, c, i)' = Found(kind, s, c, i)

LEMMA SameFound ==
  ASSUME NEW s, launch' = launch, conv'[s] = conv[s], temporal'[s] = temporal[s],
         NEW kind, NEW c, NEW i
  PROVE  Found(kind, s, c, i)' = Found(kind, s, c, i)
  BY SameLaunch DEF Found, InWindows, InStates

LEMMA SameUnsaved ==
  ASSUME NEW s, Unmoved(s), NEW kind, NEW a, NEW n
  PROVE  /\ Left(kind, s, a, n)' <=> Left(kind, s, a, n)
         /\ Saved(kind, s, n)' <=> Saved(kind, s, n)
         /\ Unsaved(kind, s, a, n)' <=> Unsaved(kind, s, a, n)
         /\ Reach(s, a, n)' <=> Reach(s, a, n)
<1>1. \A c, i : Found(kind, s, c, i)' = Found(kind, s, c, i)
  BY SameFound DEF Unmoved
<1>2. Cols' = Cols /\ \A c : End(c)' = End(c)
  BY SameLaunch DEF Unmoved
<1>3. \A m : Saved(kind, s, m)' <=> Saved(kind, s, m)
  BY <1>1, <1>2 DEF Saved, Unmoved
<1>4. Left(kind, s, a, n)' <=> Left(kind, s, a, n)
  BY <1>1 DEF Left, Unmoved
<1>5. Unsaved(kind, s, a, n)' <=> Unsaved(kind, s, a, n)
  BY <1>3, <1>4 DEF Unsaved
<1>6. Reach(s, a, n)' <=> Reach(s, a, n)
  BY <1>2 DEF Reach, Unmoved
<1>7. QED
  BY <1>3, <1>4, <1>5, <1>6

LEMMA SameRelay ==
  ASSUME NEW row, Untouched(row.s)
  PROVE  RelayOK(row)' <=> RelayOK(row)
<1>1. Stays(row)' = Stays(row)
  BY DEF Stays, Untouched, Unmoved, Rejected
<1>2. RowOK(row)' <=> RowOK(row)
  BY SameLaunch DEF RowOK, Untouched, Unmoved
<1>3. \A a, n : Reach(row.s, a, n)' <=> Reach(row.s, a, n)
  BY SameUnsaved DEF Untouched
<1>4. \A kind, a, n : Unsaved(kind, row.s, a, n)' <=> Unsaved(kind, row.s, a, n)
  BY SameUnsaved DEF Untouched
<1>5. QED
  BY <1>1, <1>2, <1>3, <1>4 DEF RelayOK

LEMMA SameIdle ==
  ASSUME NEW s, Untouched(s), acc'[s] = acc[s], Rest(s)' = Rest(s), IdleSlot(s),
         Rest(s) = {} \/ snap'[s] = snap[s]
  PROVE  IdleSlot(s)'
<1>1. Rest(s) # {} => Settles(s)' = Settles(s)
  BY SameLaunch DEF Settles, NeedsCopy, Dest, Aligned, RunningTokens, Decision, Untouched, Unmoved
<1>2. Selects(s)' = Selects(s)
  BY <1>1 DEF Selects
<1>3. \A kind : Exactly(kind, s)' <=> Exactly(kind, s)
  <2> SUFFICES ASSUME NEW kind PROVE Exactly(kind, s)' <=> Exactly(kind, s)
    OBVIOUS
  <2>1. \A n : Saved(kind, s, n)' <=> Saved(kind, s, n)
    BY SameUnsaved DEF Untouched
  <2>2. \A c, i : Found(kind, s, c, i)' = Found(kind, s, c, i)
    BY SameFound DEF Untouched, Unmoved
  <2>3. QED
    BY <1>2, <2>1, <2>2 DEF Exactly, Untouched, Unmoved
<1>4. QED
  BY <1>1, <1>3 DEF IdleSlot, Untouched, Unmoved

-----------------------------------------------------------------------------
(* Types.                                                                   *)

Windows == UNION {[1..k -> State] : k \in 0..(K + 1)}

LEMMA WindowTyped ==
  ASSUME launch \in Launches, NEW w \in Windows
  PROVE  w \in Seq(State) /\ Len(w) \in 0..(K + 1) /\ DOMAIN w = 1..Len(w)
<1>1. PICK k \in 0..(K + 1) : w \in [1..k -> State]
  BY DEF Windows
<1>2. k \in Nat
  BY Sizes
<1>3. QED
  BY <1>1, <1>2

LEMMA StateTyped ==
  ASSUME launch \in Launches, NEW s \in Slots, NEW n \in 0..MaxPos
  PROVE  After(s, n) \in State /\ Junk \in State /\ After(s, n) # Junk
  BY Sizes DEF State, After, Junk, Slots

LEMMA ColsTyped ==
  ASSUME launch \in Launches
  PROVE  /\ MaxPos \div BS \in Nat /\ Cols = 0..(MaxPos \div BS + K)
         /\ \A c \in Int : c >= 0 /\ End(c) < MaxPos + BS => c \in Cols /\ c <= MaxPos \div BS
<1>1. End(-1) = 0 /\ End(0) = End(-1) + BS
  <2>1. End(-1 + 1) = End(-1) + BS /\ End(-1) = 0
    BY EndInt
  <2>2. QED
    BY <2>1
<1>2. \A c \in Int : c >= 0 /\ End(c) < MaxPos + BS => c <= MaxPos \div BS /\ MaxPos \div BS \in Nat
  BY ColumnOf
<1>3. MaxPos \div BS \in Nat
  <2> DEFINE m == MaxPos \div BS
  <2>1. m \in Int /\ m - 1 \in Int /\ MaxPos < End(m - 1) + BS
    BY LastBlock, Division, Sizes
  <2> HIDE DEF m
  <2>2. End(-1) < End(m - 1) + BS
    BY <1>1, <2>1, Sizes, EndInt
  <2>3. -1 <= m - 1
    BY <2>1, <2>2, EndOrder
  <2>4. m \in Nat
    BY <2>1, <2>3
  <2>5. QED
    BY <2>4 DEF m
<1>4. QED
  BY <1>2, <1>3, Sizes DEF Cols

LEMMA Quiet ==
  ASSUME todo = {}
  PROVE  TodoOK /\ \A s : Rest(s) = {}
  BY DEF TodoOK, Rest

LEMMA QuietNext ==
  ASSUME todo' = {}
  PROVE  TodoOK' /\ \A s : Rest(s)' = {}
  BY DEF TodoOK, Rest

LEMMA PendingRunning ==
  ASSUME RelaysOK, NEW s, Pending(s)
  PROVE  plen[s] # 0
  BY DEF RelaysOK, Pending, RelayOK, Reach

-----------------------------------------------------------------------------
(* The initial state.                                                       *)

LEMMA InitInv == Init => IInv
<1> SUFFICES ASSUME Init PROVE IInv
  OBVIOUS
<1>1. launch \in Launches
  BY DEF Init
<1>2. MaxPos \div BS \in Nat
  BY <1>1, ColsTyped
<1>3. Len(queue) = Depth - 1 /\ DOMAIN queue = 1..(Depth - 1)
  BY <1>1, Sizes DEF Init
<1>4. \A i \in DOMAIN queue : queue[i] = <<>>
  BY <1>3 DEF Init
<1>5. IsEntry(<<>>)
  BY DEF IsEntry
<1>6. JunkConv \in [Cols -> Windows]
  <2>1. <<>> \in [1..0 -> State]
    OBVIOUS
  <2>2. 0 \in 0..(K + 1)
    BY <1>1, Sizes
  <2>3. <<>> \in Windows
    BY <2>1, <2>2 DEF Windows
  <2>4. QED
    BY <2>3 DEF JunkConv
<1>7. JunkTemporal \in [Cols -> State]
  BY DEF JunkTemporal, State
<1>8. TypeOK
  <2>1. 0 \in 0..MaxPos /\ 1 \in 1..(K + 1) /\ 0 \in -1..(MaxPos \div BS)
    BY <1>1, <1>2, Sizes
  <2>2. /\ plen \in [Slots -> 0..MaxPos] /\ computed \in [Slots -> 0..MaxPos]
        /\ acc \in [Slots -> 1..(K + 1)] /\ snap \in [Slots -> 1..(K + 1)]
        /\ col \in [Slots -> -1..(MaxPos \div BS)]
    BY <2>1 DEF Init
  <2>3. conv \in [Slots -> [Cols -> Windows]] /\ temporal \in [Slots -> [Cols -> State]]
    BY <1>6, <1>7 DEF Init
  <2>4. Len(queue) \in (Depth - 1)..Depth
    BY <1>1, <1>3, Sizes
  <2>5. IsEntry(entry) /\ \A i \in DOMAIN queue : IsEntry(queue[i])
    BY <1>4, <1>5 DEF Init
  <2>6. todo \subseteq (DOMAIN entry) \X Kinds
    BY DEF Init
  <2>7. QED
    BY <1>1, <2>2, <2>3, <2>4, <2>5, <2>6 DEF TypeOK, Windows
<1>9. QueueShape /\ RelaysOK /\ RelaysApart
  <2>1. \A i \in DOMAIN queue : DOMAIN queue[i] = {}
    BY <1>4
  <2>2. RelaysOK /\ RelaysApart
    BY <2>1 DEF RelaysOK, RelaysApart
  <2>3. queue = [i \in 1..(Depth - 1) |-> <<>>]
    BY DEF Init
  <2>4. [i \in 1..(Depth - 1) |-> queue[i]] = [i \in 1..(Depth - 1) |-> <<>>]
    BY <1>3, <1>4
  <2>5. QED
    BY <1>3, <2>2, <2>3, <2>4 DEF QueueShape
<1>10. TodoOK
  BY Quiet DEF Init
<1>11. IdleOK
  BY DEF IdleOK, Init
<1>12. QED
  BY <1>8, <1>9, <1>10, <1>11 DEF IInv

-----------------------------------------------------------------------------
(* Requests come and go.                                                    *)

LEMMA Typed ==
  ASSUME TypeOK
  PROVE  /\ launch \in Launches
         /\ plen \in [Slots -> 0..MaxPos] /\ computed \in [Slots -> 0..MaxPos]
         /\ acc \in [Slots -> 1..(K + 1)] /\ snap \in [Slots -> 1..(K + 1)]
         /\ col \in [Slots -> -1..(MaxPos \div BS)]
         /\ conv \in [Slots -> [Cols -> Windows]] /\ temporal \in [Slots -> [Cols -> State]]
         /\ Len(queue) \in (Depth - 1)..Depth
         /\ \A i \in DOMAIN queue : IsEntry(queue[i])
         /\ IsEntry(entry) /\ todo \subseteq (DOMAIN entry) \X Kinds
  BY DEF TypeOK, Windows

LEMMA TypedNext ==
  ASSUME launch \in Launches, launch' = launch,
         plen' \in [Slots -> 0..MaxPos], computed' \in [Slots -> 0..MaxPos],
         acc' \in [Slots -> 1..(K + 1)], snap' \in [Slots -> 1..(K + 1)],
         col' \in [Slots -> -1..(MaxPos \div BS)],
         conv' \in [Slots -> [Cols -> Windows]], temporal' \in [Slots -> [Cols -> State]],
         Len(queue') \in (Depth - 1)..Depth,
         \A i \in DOMAIN queue' : IsEntry(queue'[i]),
         IsEntry(entry'), todo' \subseteq (DOMAIN entry') \X Kinds
  PROVE  TypeOK'
<1>1. \A rows : IsEntry(rows)' <=> IsEntry(rows)
  BY SameLaunch DEF IsEntry
<1>2. (\A i \in DOMAIN queue : IsEntry(queue[i]))' /\ IsEntry(entry)'
  BY <1>1
<1>3. QED
  BY <1>1, <1>2, SameLaunch DEF TypeOK, Windows, Kinds

(* The column of the last cached block.                                     *)
LEMMA HitColumn ==
  ASSUME launch \in Launches, NEW hits \in Nat
  PROVE  /\ hits * BS \in Nat /\ End(hits - 1) = hits * BS
         /\ (hits * BS - 1) \div BS = hits - 1
<1> DEFINE x == hits * BS
           q == (x - 1) \div BS
<1>1. x \in Nat
  BY Sizes
<1>2. End(hits - 1) = x
  <2>1. (hits - 1) + 1 = hits
    OBVIOUS
  <2>2. QED
    BY <2>1 DEF End
<1> HIDE DEF x
<1>3. q \in Int /\ q * BS <= x - 1 /\ x - 1 < q * BS + BS /\ q * BS \in Int
  BY <1>1, Division
<1> HIDE DEF q
<1>4. End(q - 1) = q * BS
  <2>1. (q - 1) + 1 = q
    BY <1>3
  <2>2. QED
    BY <2>1 DEF End
<1>5. End(hits - 1) = End(hits - 2) + BS /\ End(q) = End(q - 1) + BS
  <2>1. \A c \in Int : End(c + 1) = End(c) + BS
    BY EndInt
  <2>2. hits - 2 \in Int /\ (hits - 2) + 1 = hits - 1 /\ q - 1 \in Int /\ (q - 1) + 1 = q
    BY <1>3
  <2>3. QED
    BY <2>1, <2>2
<1>6. q - 1 <= hits - 2
  <2>1. End(q - 1) < End(hits - 2) + BS
    BY <1>1, <1>2, <1>3, <1>4, <1>5
  <2>2. QED
    BY <1>3, <2>1, EndOrder
<1>7. hits - 1 <= q
  <2>1. End(hits - 1) < End(q) + BS
    BY <1>1, <1>2, <1>3, <1>4, <1>5, Sizes
  <2>2. QED
    BY <1>3, <2>1, EndOrder
<1>8. q = hits - 1
  BY <1>3, <1>6, <1>7
<1>9. QED
  BY <1>1, <1>2, <1>8 DEF x, q

LEMMA AdmitInv ==
  ASSUME IInv, NEW s \in Slots, NEW hits \in 0..MaxPos, NEW len \in 0..MaxPos,
         Admit(s, hits, len)
  PROVE  IInv'
<1>1. TypeOK /\ launch \in Launches /\ launch' = launch
  BY Typed DEF IInv, Admit
<1> DEFINE c == hits - 1
<1>a. hits \in Nat /\ hits * BS \in Nat
  BY <1>1, Sizes
<1>b. PICK x \in Nat : x = hits * BS
  BY <1>a
<1>2. /\ c \in Int /\ c = hits - 1 /\ (hits > 0 => x > 0)
      /\ hits \in Nat /\ len \in Nat /\ x \in 0..MaxPos /\ x < len /\ len <= MaxPos
      /\ End(c) = x /\ (x - 1) \div BS = c
  <2>1. hits \in Nat /\ len \in Nat /\ len <= MaxPos
    BY <1>1, Sizes
  <2>2. x < len
    BY <1>b DEF Admit
  <2>3. End(c) = x /\ (x - 1) \div BS = c
    BY <1>1, <1>b, <2>1, HitColumn
  <2>4. hits > 0 => x > 0
    BY <1>1, <1>b, Sizes
  <2>5. QED
    BY <1>1, <2>1, <2>2, <2>3, <2>4, Sizes
<1> HIDE DEF c
<1>3. hits > 0 => c \in Cols /\ c <= MaxPos \div BS
  BY <1>1, <1>2, ColsTyped, Sizes
<1>4. MaxPos \div BS \in Nat /\ BS \in Nat \ {0} /\ K \in Nat
  BY <1>1, ColsTyped, Sizes
<1> DEFINE window == [d \in Cols |-> IF d = c THEN <<After(s, x)>> ELSE <<>>]
           states == [d \in Cols |-> IF d = c THEN After(s, x) ELSE Junk]
<1>5. /\ plen' = [plen EXCEPT ![s] = len] /\ computed' = [computed EXCEPT ![s] = x]
      /\ acc' = [acc EXCEPT ![s] = 1] /\ col' = [col EXCEPT ![s] = c]
      /\ conv' = [conv EXCEPT ![s] = window] /\ temporal' = [temporal EXCEPT ![s] = states]
      /\ queue' = queue /\ entry' = entry /\ snap' = snap /\ todo' = {} /\ todo = {}
      /\ plen[s] = 0
  BY <1>2, <1>b DEF Admit, Ready, c
<1>6. After(s, x) \in State /\ Junk \in State /\ After(s, x) # Junk
  BY <1>1, <1>2, StateTyped
<1>7. window \in [Cols -> Windows] /\ states \in [Cols -> State]
  <2>1. <<>> \in [1..0 -> State] /\ <<After(s, x)>> \in [1..1 -> State]
    BY <1>6
  <2>2. 0 \in 0..(K + 1) /\ 1 \in 0..(K + 1)
    BY <1>4
  <2>3. <<>> \in Windows /\ <<After(s, x)>> \in Windows
    BY <2>1, <2>2 DEF Windows
  <2>4. QED
    BY <1>6, <2>3
<1>8. TypeOK'
  <2>1. c \in -1..(MaxPos \div BS)
    BY <1>2, <1>3, <1>4
  <2>2. 1 \in 1..(K + 1)
    BY <1>4
  <2> HIDE DEF window, states
  <2>3. QED
    BY <1>1, <1>2, <1>5, <1>7, <2>1, <2>2, Typed, TypedNext
<1>9. QueueShape' /\ RelaysApart'
  BY <1>5 DEF IInv, QueueShape, RelaysApart
<1>10. \A y \in Slots \ {s} : Untouched(y)
  <2> HIDE DEF window, states
  <2>1. QED
    BY <1>1, <1>5, Typed DEF Untouched, Unmoved
<1>11. \A i \in DOMAIN queue : \A j \in DOMAIN queue[i] : queue[i][j] \in Rows /\ queue[i][j].s \in Slots \ {s}
  <2> SUFFICES ASSUME NEW i \in DOMAIN queue, NEW j \in DOMAIN queue[i]
               PROVE  queue[i][j] \in Rows /\ queue[i][j].s \in Slots \ {s}
    OBVIOUS
  <2>1. queue[i][j] \in Rows /\ queue[i][j].s \in Slots
    BY <1>1, Typed DEF IsEntry, Rows
  <2>2. Pending(queue[i][j].s)
    BY DEF Pending
  <2>3. plen[queue[i][j].s] # 0
    BY <2>2, PendingRunning DEF IInv
  <2>4. QED
    BY <1>5, <2>1, <2>3
<1>12. RelaysOK'
  BY <1>5, <1>10, <1>11, SameRelay DEF IInv, RelaysOK
<1>13. TodoOK' /\ \A y : Rest(y)' = {} /\ Rest(y) = {}
  BY <1>5, Quiet, QuietNext
<1>14. IdleSlot(s)'
  <2>1. Cols' = Cols /\ \A d : End(d)' = End(d)
    BY <1>1, SameLaunch
  <2>2. plen'[s] = len /\ computed'[s] = x /\ acc'[s] = 1 /\ col'[s] = c
        /\ conv'[s] = window /\ temporal'[s] = states
    <3> HIDE DEF window, states
    <3>1. QED
      BY <1>1, <1>5, Typed
  <2>3. ASSUME NEW kind \in Kinds, x > 0 PROVE Found(kind, s, c, 0)' = After(s, x)
    <3>1. hits > 0
      BY <1>1, <1>b, <2>3, Sizes
    <3>2. c \in Cols /\ c \in Int /\ c + 0 = c
      BY <1>2, <1>3, <3>1
    <3>3. At(conv'[s][c], 0) = After(s, x) /\ temporal'[s][c] = After(s, x)
      BY <2>2, <3>2 DEF At
    <3>4. QED
      BY <2>1, <3>2, <3>3 DEF Found, InWindows, InStates
  <2>4. ASSUME NEW kind \in Kinds PROVE Saved(kind, s, x)'
    <3>1. \A d \in Cols : End(d) \in Int
      BY <1>1, <1>4, EndInt, ColsTyped
    <3>2. QED
      BY <1>2, <2>1, <2>2, <3>1 DEF Saved
  <2>5. Selects(s)' = 1
    BY <1>13, <2>2 DEF Selects
  <2>6. ASSUME NEW kind \in Kinds PROVE Exactly(kind, s)'
    BY <1>2, <2>2, <2>3, <2>4, <2>5 DEF Exactly
  <2>7. (x = 0 => c = -1) /\ (x > 0 => c >= 0)
    BY <1>2, <1>4
  <2>8. QED
    BY <1>13, <2>2, <2>6, <2>7 DEF IdleSlot, Kinds
<1>15. IdleOK'
  <2> SUFFICES ASSUME NEW y \in Slots', plen'[y] # 0, ~Pending(y)' PROVE IdleSlot(y)'
    BY DEF IdleOK
  <2>1. y \in Slots
    BY <1>1, SameLaunch
  <2>2. CASE y = s
    BY <1>14, <2>2
  <2>3. CASE y # s
    <3>1. Untouched(y) /\ acc'[y] = acc[y] /\ snap'[y] = snap[y]
      BY <1>1, <1>5, <1>10, <2>1, <2>3, Typed
    <3>2. ~Pending(y) /\ plen[y] # 0
      BY <1>5, <3>1 DEF Pending, Untouched, Unmoved
    <3>3. QED
      BY <1>13, <2>1, <3>1, <3>2, SameIdle DEF IInv, IdleOK
  <2>4. QED
    BY <2>2, <2>3
<1>16. QED
  BY <1>8, <1>9, <1>12, <1>13, <1>15 DEF IInv

LEMMA QueueDomain ==
  ASSUME IInv
  PROVE  Len(queue) \in Nat /\ DOMAIN queue = 1..Len(queue)
<1>1. Len(queue) \in Nat
  BY Typed, Sizes DEF IInv
<1>2. QED
  BY <1>1 DEF IInv, QueueShape

LEMMA QueueSeq ==
  ASSUME IInv, queue # <<>>
  PROVE  /\ Head(queue) = queue[1]
         /\ Len(Tail(queue)) = Len(queue) - 1 /\ DOMAIN Tail(queue) = 1..(Len(queue) - 1)
         /\ \A i \in 1..(Len(queue) - 1) : Tail(queue)[i] = queue[i + 1]
         /\ Tail(queue) = [i \in 1..(Len(queue) - 1) |-> Tail(queue)[i]]
<1> DEFINE E == {queue[i] : i \in DOMAIN queue}
<1>1. queue \in Seq(E)
  <2>1. queue = [i \in 1..Len(queue) |-> queue[i]] /\ Len(queue) \in Nat
    BY QueueDomain DEF IInv, QueueShape
  <2>2. \A i \in 1..Len(queue) : queue[i] \in E
    BY QueueDomain
  <2> HIDE DEF E
  <2>3. queue \in [1..Len(queue) -> E]
    BY <2>1, <2>2
  <2>4. QED
    BY <2>1, <2>3
<1> HIDE DEF E
<1>2. Tail(queue) \in Seq(E) /\ Len(Tail(queue)) = Len(queue) - 1
      /\ \A i \in 1..(Len(queue) - 1) : Tail(queue)[i] = queue[i + 1]
  BY <1>1
<1>3. DOMAIN Tail(queue) = 1..(Len(queue) - 1)
  BY <1>2
<1>4. Head(queue) = queue[1]
  BY <1>1
<1>5. Tail(queue) = [i \in 1..(Len(queue) - 1) |-> Tail(queue)[i]]
  <2> DEFINE t == Tail(queue)
  <2>1. t \in Seq(E) /\ DOMAIN t = 1..(Len(queue) - 1)
    BY <1>2, <1>3
  <2> HIDE DEF t
  <2>2. t = [i \in DOMAIN t |-> t[i]]
    BY <2>1
  <2>3. t = [i \in 1..(Len(queue) - 1) |-> t[i]]
    BY <2>1, <2>2
  <2>4. QED
    BY <2>3 DEF t
<1>6. QED
  BY <1>2, <1>3, <1>4, <1>5

LEMMA RowTyped ==
  ASSUME launch \in Launches, NEW rows, IsEntry(rows), NEW i \in DOMAIN rows
  PROVE  rows[i] \in Rows /\ rows[i].s \in Slots
  BY DEF IsEntry, Rows

LEMMA ReleaseInv ==
  ASSUME IInv, NEW s \in Slots, Release(s)
  PROVE  IInv'
<1>1. TypeOK /\ launch \in Launches /\ launch' = launch
  BY Typed DEF IInv, Release
<1>2. /\ plen' = [plen EXCEPT ![s] = 0] /\ computed' = [computed EXCEPT ![s] = 0]
      /\ conv' = [conv EXCEPT ![s] = JunkConv] /\ temporal' = [temporal EXCEPT ![s] = JunkTemporal]
      /\ queue' = [i \in DOMAIN queue |-> Masked(queue[i], s)]
      /\ col' = col /\ acc' = acc /\ entry' = entry /\ snap' = snap /\ todo' = {} /\ todo = {}
  BY DEF Release, Ready
<1>3. DOMAIN queue = 1..Len(queue) /\ Len(queue) \in Nat
  BY QueueDomain
<1>4. DOMAIN queue' = DOMAIN queue /\ Len(queue') = Len(queue)
  BY <1>2, <1>3
<1>5. ASSUME NEW i \in DOMAIN queue
      PROVE  /\ DOMAIN queue'[i] = {j \in DOMAIN queue[i] : queue[i][j].s # s}
             /\ \A j \in DOMAIN queue'[i] : queue'[i][j] = queue[i][j]
             /\ IsEntry(queue'[i])
  <2>1. queue'[i] = Masked(queue[i], s)
    BY <1>2
  <2>2. IsEntry(queue[i])
    BY <1>1, Typed
  <2>3. QED
    BY <2>1, <2>2 DEF Masked, IsEntry
<1>6. TypeOK'
  <2>1. 0 \in 0..MaxPos
    BY <1>1, Sizes
  <2>2. JunkTemporal \in [Cols -> State]
    BY DEF JunkTemporal, State
  <2>3. JunkConv \in [Cols -> Windows]
    <3>1. <<>> \in [1..0 -> State] /\ 0 \in 0..(K + 1)
      BY <1>1, Sizes
    <3>2. <<>> \in Windows
      BY <3>1 DEF Windows
    <3>3. QED
      BY <3>2 DEF JunkConv
  <2>4. \A i \in DOMAIN queue' : IsEntry(queue'[i])
    BY <1>4, <1>5
  <2>5. QED
    BY <1>1, <1>2, <1>4, <2>1, <2>2, <2>3, <2>4, Typed, TypedNext
<1>7. QueueShape'
  BY <1>2, <1>3, <1>4 DEF QueueShape
<1>8. RelaysApart'
  <2> SUFFICES ASSUME NEW i \in DOMAIN queue, NEW k \in DOMAIN queue,
                      NEW j \in DOMAIN queue'[i], NEW l \in DOMAIN queue'[k],
                      queue'[i][j].s = queue'[k][l].s
               PROVE  i = k /\ j = l
    BY <1>4 DEF RelaysApart
  <2>1. j \in DOMAIN queue[i] /\ l \in DOMAIN queue[k] /\ queue[i][j].s = queue[k][l].s
    BY <1>5
  <2>2. QED
    BY <2>1 DEF IInv, RelaysApart
<1>9. \A y \in Slots \ {s} : Untouched(y)
  BY <1>1, <1>2, Typed DEF Untouched, Unmoved
<1>10. RelaysOK'
  <2> SUFFICES ASSUME NEW i \in DOMAIN queue, NEW j \in DOMAIN queue'[i]
               PROVE  RelayOK(queue[i][j])'
    BY <1>4 DEF RelaysOK
  <2>1. j \in DOMAIN queue[i] /\ queue'[i][j] = queue[i][j] /\ queue[i][j].s # s
    BY <1>5
  <2>2. Untouched(queue[i][j].s)
    BY <1>1, <1>9, <2>1, Typed, RowTyped
  <2>3. RelayOK(queue[i][j])
    BY <2>1 DEF IInv, RelaysOK
  <2> DEFINE row == queue[i][j]
  <2>4. PICK r : r = row
    OBVIOUS
  <2>5. RelayOK(r)'
    BY <2>2, <2>3, <2>4, SameRelay
  <2>6. QED
    BY <2>1, <2>4, <2>5
<1>11. TodoOK' /\ \A y : Rest(y)' = {} /\ Rest(y) = {}
  BY <1>2, Quiet, QuietNext
<1>12. IdleOK'
  <2> SUFFICES ASSUME NEW y \in Slots', plen'[y] # 0, ~Pending(y)' PROVE IdleSlot(y)'
    BY DEF IdleOK
  <2>1. y \in Slots \ {s}
    <3>1. y \in Slots
      BY <1>1, SameLaunch
    <3>2. plen'[s] = 0
      BY <1>1, <1>2, Typed
    <3>3. QED
      BY <3>1, <3>2
  <2>2. Untouched(y) /\ acc'[y] = acc[y] /\ snap'[y] = snap[y] /\ plen[y] # 0
    BY <1>2, <1>9, <2>1 DEF Untouched, Unmoved
  <2>3. ~Pending(y)
    <3> SUFFICES ASSUME NEW i \in DOMAIN queue, NEW j \in DOMAIN queue[i], queue[i][j].s = y
                 PROVE  FALSE
      BY DEF Pending
    <3>1. j \in DOMAIN queue'[i] /\ queue'[i][j].s = y
      BY <1>5, <2>1
    <3>2. QED
      BY <1>4, <3>1 DEF Pending
  <2>4. IdleSlot(y)
    BY <2>1, <2>2, <2>3 DEF IInv, IdleOK
  <2>5. QED
    BY <1>11, <2>2, <2>4, SameIdle
<1>13. QED
  BY <1>6, <1>7, <1>8, <1>10, <1>11, <1>12 DEF IInv

-----------------------------------------------------------------------------
(* The postprocess begins.                                                  *)

LEMMA RowOfIs ==
  ASSUME NEW rows, NEW j \in DOMAIN rows, \A k \in DOMAIN rows : rows[k].s = rows[j].s => k = j
  PROVE  RowOf(rows, rows[j].s) = rows[j]
<1> DEFINE s == rows[j].s
           k == CHOOSE i \in DOMAIN rows : rows[i].s = s
<1>1. k \in DOMAIN rows /\ rows[k].s = s
  OBVIOUS
<1>2. k = j
  BY <1>1
<1>3. QED
  BY <1>2 DEF RowOf

LEMMA RowCounts ==
  ASSUME launch \in Launches, NEW row \in Rows, RowOK(row)
  PROVE  /\ row.n \in 1..MaxPos /\ row.keep \in 1..row.n
         /\ Accepted(row.sampled) \in 1..(K + 1)
         /\ Rejected(row) = row.n - row.keep /\ Rejected(row) \in Nat
         /\ row.d = 0 => Accepted(row.sampled) = 1
         /\ row.d # 0 => row.d = K /\ row.n = K + 1 /\ Accepted(row.sampled) = row.keep
<1>1. K \in Nat \ {0} /\ MaxPos \in Nat
  BY Sizes
<1>2. /\ row.n \in 1..MaxPos /\ row.keep \in 1..MaxPos /\ row.sampled \in 0..(K + 1)
      /\ row.d \in {0, K}
  BY DEF Rows
<1>3. CASE row.d = 0
  <2>1. row.keep = row.n /\ row.sampled \in {0, 1}
    BY <1>1, <1>2, <1>3 DEF RowOK
  <2>2. QED
    BY <1>1, <1>2, <1>3, <2>1 DEF Accepted, Rejected
<1>4. CASE row.d = K
  <2>1. row.n = K + 1 /\ row.sampled = row.keep
    BY <1>1, <1>2, <1>4 DEF RowOK
  <2>2. QED
    BY <1>1, <1>2, <1>4, <2>1 DEF Accepted, Rejected
<1>5. QED
  BY <1>2, <1>3, <1>4

LEMMA ConsumeInv ==
  ASSUME IInv, Consume
  PROVE  IInv'
<1>1. TypeOK /\ launch \in Launches /\ launch' = launch
  BY Typed DEF IInv, Consume
<1>2. DOMAIN queue = 1..Depth /\ Len(queue) = Depth /\ Depth \in Nat \ {0}
  BY <1>1, Sizes, QueueDomain DEF Consume
<1>a. PICK rows : rows = queue[1]
  OBVIOUS
<1>b. queue # <<>>
  BY <1>2
<1> DEFINE In(s) == \E i \in DOMAIN rows : rows[i].s = s
<1>3. Head(queue) = rows
  BY <1>a, <1>b, QueueSeq
<1>4. 1 \in DOMAIN queue /\ IsEntry(rows)
  <2>1. 1 \in DOMAIN queue
    BY <1>2
  <2>2. IsEntry(queue[1])
    BY <1>1, <2>1, Typed
  <2>3. QED
    BY <1>a, <2>1, <2>2
<1>5. \A i \in DOMAIN rows :
        /\ rows[i] \in Rows /\ rows[i].s \in Slots
        /\ RelayOK(rows[i])
        /\ RowOf(rows, rows[i].s) = rows[i]
        /\ \A k \in DOMAIN rows : rows[k].s = rows[i].s => k = i
  <2> SUFFICES ASSUME NEW i \in DOMAIN rows
               PROVE  /\ rows[i] \in Rows /\ rows[i].s \in Slots
                      /\ RelayOK(rows[i])
                      /\ RowOf(rows, rows[i].s) = rows[i]
                      /\ \A k \in DOMAIN rows : rows[k].s = rows[i].s => k = i
    OBVIOUS
  <2>1. rows[i] \in Rows /\ rows[i].s \in Slots
    BY <1>1, <1>4, RowTyped
  <2>2. RelayOK(rows[i])
    BY <1>4, <1>a DEF IInv, RelaysOK
  <2>3. \A k \in DOMAIN rows : rows[k].s = rows[i].s => k = i
    BY <1>4, <1>a DEF IInv, RelaysApart
  <2>4. RowOf(rows, rows[i].s) = rows[i]
    BY <2>3, RowOfIs
  <2>5. QED
    BY <2>1, <2>2, <2>3, <2>4
<1>6. /\ computed' = [s \in Slots |-> IF In(s) THEN computed[s] - Rejected(RowOf(rows, s))
                                      ELSE computed[s]]
      /\ acc' = [s \in Slots |-> IF In(s) THEN Accepted(RowOf(rows, s).sampled) ELSE acc[s]]
      /\ snap' = acc' /\ entry' = rows /\ todo' = (DOMAIN rows) \X Kinds /\ todo = {}
      /\ queue' = Tail(queue)
      /\ plen' = plen /\ col' = col /\ conv' = conv /\ temporal' = temporal
  BY <1>3 DEF Consume
<1> HIDE DEF In
<1>7. ASSUME NEW s \in Slots, ~In(s)
      PROVE  Untouched(s) /\ acc'[s] = acc[s]
  BY <1>1, <1>6, <1>7 DEF Untouched, Unmoved
<1>8. ASSUME NEW i \in DOMAIN rows
      PROVE  /\ computed'[rows[i].s] = Stays(rows[i])
             /\ acc'[rows[i].s] = Accepted(rows[i].sampled)
             /\ Unmoved(rows[i].s)
             /\ Reach(rows[i].s, Accepted(rows[i].sampled), Stays(rows[i]))
             /\ \A kind \in Kinds :
                  Unsaved(kind, rows[i].s, Accepted(rows[i].sampled), Stays(rows[i]))
  <2>1. In(rows[i].s)
    BY DEF In
  <2>2. rows[i].s \in Slots /\ RowOf(rows, rows[i].s) = rows[i] /\ RelayOK(rows[i])
    BY <1>5
  <2>3. QED
    BY <1>1, <1>6, <2>1, <2>2 DEF RelayOK, Stays, Unmoved
<1>9. ASSUME NEW i \in DOMAIN rows
      PROVE  Stays(rows[i]) \in 1..MaxPos /\ Accepted(rows[i].sampled) \in 1..(K + 1)
  <2>1. rows[i] \in Rows /\ RowOK(rows[i]) /\ rows[i].s \in Slots
    BY <1>5 DEF RelayOK
  <2>2. Accepted(rows[i].sampled) \in 1..(K + 1) /\ Rejected(rows[i]) \in Nat
    BY <1>1, <2>1, RowCounts
  <2>3. computed[rows[i].s] \in 0..MaxPos
    BY <1>1, <2>1, Typed
  <2>4. Accepted(rows[i].sampled) <= Stays(rows[i])
    BY <1>8 DEF Reach
  <2>5. K \in Nat /\ MaxPos \in Nat
    BY <1>1, Sizes
  <2>6. QED
    BY <2>2, <2>3, <2>4, <2>5 DEF Stays
<1>10. DOMAIN queue' = 1..(Depth - 1) /\ Len(queue') = Depth - 1
       /\ \A i \in 1..(Depth - 1) : queue'[i] = queue[i + 1] /\ i + 1 \in DOMAIN queue
  BY <1>2, <1>6, <1>b, QueueSeq
<1>11. TypeOK'
  <2>1. computed' \in [Slots -> 0..MaxPos] /\ acc' \in [Slots -> 1..(K + 1)]
    <3>1. ASSUME NEW s \in Slots PROVE computed'[s] \in 0..MaxPos /\ acc'[s] \in 1..(K + 1)
      <4>1. CASE In(s)
        <5>1. PICK i \in DOMAIN rows : rows[i].s = s
          BY <4>1 DEF In
        <5>2. QED
          BY <1>8, <1>9, <5>1
      <4>2. CASE ~In(s)
        BY <1>1, <1>7, <4>2, Typed DEF Untouched, Unmoved
      <4>3. QED
        BY <4>1, <4>2
    <3>2. QED
      BY <1>6, <3>1
  <2>2. \A i \in DOMAIN queue' : IsEntry(queue'[i])
    BY <1>1, <1>10, Typed
  <2>3. Len(queue') \in (Depth - 1)..Depth
    BY <1>2, <1>10
  <2>4. QED
    BY <1>1, <1>4, <1>6, <2>1, <2>2, <2>3, Typed, TypedNext
<1>12. QueueShape'
  <2>1. queue' = [i \in 1..(Depth - 1) |-> queue'[i]]
    BY <1>2, <1>6, <1>b, QueueSeq
  <2>2. QED
    BY <1>10, <2>1 DEF QueueShape
<1>13. RelaysApart'
  <2> SUFFICES ASSUME NEW i \in DOMAIN queue', NEW k \in DOMAIN queue',
                      NEW j \in DOMAIN queue'[i], NEW l \in DOMAIN queue'[k],
                      queue'[i][j].s = queue'[k][l].s
               PROVE  i = k /\ j = l
    BY DEF RelaysApart
  <2>1. i \in Nat /\ k \in Nat /\ i + 1 \in DOMAIN queue /\ k + 1 \in DOMAIN queue
        /\ queue'[i] = queue[i + 1] /\ queue'[k] = queue[k + 1]
    BY <1>2, <1>10
  <2>2. i + 1 = k + 1 /\ j = l
    BY <2>1 DEF IInv, RelaysApart
  <2>3. QED
    BY <2>1, <2>2
<1>14. ASSUME NEW i \in DOMAIN queue', NEW j \in DOMAIN queue'[i]
       PROVE  /\ ~In(queue'[i][j].s) /\ queue'[i][j].s \in Slots
              /\ RelayOK(queue'[i][j]) /\ Untouched(queue'[i][j].s)
  <2>1. i \in Nat \ {0} /\ i + 1 \in DOMAIN queue /\ queue'[i] = queue[i + 1]
    BY <1>2, <1>10
  <2>2. ~In(queue'[i][j].s)
    <3> SUFFICES ASSUME NEW k \in DOMAIN rows, rows[k].s = queue[i + 1][j].s PROVE FALSE
      BY <2>1 DEF In
    <3>1. 1 = i + 1
      BY <1>4, <1>a, <2>1 DEF IInv, RelaysApart
    <3>2. QED
      BY <2>1, <3>1
  <2>3. queue'[i][j].s \in Slots
    BY <1>1, <2>1, Typed, RowTyped
  <2>4. RelayOK(queue'[i][j])
    BY <2>1 DEF IInv, RelaysOK
  <2>5. QED
    BY <1>7, <2>2, <2>3, <2>4
<1>15. RelaysOK'
  <2> SUFFICES ASSUME NEW i \in DOMAIN queue', NEW j \in DOMAIN queue'[i]
               PROVE  RelayOK(queue[i][j])'
    BY DEF RelaysOK
  <2>1. PICK r : r = queue'[i][j]
    OBVIOUS
  <2>2. RelayOK(r)'
    BY <1>14, <2>1, SameRelay
  <2>3. QED
    BY <2>1, <2>2
<1>16. ASSUME NEW i \in DOMAIN rows PROVE ~Pending(rows[i].s)'
  <2> SUFFICES ASSUME NEW k \in DOMAIN queue', NEW j \in DOMAIN queue'[k],
                      queue'[k][j].s = rows[i].s
               PROVE  FALSE
    BY DEF Pending
  <2>1. QED
    BY <1>14 DEF In
<1>17. TodoOK'
  <2> SUFFICES ASSUME NEW i \in DOMAIN rows, NEW kind \in Kinds
               PROVE  /\ ~Pending(rows[i].s)'
                      /\ Reach(rows[i].s, snap[rows[i].s], computed[rows[i].s])'
                      /\ Unsaved(kind, rows[i].s, snap[rows[i].s], computed[rows[i].s])'
                      /\ \A k \in DOMAIN rows : rows[k].s = rows[i].s => k = i
    BY <1>6 DEF TodoOK, Kinds
  <2>1. QED
    BY <1>5, <1>6, <1>8, <1>16, SameUnsaved
<1>18. IdleOK'
  <2> SUFFICES ASSUME NEW y \in Slots, plen'[y] # 0, ~Pending(y)' PROVE IdleSlot(y)'
    BY <1>1, SameLaunch DEF IdleOK
  <2>1. CASE In(y)
    <3>1. PICK i \in DOMAIN rows : rows[i].s = y
      BY <2>1 DEF In
    <3>2. Rest(y)' = Kinds
      BY <1>6, <3>1 DEF Rest, Kinds
    <3>3. computed'[y] \in 1..MaxPos /\ col'[y] >= 0
      BY <1>6, <1>8, <1>9, <3>1 DEF Reach
    <3>4. MaxPos \in Nat
      BY <1>1, Sizes
    <3>5. "conv" \in Rest(y)' /\ acc'[y] = snap'[y] /\ (Kinds \ Rest(y))' = {}
      BY <1>6, <3>2 DEF Kinds
    <3>6. QED
      BY <3>3, <3>4, <3>5 DEF IdleSlot
  <2>2. CASE ~In(y)
    <3>1. Untouched(y) /\ acc'[y] = acc[y] /\ plen[y] # 0
      BY <1>7, <2>2 DEF Untouched, Unmoved
    <3>2. Rest(y) = {} /\ Rest(y)' = {}
      BY <1>6, <2>2, Quiet DEF Rest, In
    <3>3. ~Pending(y)
      <4> SUFFICES ASSUME NEW i \in DOMAIN queue, NEW j \in DOMAIN queue[i], queue[i][j].s = y
                   PROVE  FALSE
        BY DEF Pending
      <4>1. i # 1
        BY <1>a, <2>2 DEF In
      <4>2. i - 1 \in 1..(Depth - 1) /\ (i - 1) + 1 = i
        BY <1>2, <4>1
      <4>3. queue'[i - 1] = queue[i]
        BY <1>10, <4>2
      <4>4. QED
        BY <1>10, <4>2, <4>3 DEF Pending
    <3>4. IdleSlot(y)
      BY <3>1, <3>3 DEF IInv, IdleOK
    <3>5. QED
      BY <3>1, <3>2, <3>4, SameIdle
  <2>3. QED
    BY <2>1, <2>2
<1>19. QED
  BY <1>11, <1>12, <1>13, <1>15, <1>17, <1>18 DEF IInv

-----------------------------------------------------------------------------
(* The programs of a postprocess.                                           *)

(* Where the last full block ends, relative to the states a batch left.     *)
LEMMA Boundary ==
  ASSUME TypeOK, NEW s \in Slots, Reach(s, snap[s], computed[s])
  PROVE  /\ computed[s] \in 1..MaxPos /\ snap[s] \in 1..(K + 1) /\ snap[s] <= computed[s]
         /\ RunningTokens(s) = computed[s] - snap[s] + 1
         /\ col[s] \in Nat /\ col[s] \in Int /\ End(col[s]) \in Int /\ computed[s] <= End(col[s])
         /\ Dest(s) \in Int /\ End(Dest(s)) \in Int /\ Aligned(s) = End(Dest(s))
         /\ End(Dest(s)) <= computed[s] /\ computed[s] < End(Dest(s)) + BS
         /\ Dest(s) <= col[s]
         /\ NeedsCopy(s) => Dest(s) \in Cols
<1>1. launch \in Launches /\ K \in Nat /\ BS \in Nat \ {0} /\ MaxPos \in Nat
  BY Typed, Sizes
<1>2. computed[s] \in 0..MaxPos /\ snap[s] \in 1..(K + 1) /\ col[s] \in -1..(MaxPos \div BS)
  BY Typed
<1>3. MaxPos \div BS \in Nat
  BY <1>1, ColsTyped
<1>4. col[s] \in Nat /\ snap[s] <= computed[s] /\ computed[s] <= End(col[s])
  BY <1>2, <1>3 DEF Reach
<1>5. computed[s] \in 1..MaxPos /\ computed[s] \in Nat
  BY <1>1, <1>2, <1>4
<1>6. PICK n \in Nat : n = computed[s]
  BY <1>5
<1>7. /\ n \div BS - 1 \in Int /\ (n \div BS) * BS = End(n \div BS - 1)
      /\ End(n \div BS - 1) <= n /\ n < End(n \div BS - 1) + BS
  BY <1>1, LastBlock
<1>8. PICK q \in Int : q = n \div BS - 1
  BY <1>7
<1>9. n \div BS = q + 1 /\ (q + 1) * BS = End(q)
  BY <1>1, <1>8, Division DEF End
<1>10. Aligned(s) = End(q) /\ End(q) \in Int
  BY <1>1, <1>6, <1>7, <1>8, EndInt DEF Aligned
<1>11. Dest(s) = q
  <2>1. Dest(s) = ((n \div BS) * BS) \div BS - 1
    BY <1>6 DEF Dest, Aligned
  <2>2. n \div BS \in Nat
    <3>1. End(-1) < End(q) + BS
      <4>1. End(-1) = 0
        BY <1>1, EndInt
      <4>2. QED
        BY <1>1, <1>7, <1>8, <1>10, <4>1
    <3>2. -1 <= q
      BY <1>1, <3>1, EndOrder
    <3>3. QED
      BY <1>9, <3>2
  <2>3. PICK h \in Nat : h = n \div BS
    BY <2>2
  <2>4. (h * BS) \div BS = h
    <3> DEFINE x == h * BS
               p == x \div BS
    <3>1. x \in Nat
      BY <1>1
    <3>2. p \in Int /\ p * BS \in Int /\ p * BS <= x /\ x < p * BS + BS
      BY <1>1, <3>1, Division
    <3> HIDE DEF p
    <3>3. End(p - 1) = p * BS /\ End(h - 1) = x /\ p - 1 \in Int /\ h - 1 \in Int
      <4>1. (p - 1) + 1 = p /\ (h - 1) + 1 = h /\ p - 1 \in Int /\ h - 1 \in Int
        BY <3>2
      <4>2. QED
        BY <4>1 DEF End
    <3> HIDE DEF x
    <3>4. End(p - 1) < End(h - 1) + BS /\ End(h - 1) < End(p - 1) + BS
      BY <1>1, <3>1, <3>2, <3>3
    <3>5. p - 1 <= h - 1 /\ h - 1 <= p - 1
      BY <1>1, <3>3, <3>4, EndOrder
    <3>6. p = h
      BY <3>2, <3>5
    <3>7. QED
      BY <3>6 DEF p, x
  <2>5. Dest(s) = h - 1
    BY <2>1, <2>3, <2>4
  <2>6. QED
    BY <1>8, <2>3, <2>5
<1>12. RunningTokens(s) = computed[s] - snap[s] + 1
  BY DEF RunningTokens, Decision
<1>13. End(col[s]) \in Int
  BY <1>1, <1>4, EndInt
<1>14. q <= col[s]
  <2>1. End(q) < End(col[s]) + BS
    BY <1>1, <1>4, <1>6, <1>7, <1>8, <1>10, <1>13
  <2>2. QED
    BY <1>1, <1>4, <2>1, EndOrder
<1>15. NeedsCopy(s) => q \in Cols
  <2> SUFFICES ASSUME NeedsCopy(s) PROVE q \in Cols
    OBVIOUS
  <2>1. End(q) >= computed[s] - snap[s] + 1
    BY <1>10, <1>12 DEF NeedsCopy
  <2>2. End(q) >= 1
    BY <1>2, <1>4, <1>5, <1>10, <2>1
  <2>3. End(-1) = 0
    BY <1>1, EndInt
  <2>4. End(-1) < End(q) + BS
    BY <1>1, <1>10, <2>2, <2>3
  <2>5. -1 <= q /\ q # -1
    BY <1>1, <2>2, <2>3, <2>4, EndOrder
  <2>6. End(q) < MaxPos + BS
    BY <1>1, <1>5, <1>6, <1>7, <1>8, <1>10
  <2>7. QED
    BY <1>1, <2>5, <2>6, ColsTyped
<1>16. QED
  BY <1>2, <1>4, <1>5, <1>6, <1>7, <1>8, <1>10, <1>11, <1>12, <1>13, <1>14, <1>15

LEMMA AtShift ==
  ASSUME launch \in Launches, NEW w \in Windows, NEW b \in Nat
  PROVE  /\ SubSeq(w, b + 1, Len(w)) \in Windows
         /\ \A j \in Nat : At(SubSeq(w, b + 1, Len(w)), j) = At(w, b + j)
<1> DEFINE v == SubSeq(w, b + 1, Len(w))
           k == IF b + 1 <= Len(w) THEN Len(w) - b ELSE 0
<1>1. w \in Seq(State) /\ Len(w) \in 0..(K + 1) /\ DOMAIN w = 1..Len(w) /\ K \in Nat
  BY WindowTyped, Sizes
<1>2. Len(w) \in Nat /\ Len(w) <= K + 1
  BY <1>1
<1>3. k \in Nat /\ k \in 0..(K + 1) /\ k <= Len(w)
  BY <1>1, <1>2
<1>4. v = [i \in 1..k |-> w[i + b]]
  <2>1. \A i \in 1..(Len(w) - (b + 1) + 1) : (b + 1) + i - 1 = i + b
    BY <1>2
  <2>2. 1..k = 1..(Len(w) - (b + 1) + 1)
    BY <1>2
  <2>3. v = [i \in 1..(Len(w) - (b + 1) + 1) |-> w[(b + 1) + i - 1]]
    BY <1>1, <1>2
  <2>4. QED
    BY <2>1, <2>2, <2>3
<1>5. \A i \in 1..k : w[i + b] \in State /\ i + b \in 1..Len(w)
  BY <1>1, <1>2
<1>6. v \in [1..k -> State]
  BY <1>4, <1>5
<1>7. Len(v) = k
  BY <1>3, <1>6
<1>8. v \in Windows
  BY <1>3, <1>6 DEF Windows
<1>9. ASSUME NEW j \in Nat PROVE At(v, j) = At(w, b + j)
  <2>1. CASE j < k
    <3>1. j + 1 \in 1..k /\ b + j < Len(w) /\ (j + 1) + b = (b + j) + 1
      BY <1>2, <1>3, <2>1
    <3>2. v[j + 1] = w[(b + j) + 1]
      BY <1>4, <3>1
    <3>3. QED
      BY <1>7, <2>1, <3>1, <3>2 DEF At
  <2>2. CASE ~(j < k)
    <3>1. ~(b + j < Len(w))
      BY <1>2, <2>2
    <3>2. QED
      BY <1>7, <2>2, <3>1 DEF At
  <2>3. QED
    BY <2>1, <2>2
<1>10. QED
  BY <1>8, <1>9

LEMMA CopyConvFound ==
  ASSUME launch \in Launches, NEW blocks \in [Cols -> Windows], NEW c \in Cols, NEW d \in Cols,
         NEW b \in Nat
  PROVE  /\ CopyConv(blocks, c, d, b) \in [Cols -> Windows]
         /\ InWindows(CopyConv(blocks, c, d, b), d, 0) = InWindows(blocks, c, b)
         /\ \A x, j : x # d => InWindows(CopyConv(blocks, c, d, b), x, j) = InWindows(blocks, x, j)
<1> DEFINE v == SubSeq(blocks[c], b + 1, Len(blocks[c]))
<1>1. v \in Windows /\ At(v, 0) = At(blocks[c], b)
  BY AtShift
<1>2. CopyConv(blocks, c, d, b) = [blocks EXCEPT ![d] = v]
  BY DEF CopyConv
<1> HIDE DEF v
<1>3. QED
  BY <1>1, <1>2 DEF InWindows

LEMMA CopyTemporalFound ==
  ASSUME launch \in Launches, NEW blocks \in [Cols -> State], NEW c \in Cols, NEW d \in Cols,
         NEW b \in Nat, c + b \in Cols
  PROVE  /\ CopyTemporal(blocks, c, d, b) \in [Cols -> State]
         /\ InStates(CopyTemporal(blocks, c, d, b), d, 0) = InStates(blocks, c, b)
         /\ \A x, j : x + j # d =>
              InStates(CopyTemporal(blocks, c, d, b), x, j) = InStates(blocks, x, j)
<1>1. CopyTemporal(blocks, c, d, b) = [blocks EXCEPT ![d] = blocks[c + b]]
  BY DEF CopyTemporal
<1>2. d + 0 = d
  BY Sizes, ColsTyped
<1>3. QED
  BY <1>1, <1>2 DEF InStates

LEMMA FoundIn ==
  ASSUME launch \in Launches, NEW s, NEW kind, NEW c, NEW i, Found(kind, s, c, i) # Junk
  PROVE  c \in Cols /\ i \in Nat /\ (kind # "conv" => c + i \in Cols)
  BY DEF Found, InWindows, InStates

(* What the program of slot s for one kind of state does.                   *)
LEMMA ProgramFound ==
  ASSUME IInv, NEW i \in DOMAIN entry, NEW kind \in Kinds, Program(i, kind),
         NEW s, s = entry[i].s, NEW d, d = Dest(s), NEW e, e = End(d)
  PROVE  /\ NeedsCopy(s) => Found(kind, s, d, 0)' = After(s, e)
         /\ \A x, j : (x # d /\ x + j # d) \/ ~NeedsCopy(s) =>
              Found(kind, s, x, j)' = Found(kind, s, x, j)
         /\ \A other \in Kinds \ {kind} : Intact(other, s)
         /\ conv' \in [Slots -> [Cols -> Windows]] /\ temporal' \in [Slots -> [Cols -> State]]
         /\ \A y \in Slots \ {s} : Untouched(y)
<1>1. TypeOK /\ launch \in Launches /\ launch' = launch /\ <<i, kind>> \in todo
  BY Typed DEF IInv, Program
<1>2. s \in Slots
  BY <1>1, Typed, RowTyped
<1>3. Reach(s, snap[s], computed[s]) /\ Unsaved(kind, s, snap[s], computed[s])
  BY <1>1 DEF IInv, TodoOK
<1>a. PICK a, n, c, b :
        a = snap[s] /\ n = computed[s] /\ c = col[s] /\ b = Aligned(s) - RunningTokens(s)
  OBVIOUS
<1>4. /\ n \in 1..MaxPos /\ a \in 1..(K + 1) /\ a <= n /\ RunningTokens(s) = n - a + 1
      /\ c \in Int /\ d \in Int /\ e \in Int /\ Aligned(s) = e /\ d <= c
      /\ e <= n /\ n < e + BS
      /\ n <= End(c) /\ End(c) \in Int
      /\ NeedsCopy(s) => d \in Cols
  BY <1>1, <1>2, <1>3, <1>a, Boundary
<1>5. /\ plen' = plen /\ computed' = computed /\ col' = col
      /\ conv' = IF NeedsCopy(s) /\ ~(c = d /\ b = 0) /\ kind = "conv"
                 THEN [conv EXCEPT ![s] = CopyConv(conv[s], c, d, b)] ELSE conv
      /\ temporal' = IF NeedsCopy(s) /\ ~(c = d /\ b = 0) /\ kind = "temporal"
                     THEN [temporal EXCEPT ![s] = CopyTemporal(temporal[s], c, d, b)]
                     ELSE temporal
  BY <1>a DEF Program, TableRow
<1>6. ASSUME NeedsCopy(s)
      PROVE  /\ b \in Nat /\ b + 1 \in 1..a /\ n - a + (b + 1) = e
             /\ Found(kind, s, c, b) = After(s, e)
             /\ c \in Cols /\ d \in Cols /\ (kind # "conv" => c + b \in Cols)
  <2>1. e >= n - a + 1
    BY <1>4, <1>6 DEF NeedsCopy
  <2>2. K \in Nat /\ MaxPos \in Nat
    BY <1>1, Sizes
  <2>3. b = e - (n - a + 1)
    BY <1>4, <1>a
  <2>4. b \in Nat /\ b + 1 \in 1..a /\ n - a + (b + 1) = e /\ (b + 1) - 1 = b
    BY <1>4, <2>1, <2>2, <2>3
  <2>5. Found(kind, s, c, b) = After(s, e)
    BY <1>3, <1>a, <2>4 DEF Unsaved, Left
  <2>6. e \in 0..MaxPos
    BY <1>4, <2>1, <2>2
  <2>7. After(s, e) # Junk
    BY <1>1, <1>2, <2>6, StateTyped
  <2>8. QED
    BY <1>1, <1>4, <1>6, <2>4, <2>5, <2>7, FoundIn
<1>7. conv[s] \in [Cols -> Windows] /\ temporal[s] \in [Cols -> State]
  BY <1>1, <1>2, Typed
<1>8. Cols' = Cols /\ (\A w, x, j : InWindows(w, x, j)' = InWindows(w, x, j))
      /\ (\A w, x, j : InStates(w, x, j)' = InStates(w, x, j))
  BY <1>1, SameLaunch DEF InWindows, InStates
<1>9. \A y \in Slots \ {s} : Untouched(y)
  BY <1>1, <1>2, <1>5, Typed DEF Untouched, Unmoved
<1>10. CASE ~NeedsCopy(s) \/ (c = d /\ b = 0)
  <2>1. conv' = conv /\ temporal' = temporal
    BY <1>5, <1>10
  <2>2. \A k, x, j : Found(k, s, x, j)' = Found(k, s, x, j)
    BY <1>1, <2>1, SameFound
  <2>a. \A k : Intact(k, s)
    BY <2>2 DEF Intact
  <2>3. NeedsCopy(s) => Found(kind, s, d, 0)' = After(s, e)
    BY <1>6, <1>10, <2>2
  <2>4. QED
    BY <1>1, <1>9, <2>1, <2>2, <2>a, <2>3, Typed
<1>11. CASE NeedsCopy(s) /\ ~(c = d /\ b = 0) /\ kind = "conv"
  <2>1. conv' = [conv EXCEPT ![s] = CopyConv(conv[s], c, d, b)] /\ temporal' = temporal
    BY <1>5, <1>11
  <2>2. /\ CopyConv(conv[s], c, d, b) \in [Cols -> Windows]
        /\ InWindows(CopyConv(conv[s], c, d, b), d, 0) = InWindows(conv[s], c, b)
        /\ \A x, j : x # d =>
             InWindows(CopyConv(conv[s], c, d, b), x, j) = InWindows(conv[s], x, j)
    <3>1. launch \in Launches /\ conv[s] \in [Cols -> Windows] /\ c \in Cols /\ d \in Cols /\ b \in Nat
      BY <1>1, <1>6, <1>7, <1>11
    <3>2. QED
      BY ONLY <3>1, CopyConvFound
  <2>3. conv'[s] = CopyConv(conv[s], c, d, b) /\ conv' \in [Slots -> [Cols -> Windows]]
    BY <1>1, <1>2, <2>1, <2>2, Typed
  <2>4. \A x, j : Found("conv", s, x, j)' = InWindows(conv'[s], x, j)
    BY <1>8 DEF Found
  <2>5. Found(kind, s, d, 0)' = After(s, e)
    BY <1>6, <1>11, <2>2, <2>3, <2>4 DEF Found
  <2>6. \A x, j : x # d => Found(kind, s, x, j)' = Found(kind, s, x, j)
    BY <1>11, <2>2, <2>3, <2>4 DEF Found
  <2>7. \A other \in Kinds \ {kind} : Intact(other, s)
    BY <1>8, <1>11, <2>1 DEF Found, Intact
  <2>8. temporal' \in [Slots -> [Cols -> State]]
    BY <1>1, <2>1, Typed
  <2>9. \A x, j : (x # d /\ x + j # d) \/ ~NeedsCopy(s) =>
          Found(kind, s, x, j)' = Found(kind, s, x, j)
    BY <1>11, <2>6
  <2>10. QED
    BY <1>9, <2>3, <2>5, <2>7, <2>8, <2>9
<1>12. CASE NeedsCopy(s) /\ ~(c = d /\ b = 0) /\ kind = "temporal"
  <2>1. temporal' = [temporal EXCEPT ![s] = CopyTemporal(temporal[s], c, d, b)] /\ conv' = conv
    BY <1>5, <1>12
  <2>2. /\ CopyTemporal(temporal[s], c, d, b) \in [Cols -> State]
        /\ InStates(CopyTemporal(temporal[s], c, d, b), d, 0) = InStates(temporal[s], c, b)
        /\ \A x, j : x + j # d =>
             InStates(CopyTemporal(temporal[s], c, d, b), x, j) = InStates(temporal[s], x, j)
    <3>1. /\ launch \in Launches /\ temporal[s] \in [Cols -> State] /\ c \in Cols /\ d \in Cols
          /\ b \in Nat /\ c + b \in Cols
      BY <1>1, <1>6, <1>7, <1>12
    <3>2. QED
      BY ONLY <3>1, CopyTemporalFound
  <2>3. temporal'[s] = CopyTemporal(temporal[s], c, d, b) /\ temporal' \in [Slots -> [Cols -> State]]
    BY <1>1, <1>2, <2>1, <2>2, Typed
  <2>4. \A x, j : Found("temporal", s, x, j)' = InStates(temporal'[s], x, j)
    BY <1>8 DEF Found
  <2>5. Found(kind, s, d, 0)' = After(s, e)
    BY <1>6, <1>12, <2>2, <2>3, <2>4 DEF Found
  <2>6. \A x, j : x + j # d => Found(kind, s, x, j)' = Found(kind, s, x, j)
    BY <1>12, <2>2, <2>3, <2>4 DEF Found
  <2>7. \A other \in Kinds \ {kind} : Intact(other, s)
    BY <1>8, <1>12, <2>1 DEF Found, Kinds, Intact
  <2>8. QED
    BY <1>1, <1>9, <1>12, <2>1, <2>3, <2>5, <2>6, <2>7, Typed
<1>13. QED
  BY <1>10, <1>11, <1>12 DEF Kinds

(* ... and that it leaves its slot exact.                                   *)
LEMMA ProgramExact ==
  ASSUME IInv, NEW i \in DOMAIN entry, NEW kind \in Kinds, Program(i, kind),
         NEW s, s = entry[i].s, NEW n, n = computed[s]
  PROVE  /\ Found(kind, s, col[s], Settles(s) - 1)' = After(s, n)
         /\ Saved(kind, s, n)'
         /\ Settles(s)' = Settles(s) /\ computed'[s] = n
<1>1. TypeOK /\ launch \in Launches /\ launch' = launch /\ <<i, kind>> \in todo
  BY Typed DEF IInv, Program
<1>2. s \in Slots
  BY <1>1, Typed, RowTyped
<1>3. Reach(s, snap[s], n) /\ Unsaved(kind, s, snap[s], n)
  BY <1>1 DEF IInv, TodoOK
<1>a. PICK a, c, d, e : a = snap[s] /\ c = col[s] /\ d = Dest(s) /\ e = End(d)
  OBVIOUS
<1>4. /\ n \in 1..MaxPos /\ a \in 1..(K + 1) /\ a <= n /\ RunningTokens(s) = n - a + 1
      /\ c \in Nat /\ d \in Int /\ e \in Int /\ Aligned(s) = e /\ d <= c
      /\ e <= n /\ n < e + BS
      /\ n <= End(c) /\ End(c) \in Int
      /\ NeedsCopy(s) => d \in Cols
  BY <1>1, <1>2, <1>3, <1>a, Boundary
<1>5. K \in Nat /\ MaxPos \in Nat /\ BS \in Nat /\ K < BS
  BY <1>1, Sizes
<1>6. plen' = plen /\ computed' = computed /\ col' = col /\ snap' = snap
  BY DEF Program
<1>7. /\ NeedsCopy(s) => Found(kind, s, d, 0)' = After(s, e)
      /\ \A x, j : (x # d /\ x + j # d) \/ ~NeedsCopy(s) =>
           Found(kind, s, x, j)' = Found(kind, s, x, j)
  <2>1. /\ IInv /\ i \in DOMAIN entry /\ kind \in Kinds /\ Program(i, kind)
        /\ s = entry[i].s /\ d = Dest(s) /\ e = End(d)
    BY <1>a
  <2>2. NeedsCopy(s) => Found(kind, s, d, 0)' = After(s, e)
    BY ONLY <2>1, ProgramFound
  <2>3. \A x, j : (x # d /\ x + j # d) \/ ~NeedsCopy(s) =>
           Found(kind, s, x, j)' = Found(kind, s, x, j)
    BY ONLY <2>1, ProgramFound
  <2>4. QED
    BY <2>2, <2>3
<1>8. Settles(s)' = Settles(s) /\ computed'[s] = n
  BY <1>1, <1>6, SameLaunch DEF Settles, NeedsCopy, Dest, Aligned, RunningTokens, Decision
<1>9. NeedsCopy(s) <=> e >= n - a + 1
  BY <1>4 DEF NeedsCopy
<1>10. Found(kind, s, c, a - 1) = After(s, n)
  <2>1. a \in 1..a /\ n - a + a = n
    BY <1>4, <1>5
  <2>2. QED
    BY <1>3, <1>a, <2>1 DEF Unsaved, Left
<1>11. Found(kind, s, c, Settles(s) - 1)' = After(s, n)
  <2>1. CASE NeedsCopy(s) /\ c = d
    <3>1. Settles(s)' = 1
      BY <1>8, <1>a, <2>1 DEF Settles
    <3>2. e = n
      BY <1>4, <1>5, <1>a, <2>1
    <3>3. QED
      BY <1>7, <2>1, <3>1, <3>2
  <2>2. CASE ~(NeedsCopy(s) /\ c = d)
    <3>1. Settles(s)' = a
      BY <1>8, <1>a, <2>2 DEF Settles
    <3>2. NeedsCopy(s) => c # d /\ c + (a - 1) # d
      BY <1>4, <1>5, <2>2
    <3>3. Found(kind, s, c, a - 1)' = After(s, n)
      BY <1>7, <1>10, <3>2
    <3>4. QED
      BY <3>1, <3>3
  <2>3. QED
    BY <2>1, <2>2
<1>12. Saved(kind, s, n)'
  <2>1. Cols' = Cols /\ \A x : End(x)' = End(x)
    BY <1>1, SameLaunch
  <2> SUFFICES ASSUME NEW x \in Cols, plen[s] <= End(x), End(x) <= n
               PROVE  Found(kind, s, x, 0)' = After(s, End(x))
    BY <1>6, <2>1 DEF Saved
  <2>2. x \in Nat /\ End(x) \in Int
    <3>1. x \in Nat
      BY <1>1, <1>5, ColsTyped
    <3>2. QED
      BY <1>1, <3>1, EndInt
  <2>3. CASE End(x) <= n - a
    <3>1. Found(kind, s, x, 0) = After(s, End(x))
      BY <1>3, <1>a, <2>3 DEF Unsaved, Saved
    <3>2. NeedsCopy(s) => x # d /\ x + 0 # d
      BY <1>4, <1>5, <1>9, <1>a, <2>2, <2>3
    <3>3. QED
      BY <1>7, <3>1, <3>2
  <2>4. CASE End(x) > n - a
    <3>1. x <= d
      <4>1. End(x) < End(d) + BS
        BY <1>4, <1>5, <1>a, <2>2
      <4>2. QED
        BY <1>1, <1>4, <2>2, <4>1, EndOrder
    <3>2. ~(x < d)
      <4> SUFFICES ASSUME x < d PROVE FALSE
        OBVIOUS
      <4>1. End(x) + BS <= End(d)
        BY <1>1, <1>4, <2>2, EndMono
      <4>2. QED
        BY <1>4, <1>5, <1>a, <2>2, <2>4, <4>1
    <3>3. x = d
      BY <1>4, <2>2, <3>1, <3>2
    <3>4. NeedsCopy(s)
      BY <1>4, <1>5, <1>9, <1>a, <2>4, <3>3
    <3>5. QED
      BY <1>7, <1>a, <3>3, <3>4
  <2>5. QED
    BY <1>4, <1>5, <2>2, <2>3, <2>4
<1>13. QED
  BY <1>6, <1>8, <1>11, <1>12, <1>a

LEMMA ProgramInv ==
  ASSUME IInv, NEW i \in DOMAIN entry, NEW kind \in Kinds, Program(i, kind)
  PROVE  IInv'
<1>1. TypeOK /\ launch \in Launches /\ launch' = launch /\ <<i, kind>> \in todo
  BY Typed DEF IInv, Program
<1>a. PICK s, n, d, e : s = entry[i].s /\ n = computed[s] /\ d = Dest(s) /\ e = End(d)
  OBVIOUS
<1>2. s \in Slots
  BY <1>1, <1>a, Typed, RowTyped
<1>3. /\ ~Pending(s) /\ Reach(s, snap[s], n)
      /\ \A k \in DOMAIN entry : entry[k].s = s => k = i
  BY <1>1, <1>a DEF IInv, TodoOK
<1>4. /\ plen' = plen /\ computed' = computed /\ col' = col /\ snap' = snap
      /\ queue' = queue /\ entry' = entry /\ todo' = todo \ {<<i, kind>>}
      /\ acc' = IF NeedsCopy(s) /\ col[s] = Dest(s) /\ kind = "conv"
                THEN [acc EXCEPT ![s] = 1] ELSE acc
  BY <1>a DEF Program
<1>5. /\ \A other \in Kinds \ {kind} : Intact(other, s)
      /\ conv' \in [Slots -> [Cols -> Windows]] /\ temporal' \in [Slots -> [Cols -> State]]
      /\ \A y \in Slots \ {s} : Untouched(y)
  <2>1. /\ IInv /\ i \in DOMAIN entry /\ kind \in Kinds /\ Program(i, kind)
        /\ s = entry[i].s /\ d = Dest(s) /\ e = End(d)
    BY <1>a
  <2>2. \A other \in Kinds \ {kind} : Intact(other, s)
    BY ONLY <2>1, ProgramFound
  <2>3. conv' \in [Slots -> [Cols -> Windows]]
    BY ONLY <2>1, ProgramFound
  <2>4. temporal' \in [Slots -> [Cols -> State]]
    BY ONLY <2>1, ProgramFound
  <2>5. \A y \in Slots \ {s} : Untouched(y)
    BY ONLY <2>1, ProgramFound
  <2>6. QED
    BY <2>2, <2>3, <2>4, <2>5
<1>6. /\ Found(kind, s, col[s], Settles(s) - 1)' = After(s, n)
      /\ Saved(kind, s, n)'
      /\ Settles(s)' = Settles(s) /\ computed'[s] = n
  BY <1>a, ProgramExact
<1>7. TypeOK'
  <2>1. 1 \in 1..(K + 1)
    BY <1>1, Sizes
  <2>2. acc' \in [Slots -> 1..(K + 1)]
    BY <1>1, <1>2, <1>4, <2>1, Typed
  <2>3. todo' \subseteq (DOMAIN entry') \X Kinds
    BY <1>1, <1>4, Typed
  <2>4. QED
    BY <1>1, <1>4, <1>5, <2>2, <2>3, Typed, TypedNext
<1>8. QueueShape' /\ RelaysApart' /\ \A y : Pending(y)' <=> Pending(y)
  BY <1>4 DEF IInv, QueueShape, RelaysApart, Pending
<1>9. RelaysOK'
  <2> SUFFICES ASSUME NEW k \in DOMAIN queue, NEW j \in DOMAIN queue[k]
               PROVE  RelayOK(queue[k][j])'
    BY <1>4 DEF RelaysOK
  <2>1. PICK r : r = queue[k][j]
    OBVIOUS
  <2>2. r.s \in Slots
    BY <1>1, <2>1, Typed, RowTyped
  <2>3. Pending(r.s)
    BY <2>1 DEF Pending
  <2>4. r.s # s
    BY <1>3, <2>3
  <2>5. RelayOK(r)
    BY <2>1 DEF IInv, RelaysOK
  <2>6. RelayOK(r)'
    BY <1>5, <2>2, <2>4, <2>5, SameRelay
  <2>7. QED
    BY <1>4, <2>1, <2>6
<1>10. ASSUME NEW k \in DOMAIN entry, NEW other \in Kinds, <<k, other>> \in todo'
       PROVE  /\ ~Pending(entry[k].s)'
              /\ Reach(entry[k].s, snap[entry[k].s], computed[entry[k].s])'
              /\ Unsaved(other, entry[k].s, snap[entry[k].s], computed[entry[k].s])'
              /\ \A l \in DOMAIN entry : entry[l].s = entry[k].s => l = k
  <2>1. PICK y, a, m : y = entry[k].s /\ a = snap[y] /\ m = computed[y]
    OBVIOUS
  <2>2. <<k, other>> \in todo /\ ~(k = i /\ other = kind)
    BY <1>4, <1>10
  <2>3. /\ ~Pending(y) /\ Reach(y, a, m) /\ Unsaved(other, y, a, m)
        /\ \A l \in DOMAIN entry : entry[l].s = y => l = k
    BY <2>1, <2>2 DEF IInv, TodoOK
  <2>4. y \in Slots
    BY <1>1, <2>1, Typed, RowTyped
  <2>5. Reach(y, a, m)' /\ Unsaved(other, y, a, m)'
    <3>1. CASE y = s
      <4>1. other # kind
        BY <1>a, <2>1, <2>2, <2>3, <3>1
      <4>2. \A x, j : Found(other, y, x, j)' = Found(other, y, x, j)
        BY <1>5, <3>1, <4>1 DEF Intact
      <4>3. Cols' = Cols /\ \A x : End(x)' = End(x)
        BY <1>1, SameLaunch
      <4>4. Left(other, y, a, m)' /\ Saved(other, y, m - a)'
        BY <1>4, <2>3, <4>2, <4>3 DEF Unsaved, Left, Saved
      <4>5. Reach(y, a, m)'
        BY <1>4, <2>3, <4>3 DEF Reach
      <4>6. QED
        BY <4>4, <4>5 DEF Unsaved
    <3>2. CASE y # s
      <4>1. Unmoved(y)
        BY <1>5, <2>4, <3>2 DEF Untouched
      <4>2. QED
        BY <2>3, <4>1, SameUnsaved
    <3>3. QED
      BY <3>1, <3>2
  <2>6. QED
    BY <1>4, <1>8, <2>1, <2>3, <2>5
<1>11. TodoOK'
  <2> SUFFICES ASSUME NEW k \in DOMAIN entry, NEW other \in Kinds, <<k, other>> \in todo'
               PROVE  /\ ~Pending(entry[k].s)'
                      /\ Reach(entry[k].s, snap[entry[k].s], computed[entry[k].s])'
                      /\ Unsaved(other, entry[k].s, snap[entry[k].s], computed[entry[k].s])'
                      /\ \A l \in DOMAIN entry : entry[l].s = entry[k].s => l = k
    BY <1>4 DEF TodoOK, Kinds
  <2>1. QED
    BY <1>10
<1>12. IdleSlot(s)'
  <2>1. kind \in Rest(s) /\ Rest(s)' = Rest(s) \ {kind}
    BY <1>1, <1>3, <1>4, <1>a DEF Rest, Kinds
  <2>2. plen[s] # 0
    BY <1>3 DEF Reach
  <2>3. IdleSlot(s)
    BY <1>2, <1>3, <2>2 DEF IInv, IdleOK
  <2>4. n \in 1..MaxPos /\ col[s] \in Nat /\ MaxPos \in Nat
    BY <1>1, <1>2, <1>3, <1>a, Boundary, Sizes
  <2>5. acc[s] = IF "conv" \in Rest(s) THEN snap[s] ELSE Settles(s)
    BY <2>1, <2>3 DEF IdleSlot
  <2>6. acc'[s] = IF "conv" \in Rest(s)' THEN snap'[s] ELSE Settles(s)'
    <3>1. CASE kind = "conv"
      <4>1. acc'[s] = Settles(s)
        <5>1. acc[s] = snap[s]
          BY <2>1, <2>5, <3>1
        <5>2. acc \in [Slots -> 1..(K + 1)]
          BY <1>1, Typed
        <5>3. QED
          BY <1>2, <1>4, <3>1, <5>1, <5>2 DEF Settles
      <4>2. QED
        BY <1>6, <2>1, <3>1, <4>1
    <3>2. CASE kind # "conv"
      <4>1. acc'[s] = acc[s] /\ ("conv" \in Rest(s)' <=> "conv" \in Rest(s))
        BY <1>4, <2>1, <3>2
      <4>2. QED
        BY <1>4, <1>6, <2>5, <4>1
    <3>3. QED
      BY <3>1, <3>2
  <2>7. Selects(s)' = Settles(s)' /\ Selects(s) = Settles(s)
    BY <2>1, <2>6 DEF Selects
  <2>8. ASSUME NEW other \in Kinds, other \notin Rest(s)' PROVE Exactly(other, s)'
    <3>1. CASE other = kind
      BY <1>6, <2>7, <3>1 DEF Exactly
    <3>2. CASE other # kind
      <4>1. other \notin Rest(s)
        BY <2>1, <2>8, <3>2
      <4>2. Exactly(other, s)
        BY <2>3, <4>1 DEF IdleSlot
      <4>3. \A x, j : Found(other, s, x, j)' = Found(other, s, x, j)
        BY <1>5, <3>2 DEF Intact
      <4>4. Cols' = Cols /\ \A x : End(x)' = End(x)
        BY <1>1, SameLaunch
      <4>5. Selects(s)' = Selects(s)
        BY <1>6, <2>7
      <4>6. QED
        BY <1>4, <4>2, <4>3, <4>4, <4>5 DEF Exactly, Saved
    <3>3. QED
      BY <3>1, <3>2
  <2>9. computed'[s] > 0 /\ computed'[s] # 0 /\ col'[s] >= 0
    BY <1>4, <1>6, <2>4
  <2>10. QED
    BY <2>6, <2>8, <2>9 DEF IdleSlot, Kinds
<1>13. IdleOK'
  <2> SUFFICES ASSUME NEW y \in Slots, plen'[y] # 0, ~Pending(y)' PROVE IdleSlot(y)'
    BY <1>1, SameLaunch DEF IdleOK
  <2>1. CASE y = s
    BY <1>12, <2>1
  <2>2. CASE y # s
    <3>1. Untouched(y) /\ snap'[y] = snap[y]
      BY <1>4, <1>5, <2>2
    <3>2. acc'[y] = acc[y]
      BY <1>1, <1>4, <2>2, Typed
    <3>3. Rest(y)' = Rest(y)
      BY <1>4, <1>a, <2>2 DEF Rest, Kinds
    <3>4. plen[y] # 0 /\ ~Pending(y)
      BY <1>4, <1>8
    <3>5. IdleSlot(y)
      BY <3>4 DEF IInv, IdleOK
    <3>6. QED
      BY <3>1, <3>2, <3>3, <3>5, SameIdle
  <2>3. QED
    BY <2>1, <2>2
<1>14. QED
  BY <1>7, <1>8, <1>9, <1>11, <1>13 DEF IInv

-----------------------------------------------------------------------------
(* A step runs.                                                             *)

(* What a row of a batch may be.                                            *)
Legal(row) ==
  /\ row \in Rows /\ RowOK(row)
  /\ plen[row.s] # 0 /\ ~Pending(row.s)
  /\ computed[row.s] + row.n <= MaxPos
  /\ row.d = 0 => row.n = 1 \/ computed[row.s] + row.n <= plen[row.s]
  /\ row.sampled = 0 => row.d = 0 /\ computed[row.s] + row.n < plen[row.s]

LEMMA OfferLegal ==
  ASSUME TypeOK, NEW s \in Runnable, NEW row \in Offers(s), Offered(row)
  PROVE  Legal(row) /\ row.s = s
<1>1. launch \in Launches /\ K \in Nat \ {0} /\ MaxPos \in Nat
  BY Typed, Sizes
<1>2. s \in Slots /\ plen[s] # 0 /\ ~Pending(s)
  BY DEF Runnable
<1>3. plen[s] \in 0..MaxPos /\ computed[s] \in 0..MaxPos
  BY <1>1, <1>2, Typed
<1>4. CASE computed[s] < plen[s]
  <2>1. PICK n \in Chunks(s) :
          row = [s |-> s, n |-> n, d |-> 0, keep |-> n,
                 sampled |-> IF computed[s] + n >= plen[s] THEN 1 ELSE 0]
    BY <1>4 DEF Offers
  <2>2. n \in 1..(plen[s] - computed[s])
    BY DEF Chunks
  <2>3. n \in Nat /\ n >= 1 /\ computed[s] + n <= plen[s] /\ computed[s] + n <= MaxPos
    BY <1>1, <1>3, <2>2
  <2>4. row.sampled \in {0, 1} /\ (row.sampled = 0 => computed[s] + n < plen[s])
    BY <1>3, <2>1, <2>3
  <2>5. row \in Rows
    <3>1. n \in 1..MaxPos /\ 0 \in {0, K} /\ 0 \in 0..(K + 1) /\ 1 \in 0..(K + 1)
      BY <1>1, <1>3, <2>3
    <3>2. QED
      BY <1>2, <2>1, <3>1 DEF Rows
  <2>6. QED
    BY <1>2, <2>1, <2>3, <2>4, <2>5 DEF Legal, RowOK
<1>5. CASE ~(computed[s] < plen[s])
  <2>1. PICK d \in {0, K}, k \in 1..(K + 1) :
          row = [s |-> s, n |-> d + 1, d |-> d, keep |-> k, sampled |-> k]
    BY <1>5 DEF Offers
  <2>2. k <= d + 1 /\ computed[s] + (d + 1) <= MaxPos
    BY <2>1 DEF Offered
  <2>3. d \in Nat /\ k \in Nat /\ k >= 1 /\ k <= K + 1
    BY <1>1, <2>1
  <2>4. row \in Rows
    <3>1. d + 1 \in 1..MaxPos /\ k \in 1..MaxPos /\ k \in 0..(K + 1)
      BY <1>1, <1>3, <2>2, <2>3
    <3>2. QED
      BY <1>2, <2>1, <3>1 DEF Rows
  <2>5. RowOK(row)
    BY <1>1, <2>1, <2>2, <2>3 DEF RowOK
  <2>6. row.s = s /\ row.n = d + 1 /\ row.d = d /\ row.sampled = k
    BY <2>1
  <2>7. QED
    BY <1>2, <2>2, <2>3, <2>4, <2>5, <2>6 DEF Legal
<1>6. QED
  BY <1>4, <1>5

LEMMA BatchRows ==
  ASSUME TypeOK, NEW batch \in Batches
  PROVE  /\ IsEntry(batch)
         /\ \A i \in DOMAIN batch :
              /\ Legal(batch[i])
              /\ RowOf(batch, batch[i].s) = batch[i]
              /\ \A k \in DOMAIN batch : batch[k].s = batch[i].s => k = i
<1>1. launch \in Launches /\ MaxReqs \in Nat
  BY Typed, Sizes
<1>2. PICK k \in 0..MaxReqs : batch \in [1..k -> UNION {Offers(s) : s \in Runnable}]
  BY DEF Batches
<1>3. ASSUME NEW i \in DOMAIN batch
      PROVE  Legal(batch[i]) /\ \A l \in DOMAIN batch : batch[l].s = batch[i].s => l = i
  <2>1. PICK s \in Runnable : batch[i] \in Offers(s)
    BY <1>2
  <2>2. Offered(batch[i])
    BY DEF Batches
  <2>3. Legal(batch[i])
    BY <2>1, <2>2, OfferLegal
  <2>4. QED
    BY <2>3 DEF Batches
<1>4. DOMAIN batch \subseteq 1..MaxReqs
  BY <1>1, <1>2
<1>5. batch \in [DOMAIN batch -> Rows]
  BY <1>2, <1>3 DEF Legal
<1>6. \A i \in DOMAIN batch : RowOf(batch, batch[i].s) = batch[i]
  BY <1>3, RowOfIs
<1>7. QED
  BY <1>3, <1>4, <1>5, <1>6 DEF IsEntry

(* The window a row writes.                                                 *)
LEMMA LegalWindow ==
  ASSUME TypeOK, NEW row, Legal(row)
  PROVE  /\ row.s \in Slots /\ computed[row.s] \in 0..MaxPos
         /\ New(row) \in Nat /\ New(row) \in 0..(MaxPos \div BS) /\ New(row) \in Cols
         /\ End(New(row)) \in Int /\ computed[row.s] + row.n <= End(New(row))
         /\ \A j \in 0..K : New(row) + j \in Cols
<1>1. launch \in Launches /\ K \in Nat \ {0} /\ BS \in Nat \ {0} /\ MaxPos \in Nat
  BY Typed, Sizes
<1>2. row.s \in Slots /\ row.n \in 1..MaxPos /\ computed[row.s] + row.n <= MaxPos
  BY DEF Legal, Rows
<1>3. computed[row.s] \in 0..MaxPos
  BY <1>1, <1>2, Typed
<1>a. PICK c : c = New(row)
  OBVIOUS
<1>4. PICK x \in Nat, n \in Nat \ {0} : x = computed[row.s] /\ n = row.n
  BY <1>1, <1>2, <1>3
<1>5. c \in Nat /\ x + n <= End(c) /\ End(c) < x + n + BS
  <2>1. c = Window(x, n)
    BY <1>4, <1>a DEF New
  <2>2. QED
    BY <1>1, <2>1, WindowEnd
<1>6. c \in Int /\ End(c) \in Int
  BY <1>1, <1>5, EndInt
<1>7. End(c) < MaxPos + BS
  BY <1>1, <1>2, <1>4, <1>5, <1>6
<1>8. c <= MaxPos \div BS /\ MaxPos \div BS \in Nat /\ Cols = 0..(MaxPos \div BS + K)
  BY <1>1, <1>5, <1>6, <1>7, ColsTyped
<1>9. QED
  BY <1>1, <1>2, <1>3, <1>4, <1>a, <1>5, <1>6, <1>8

(* The one program that may copy within the blocks of a slot.               *)
LEMMA MovingIs ==
  ASSUME NEW batch,
         \A i \in DOMAIN batch : \A k \in DOMAIN batch : batch[k].s = batch[i].s => k = i
  PROVE  /\ \A i \in DOMAIN batch :
              Moving(batch, batch[i].s) = IF Crosses(batch[i]) THEN {batch[i]} ELSE {}
         /\ \A s : (\A i \in DOMAIN batch : batch[i].s # s) => Moving(batch, s) = {}
  BY DEF Moving, TableRow

(* The count is the reset one exactly for a row that moves to another block. *)
LEMMA PrecopyFound ==
  ASSUME IInv, todo = {}, NEW row, Legal(row), computed[row.s] > 0,
         NEW w, w = IF Crosses(row) THEN CopyConv(conv[row.s], col[row.s], New(row), SrcOff(row))
                    ELSE conv[row.s],
         NEW t, t = IF Crosses(row)
                    THEN CopyTemporal(temporal[row.s], col[row.s], New(row), SrcOff(row))
                    ELSE temporal[row.s]
  PROVE  /\ w \in [Cols -> Windows] /\ t \in [Cols -> State]
         /\ InWindows(w, New(row), Bias(row)) = After(row.s, computed[row.s])
         /\ InStates(t, New(row), Bias(row)) = After(row.s, computed[row.s])
         /\ \A x \in Int : x < New(row) => /\ InWindows(w, x, 0) = InWindows(conv[row.s], x, 0)
                                           /\ InStates(t, x, 0) = InStates(temporal[row.s], x, 0)
<1>1. TypeOK /\ launch \in Launches /\ K \in Nat \ {0} /\ MaxPos \in Nat
  BY Typed, Sizes DEF IInv
<1>a. PICK s, x0, c, b, n :
        s = row.s /\ x0 = computed[s] /\ c = col[s] /\ b = acc[s] - 1 /\ n = New(row)
  OBVIOUS
<1>2. s \in Slots /\ x0 \in 1..MaxPos /\ n \in Nat /\ n \in Cols
  BY <1>1, <1>a, LegalWindow
<1>3. acc[s] \in 1..(K + 1) /\ conv[s] \in [Cols -> Windows] /\ temporal[s] \in [Cols -> State]
  BY <1>1, <1>2, Typed
<1>4. b \in Nat /\ SrcOff(row) = b /\ Bias(row) = IF Crosses(row) THEN 0 ELSE b
  BY <1>1, <1>3, <1>a DEF SrcOff, Bias
<1>5. IdleSlot(s)
  BY <1>2, <1>a DEF IInv, IdleOK, Legal
<1>6. c >= 0 /\ \A kind \in Kinds : Found(kind, s, c, b) = After(s, x0)
  <2>1. Rest(s) = {}
    BY Quiet
  <2>2. \A kind \in Kinds : Exactly(kind, s)
    BY <1>5, <2>1 DEF IdleSlot
  <2>3. Selects(s) = acc[s]
    BY <2>1 DEF Selects
  <2>4. c >= 0
    BY <1>5, <1>a DEF IdleSlot
  <2>5. QED
    BY <1>a, <2>2, <2>3, <2>4 DEF Exactly
<1>7. InWindows(conv[s], c, b) = After(s, x0) /\ InStates(temporal[s], c, b) = After(s, x0)
  BY <1>6 DEF Found, Kinds
<1>8. c \in Cols /\ c + b \in Cols
  <2>1. x0 \in 0..MaxPos
    BY <1>1, <1>2
  <2>2. After(s, x0) # Junk
    BY <1>1, <1>2, <2>1, StateTyped
  <2>3. QED
    BY <1>7, <2>2 DEF InStates
<1>9. CASE ~Crosses(row)
  <2>1. c = n
    BY <1>6, <1>9, <1>a DEF Crosses
  <2>2. w = conv[s] /\ t = temporal[s] /\ Bias(row) = b
    BY <1>4, <1>9, <1>a
  <2>3. QED
    BY <1>3, <1>7, <1>a, <2>1, <2>2
<1>10. CASE Crosses(row)
  <2>1. w = CopyConv(conv[s], c, n, b) /\ t = CopyTemporal(temporal[s], c, n, b) /\ Bias(row) = 0
    BY <1>4, <1>10, <1>a
  <2>2. /\ CopyConv(conv[s], c, n, b) \in [Cols -> Windows]
        /\ InWindows(CopyConv(conv[s], c, n, b), n, 0) = InWindows(conv[s], c, b)
        /\ \A x, j : x # n => InWindows(CopyConv(conv[s], c, n, b), x, j) = InWindows(conv[s], x, j)
    <3>1. launch \in Launches /\ conv[s] \in [Cols -> Windows] /\ c \in Cols /\ n \in Cols /\ b \in Nat
      BY <1>1, <1>2, <1>3, <1>4, <1>8
    <3>2. QED
      BY ONLY <3>1, CopyConvFound
  <2>3. /\ CopyTemporal(temporal[s], c, n, b) \in [Cols -> State]
        /\ InStates(CopyTemporal(temporal[s], c, n, b), n, 0) = InStates(temporal[s], c, b)
        /\ \A x, j : x + j # n =>
             InStates(CopyTemporal(temporal[s], c, n, b), x, j) = InStates(temporal[s], x, j)
    <3>1. /\ launch \in Launches /\ temporal[s] \in [Cols -> State] /\ c \in Cols /\ n \in Cols
          /\ b \in Nat /\ c + b \in Cols
      BY <1>1, <1>2, <1>3, <1>4, <1>8
    <3>2. QED
      BY ONLY <3>1, CopyTemporalFound
  <2>4. ASSUME NEW x \in Int, x < n
        PROVE  /\ InWindows(w, x, 0) = InWindows(conv[s], x, 0)
               /\ InStates(t, x, 0) = InStates(temporal[s], x, 0)
    <3>1. x # n /\ x + 0 # n
      BY <1>2, <2>4
    <3>2. QED
      BY <2>1, <2>2, <2>3, <3>1
  <2>5. QED
    BY <1>7, <1>a, <2>1, <2>2, <2>3, <2>4
<1>11. QED
  BY <1>9, <1>10

(* The states a row keeps, and those among them that stay.                  *)
LEMMA KeptIs ==
  ASSUME launch \in Launches, NEW row \in Rows, RowOK(row)
  PROVE  /\ \E m \in 1..(K + 1) : Kept(row) \in [1..m -> 1..row.n] /\ DOMAIN Kept(row) = 1..m
         /\ \A j \in 1..Accepted(row.sampled) :
              j \in DOMAIN Kept(row) /\ Kept(row)[j] = row.keep - Accepted(row.sampled) + j
<1>1. K \in Nat \ {0} /\ MaxPos \in Nat
  BY Sizes
<1>2. /\ row.n \in 1..MaxPos /\ row.keep \in 1..row.n /\ Accepted(row.sampled) \in 1..(K + 1)
      /\ row.d = 0 => Accepted(row.sampled) = 1
      /\ row.d # 0 => row.d = K /\ row.n = K + 1 /\ Accepted(row.sampled) = row.keep
  BY RowCounts
<1>3. CASE row.d = 0
  <2>1. Kept(row) = <<row.n>> /\ row.keep = row.n
    BY <1>1, <1>3 DEF Kept, RowOK
  <2>2. Kept(row) \in [1..1 -> 1..row.n] /\ DOMAIN Kept(row) = 1..1 /\ Kept(row)[1] = row.n
    BY <1>1, <1>2, <2>1
  <2>3. 1 \in 1..(K + 1)
    BY <1>1
  <2>4. \A j \in 1..Accepted(row.sampled) : j = 1
    BY <1>2, <1>3
  <2>5. row.keep - Accepted(row.sampled) + 1 = row.n
    BY <1>1, <1>2, <1>3, <2>1
  <2>6. QED
    BY <2>2, <2>3, <2>4, <2>5
<1>4. CASE row.d # 0
  <2>1. Kept(row) = [i \in 1..row.n |-> i] /\ row.n \in 1..(K + 1)
    BY <1>1, <1>2, <1>4 DEF Kept
  <2>2. Kept(row) \in [1..row.n -> 1..row.n] /\ DOMAIN Kept(row) = 1..row.n
    BY <2>1
  <2>3. \A j \in 1..Accepted(row.sampled) :
          j \in 1..row.n /\ j = row.keep - Accepted(row.sampled) + j
    BY <1>1, <1>2, <1>4
  <2>4. QED
    BY <2>1, <2>2, <2>3
<1>5. QED
  BY <1>3, <1>4

(* The forward pass, from the right initial state.                          *)
LEMMA ForwardConvFound ==
  ASSUME TypeOK, NEW row, Legal(row), NEW w \in [Cols -> Windows],
         InitConv(row, w) = After(row.s, computed[row.s])
  PROVE  /\ ForwardConv(row, w) \in [Cols -> Windows]
         /\ \A j \in 1..Accepted(row.sampled) :
              InWindows(ForwardConv(row, w), New(row), j - 1)
                = After(row.s, computed[row.s] + row.keep - Accepted(row.sampled) + j)
         /\ \A x, j : x # New(row) => InWindows(ForwardConv(row, w), x, j) = InWindows(w, x, j)
<1>1. launch \in Launches /\ K \in Nat \ {0} /\ MaxPos \in Nat
  BY Typed, Sizes
<1>a. PICK s, x0, n, a, k :
        s = row.s /\ x0 = computed[s] /\ n = New(row) /\ a = Accepted(row.sampled) /\ k = Kept(row)
  OBVIOUS
<1>2. s \in Slots /\ x0 \in 0..MaxPos /\ n \in Cols
  BY <1>a, LegalWindow
<1>3. row.n \in 1..MaxPos /\ row.keep \in 1..row.n /\ a \in 1..(K + 1) /\ x0 + row.n <= MaxPos
  BY <1>1, <1>a, RowCounts DEF Legal
<1>4. PICK m \in 1..(K + 1) : k \in [1..m -> 1..row.n] /\ DOMAIN k = 1..m
  BY <1>1, <1>a, KeptIs DEF Legal
<1>5. \A j \in 1..a : j \in 1..m /\ k[j] = row.keep - a + j
  BY <1>1, <1>4, <1>a, KeptIs DEF Legal
<1> DEFINE v == [i \in 1..m |-> Step(row, After(s, x0), k[i])]
<1>6. ForwardConv(row, w) = [w EXCEPT ![n] = v]
  BY <1>4, <1>a DEF ForwardConv
<1>7. \A i \in 1..m : Step(row, After(s, x0), k[i]) =
        IF k[i] <= row.keep THEN After(s, x0 + k[i]) ELSE Junk
  BY <1>a DEF Step
<1>8. \A i \in 1..m : Step(row, After(s, x0), k[i]) \in State
  <2> SUFFICES ASSUME NEW i \in 1..m PROVE Step(row, After(s, x0), k[i]) \in State
    OBVIOUS
  <2>1. k[i] \in 1..row.n
    BY <1>4
  <2>2. x0 + k[i] \in 0..MaxPos
    BY <1>1, <1>2, <1>3, <2>1
  <2>3. After(s, x0 + k[i]) \in State /\ Junk \in State
    BY <1>1, <1>2, <2>2, StateTyped
  <2>4. QED
    BY <1>7, <2>3
<1>9. v \in Windows /\ Len(v) = m
  <2>1. v \in [1..m -> State]
    BY <1>8
  <2>2. m \in 0..(K + 1) /\ m \in Nat
    BY <1>1
  <2> HIDE DEF v
  <2>3. v \in Windows
    BY <2>1, <2>2 DEF Windows
  <2>4. Len(v) = m
    BY <2>1, <2>2
  <2>5. QED
    BY <2>3, <2>4
<1>10. ASSUME NEW j \in 1..a
       PROVE  At(v, j - 1) = After(s, x0 + row.keep - a + j)
  <2>1. j \in 1..m /\ k[j] = row.keep - a + j /\ j - 1 < m /\ (j - 1) + 1 = j
    BY <1>1, <1>3, <1>5
  <2>2. k[j] <= row.keep /\ x0 + k[j] = x0 + row.keep - a + j
    BY <1>1, <1>2, <1>3, <2>1
  <2>3. v[j] = After(s, x0 + row.keep - a + j)
    BY <1>7, <2>1, <2>2
  <2> HIDE DEF v
  <2>4. QED
    BY <1>9, <2>1, <2>3 DEF At
<1> HIDE DEF v
<1>11. [w EXCEPT ![n] = v] \in [Cols -> Windows]
  BY <1>9
<1>12. \A j \in 1..a : InWindows([w EXCEPT ![n] = v], n, j - 1) = After(s, x0 + row.keep - a + j)
  <2>1. \A j \in 1..a : j - 1 \in Nat
    BY <1>3
  <2>2. QED
    BY <1>2, <1>10, <2>1 DEF InWindows
<1>13. \A x, j : x # n => InWindows([w EXCEPT ![n] = v], x, j) = InWindows(w, x, j)
  BY DEF InWindows
<1>14. QED
  BY <1>6, <1>11, <1>12, <1>13, <1>a

LEMMA ForwardTemporalFound ==
  ASSUME TypeOK, NEW row, Legal(row), NEW t \in [Cols -> State],
         InitTemporal(row, t) = After(row.s, computed[row.s])
  PROVE  /\ ForwardTemporal(row, t) \in [Cols -> State]
         /\ \A j \in 1..Accepted(row.sampled) :
              InStates(ForwardTemporal(row, t), New(row), j - 1)
                = After(row.s, computed[row.s] + row.keep - Accepted(row.sampled) + j)
         /\ \A x \in Int : x < New(row) =>
              InStates(ForwardTemporal(row, t), x, 0) = InStates(t, x, 0)
<1>1. launch \in Launches /\ K \in Nat \ {0} /\ MaxPos \in Nat
  BY Typed, Sizes
<1>a. PICK s, x0, n, a, k, f :
        /\ s = row.s /\ x0 = computed[s] /\ n = New(row) /\ a = Accepted(row.sampled)
        /\ k = Kept(row) /\ f = ForwardTemporal(row, t)
  OBVIOUS
<1>2. s \in Slots /\ x0 \in 0..MaxPos /\ n \in Cols /\ n \in Nat /\ \A j \in 0..K : n + j \in Cols
  BY <1>a, LegalWindow
<1>3. row.n \in 1..MaxPos /\ row.keep \in 1..row.n /\ a \in 1..(K + 1) /\ x0 + row.n <= MaxPos
  BY <1>1, <1>a, RowCounts DEF Legal
<1>4. PICK m \in 1..(K + 1) : k \in [1..m -> 1..row.n] /\ DOMAIN k = 1..m
  BY <1>1, <1>a, KeptIs DEF Legal
<1>5. \A j \in 1..a : j \in 1..m /\ k[j] = row.keep - a + j
  BY <1>1, <1>4, <1>a, KeptIs DEF Legal
<1>6. f = [c \in Cols |-> IF c - n + 1 \in 1..m THEN Step(row, After(s, x0), k[c - n + 1]) ELSE t[c]]
  BY <1>4, <1>a DEF ForwardTemporal
<1>7. \A i \in 1..m : Step(row, After(s, x0), k[i]) =
        IF k[i] <= row.keep THEN After(s, x0 + k[i]) ELSE Junk
  BY <1>a DEF Step
<1>8. \A i \in 1..m : Step(row, After(s, x0), k[i]) \in State
  <2> SUFFICES ASSUME NEW i \in 1..m PROVE Step(row, After(s, x0), k[i]) \in State
    OBVIOUS
  <2>1. k[i] \in 1..row.n
    BY <1>4
  <2>2. x0 + k[i] \in 0..MaxPos
    BY <1>1, <1>2, <1>3, <2>1
  <2>3. After(s, x0 + k[i]) \in State /\ Junk \in State
    BY <1>1, <1>2, <2>2, StateTyped
  <2>4. QED
    BY <1>7, <2>3
<1>9. f \in [Cols -> State]
  BY <1>6, <1>8
<1>10. ASSUME NEW j \in 1..a
       PROVE  InStates(f, n, j - 1) = After(s, x0 + row.keep - a + j)
  <2>1. j - 1 \in Nat /\ j - 1 \in 0..K /\ (n + (j - 1)) - n + 1 = j
    BY <1>1, <1>2, <1>3
  <2>2. n + (j - 1) \in Cols
    BY <1>2, <2>1
  <2>3. j \in 1..m /\ k[j] = row.keep - a + j
    BY <1>5
  <2>4. k[j] <= row.keep /\ x0 + k[j] = x0 + row.keep - a + j
    BY <1>1, <1>2, <1>3, <2>3
  <2>5. f[n + (j - 1)] = Step(row, After(s, x0), k[j])
    BY <1>6, <2>1, <2>2, <2>3
  <2>6. f[n + (j - 1)] = After(s, x0 + row.keep - a + j)
    BY <1>7, <2>3, <2>4, <2>5
  <2>7. QED
    BY <1>2, <2>1, <2>2, <2>6 DEF InStates
<1>11. ASSUME NEW x \in Int, x < n PROVE InStates(f, x, 0) = InStates(t, x, 0)
  <2>1. x + 0 = x /\ x - n + 1 \notin 1..m
    BY <1>2, <1>11
  <2>2. x \in Cols => f[x] = t[x]
    BY <1>6, <2>1
  <2>3. QED
    BY <2>1, <2>2 DEF InStates
<1>12. QED
  BY <1>9, <1>10, <1>11, <1>a

LEMMA RunEffect ==
  ASSUME IInv, NEW batch \in Batches, Run(batch)
  PROVE  /\ \A i \in DOMAIN batch :
              /\ col'[batch[i].s] = New(batch[i])
              /\ computed'[batch[i].s] = computed[batch[i].s] + batch[i].n
              /\ acc'[batch[i].s] \in {1, acc[batch[i].s]}
              /\ DOMAIN Later(batch) # DOMAIN batch => acc'[batch[i].s] = 1
              /\ conv'[batch[i].s] = ForwardConv(batch[i],
                   IF Crosses(batch[i])
                   THEN CopyConv(conv[batch[i].s], col[batch[i].s], New(batch[i]), SrcOff(batch[i]))
                   ELSE conv[batch[i].s])
              /\ temporal'[batch[i].s] = ForwardTemporal(batch[i],
                   IF Crosses(batch[i])
                   THEN CopyTemporal(temporal[batch[i].s], col[batch[i].s], New(batch[i]),
                                     SrcOff(batch[i]))
                   ELSE temporal[batch[i].s])
         /\ \A s \in Slots : (\A i \in DOMAIN batch : batch[i].s # s) =>
              Untouched(s) /\ acc'[s] = acc[s]
         /\ /\ DOMAIN col' = Slots /\ DOMAIN computed' = Slots /\ DOMAIN acc' = Slots
            /\ DOMAIN conv' = Slots /\ DOMAIN temporal' = Slots
            /\ col' = [s \in Slots |-> col'[s]] /\ computed' = [s \in Slots |-> computed'[s]]
            /\ acc' = [s \in Slots |-> acc'[s]] /\ conv' = [s \in Slots |-> conv'[s]]
            /\ temporal' = [s \in Slots |-> temporal'[s]]
<1>1. TypeOK /\ launch \in Launches /\ launch' = launch /\ plen' = plen
  BY Typed DEF IInv, Run
<1>2. ASSUME NEW i \in DOMAIN batch
      PROVE  /\ batch[i].s \in Slots /\ RowOf(batch, batch[i].s) = batch[i]
             /\ Moving(batch, batch[i].s) = IF Crosses(batch[i]) THEN {batch[i]} ELSE {}
  <2>1. Legal(batch[i]) /\ RowOf(batch, batch[i].s) = batch[i]
    BY <1>1, BatchRows
  <2>2. \A j \in DOMAIN batch : \A k \in DOMAIN batch : batch[k].s = batch[j].s => k = j
    BY <1>1, BatchRows
  <2>3. Moving(batch, batch[i].s) = IF Crosses(batch[i]) THEN {batch[i]} ELSE {}
    BY <2>2, MovingIs
  <2>4. batch[i].s \in Slots
    BY <2>1 DEF Legal, Rows
  <2>5. QED
    BY <2>1, <2>3, <2>4
<1>3. \A s : (\A i \in DOMAIN batch : batch[i].s # s) => Moving(batch, s) = {}
  <2>1. \A j \in DOMAIN batch : \A k \in DOMAIN batch : batch[k].s = batch[j].s => k = j
    BY <1>1, BatchRows
  <2>2. QED
    BY <2>1, MovingIs
<1> DEFINE In(s)  == \E i \in DOMAIN batch : batch[i].s = s
           Row(s) == RowOf(batch, s)
           Fill   == DOMAIN Later(batch) # DOMAIN batch
<1>4. /\ col' = [s \in Slots |-> IF In(s) THEN New(Row(s)) ELSE col[s]]
      /\ acc' = [s \in Slots |-> IF In(s) /\ (Fill \/ Crosses(Row(s))) THEN 1 ELSE acc[s]]
      /\ computed' = [s \in Slots |-> IF In(s) THEN computed[s] + Row(s).n ELSE computed[s]]
      /\ conv' = [s \in Slots |-> IF In(s) THEN ForwardConv(Row(s), PrecopiedConv(batch, s))
                                  ELSE PrecopiedConv(batch, s)]
      /\ temporal' = [s \in Slots |->
           IF In(s) THEN ForwardTemporal(Row(s), PrecopiedTemporal(batch, s))
           ELSE PrecopiedTemporal(batch, s)]
  BY DEF Run
<1>5. ASSUME NEW i \in DOMAIN batch
      PROVE  /\ PrecopiedConv(batch, batch[i].s) =
                  IF Crosses(batch[i])
                  THEN CopyConv(conv[batch[i].s], col[batch[i].s], New(batch[i]), SrcOff(batch[i]))
                  ELSE conv[batch[i].s]
             /\ PrecopiedTemporal(batch, batch[i].s) =
                  IF Crosses(batch[i])
                  THEN CopyTemporal(temporal[batch[i].s], col[batch[i].s], New(batch[i]),
                                    SrcOff(batch[i]))
                  ELSE temporal[batch[i].s]
  <2>1. PICK r : r = batch[i]
    OBVIOUS
  <2>2. Moving(batch, r.s) = IF Crosses(r) THEN {r} ELSE {}
    BY <1>2, <2>1
  <2>3. (CHOOSE y \in {r} : TRUE) = r
    OBVIOUS
  <2>4. QED
    BY <2>1, <2>2, <2>3 DEF PrecopiedConv, PrecopiedTemporal
<1>6. \A i \in DOMAIN batch : In(batch[i].s) /\ Row(batch[i].s) = batch[i]
  BY <1>2
<1>7. \A s : (\A i \in DOMAIN batch : batch[i].s # s) =>
        ~In(s) /\ PrecopiedConv(batch, s) = conv[s] /\ PrecopiedTemporal(batch, s) = temporal[s]
  BY <1>3 DEF PrecopiedConv, PrecopiedTemporal
<1> HIDE DEF In, Row, Fill
<1>8. ASSUME NEW i \in DOMAIN batch
      PROVE  /\ col'[batch[i].s] = New(batch[i])
             /\ computed'[batch[i].s] = computed[batch[i].s] + batch[i].n
             /\ acc'[batch[i].s] \in {1, acc[batch[i].s]}
             /\ DOMAIN Later(batch) # DOMAIN batch => acc'[batch[i].s] = 1
             /\ conv'[batch[i].s] = ForwardConv(batch[i], PrecopiedConv(batch, batch[i].s))
             /\ temporal'[batch[i].s] =
                  ForwardTemporal(batch[i], PrecopiedTemporal(batch, batch[i].s))
  BY <1>2, <1>4, <1>6 DEF Fill
<1>9. ASSUME NEW s \in Slots, \A i \in DOMAIN batch : batch[i].s # s
      PROVE  Untouched(s) /\ acc'[s] = acc[s]
  BY <1>1, <1>4, <1>7, <1>9 DEF Untouched, Unmoved
<1>10. /\ DOMAIN col' = Slots /\ DOMAIN computed' = Slots /\ DOMAIN acc' = Slots
       /\ DOMAIN conv' = Slots /\ DOMAIN temporal' = Slots
       /\ col' = [s \in Slots |-> col'[s]] /\ computed' = [s \in Slots |-> computed'[s]]
       /\ acc' = [s \in Slots |-> acc'[s]] /\ conv' = [s \in Slots |-> conv'[s]]
       /\ temporal' = [s \in Slots |-> temporal'[s]]
  BY <1>4
<1>11. QED
  BY <1>5, <1>8, <1>9, <1>10

(* The slot of a row after the step: what stays of the batch is left where  *)
(* the relay will look for it, and nothing in front of it has changed.      *)
LEMMA RunRow ==
  ASSUME IInv, todo = {}, NEW batch \in Batches, Run(batch),
         NEW i \in DOMAIN batch, NEW row, row = batch[i]
  PROVE  /\ RelayOK(row)'
         /\ conv'[row.s] \in [Cols -> Windows] /\ temporal'[row.s] \in [Cols -> State]
<1>1. TypeOK /\ launch \in Launches /\ launch' = launch /\ plen' = plen
  BY Typed DEF IInv, Run
<1>2. K \in Nat \ {0} /\ BS \in Nat \ {0} /\ MaxPos \in Nat
  BY <1>1, Sizes
<1>3. Legal(row)
  BY <1>1, BatchRows
<1>a. PICK s, x0, n, a, w, t :
        /\ s = row.s /\ x0 = computed[s] /\ n = New(row) /\ a = Accepted(row.sampled)
        /\ w = IF Crosses(row) THEN CopyConv(conv[s], col[s], New(row), SrcOff(row)) ELSE conv[s]
        /\ t = IF Crosses(row) THEN CopyTemporal(temporal[s], col[s], New(row), SrcOff(row))
               ELSE temporal[s]
  OBVIOUS
<1>4. /\ s \in Slots /\ x0 \in 0..MaxPos /\ n \in Nat /\ n \in Cols
      /\ End(n) \in Int /\ x0 + row.n <= End(n)
  BY <1>1, <1>3, <1>a, LegalWindow
<1>5. /\ row \in Rows /\ RowOK(row) /\ plen[s] # 0 /\ ~Pending(s) /\ x0 + row.n <= MaxPos
      /\ row.d = 0 => row.n = 1 \/ x0 + row.n <= plen[s]
  BY <1>3, <1>a DEF Legal
<1>6. /\ row.n \in 1..MaxPos /\ row.keep \in 1..row.n /\ a \in 1..(K + 1)
      /\ Rejected(row) = row.n - row.keep
      /\ row.d = 0 => a = 1 /\ row.keep = row.n
      /\ row.d # 0 => a = row.keep
  <2>1. row.d = 0 => row.keep = row.n
    BY <1>2, <1>5 DEF RowOK
  <2>2. QED
    BY <1>1, <1>5, <1>a, <2>1, RowCounts
<1>7. /\ col'[s] = n /\ computed'[s] = x0 + row.n
      /\ conv'[s] = ForwardConv(row, w) /\ temporal'[s] = ForwardTemporal(row, t)
  <2>1. IInv /\ batch \in Batches /\ Run(batch) /\ i \in DOMAIN batch
    OBVIOUS
  <2>2. /\ col'[batch[i].s] = New(batch[i])
        /\ computed'[batch[i].s] = computed[batch[i].s] + batch[i].n
    BY ONLY <2>1, RunEffect
  <2>3. conv'[batch[i].s] = ForwardConv(batch[i],
                   IF Crosses(batch[i])
                   THEN CopyConv(conv[batch[i].s], col[batch[i].s], New(batch[i]), SrcOff(batch[i]))
                   ELSE conv[batch[i].s])
    BY ONLY <2>1, RunEffect
  <2>4. temporal'[batch[i].s] = ForwardTemporal(batch[i],
                   IF Crosses(batch[i])
                   THEN CopyTemporal(temporal[batch[i].s], col[batch[i].s], New(batch[i]),
                                     SrcOff(batch[i]))
                   ELSE temporal[batch[i].s])
    BY ONLY <2>1, RunEffect
  <2>5. QED
    BY <1>a, <2>2, <2>3, <2>4
<1>8. IdleSlot(s) /\ \A kind \in Kinds : Saved(kind, s, x0)
  <2>1. IdleSlot(s)
    BY <1>4, <1>5 DEF IInv, IdleOK
  <2>2. Rest(s) = {}
    BY Quiet
  <2>3. QED
    BY <1>a, <2>1, <2>2 DEF IdleSlot, Exactly
<1>9. /\ w \in [Cols -> Windows] /\ t \in [Cols -> State]
      /\ InitConv(row, w) = After(s, x0) /\ InitTemporal(row, t) = After(s, x0)
      /\ \A x \in Int : x < n => /\ InWindows(w, x, 0) = InWindows(conv[s], x, 0)
                                 /\ InStates(t, x, 0) = InStates(temporal[s], x, 0)
  <2>1. CASE x0 = 0
    <3>1. col[s] = -1
      BY <1>8, <1>a, <2>1 DEF IdleSlot
    <3>2. ~Crosses(row)
      BY <1>a, <3>1 DEF Crosses
    <3>3. w = conv[s] /\ t = temporal[s]
      BY <1>a, <3>2
    <3>4. InitConv(row, w) = After(s, x0) /\ InitTemporal(row, t) = After(s, x0)
      BY <1>a, <2>1 DEF InitConv, InitTemporal
    <3>5. QED
      BY <1>1, <1>4, <3>3, <3>4, Typed
  <2>2. CASE x0 > 0
    <3>1. /\ IInv /\ todo = {} /\ Legal(row) /\ computed[row.s] > 0
          /\ w = IF Crosses(row) THEN CopyConv(conv[row.s], col[row.s], New(row), SrcOff(row))
                 ELSE conv[row.s]
          /\ t = IF Crosses(row)
                 THEN CopyTemporal(temporal[row.s], col[row.s], New(row), SrcOff(row))
                 ELSE temporal[row.s]
      BY <1>3, <1>a, <2>2
    <3>2. w \in [Cols -> Windows] /\ t \in [Cols -> State]
      BY ONLY <3>1, PrecopyFound
    <3>3. InWindows(w, New(row), Bias(row)) = After(row.s, computed[row.s])
      BY ONLY <3>1, PrecopyFound
    <3>4. InStates(t, New(row), Bias(row)) = After(row.s, computed[row.s])
      BY ONLY <3>1, PrecopyFound
    <3>5. \A x \in Int : x < New(row) => /\ InWindows(w, x, 0) = InWindows(conv[row.s], x, 0)
                                         /\ InStates(t, x, 0) = InStates(temporal[row.s], x, 0)
      BY ONLY <3>1, PrecopyFound
    <3>6. After(s, x0) # Junk
      BY <1>1, <1>4, StateTyped
    <3>7. computed[row.s] # 0
      BY <1>2, <1>4, <1>a, <2>2
    <3>8. InitConv(row, w) = After(s, x0) /\ InitTemporal(row, t) = After(s, x0)
      BY <1>a, <3>3, <3>4, <3>6, <3>7 DEF InWindows, InStates, InitConv, InitTemporal
    <3>9. QED
      BY <1>a, <3>2, <3>5, <3>8
  <2>3. QED
    BY <1>2, <1>4, <2>1, <2>2
<1>10. /\ ForwardConv(row, w) \in [Cols -> Windows]
       /\ \A j \in 1..a : InWindows(ForwardConv(row, w), n, j - 1) = After(s, x0 + row.keep - a + j)
       /\ \A x, j : x # n => InWindows(ForwardConv(row, w), x, j) = InWindows(w, x, j)
  <2>1. /\ TypeOK /\ Legal(row) /\ w \in [Cols -> Windows]
        /\ InitConv(row, w) = After(row.s, computed[row.s])
    BY <1>1, <1>3, <1>9, <1>a
  <2>2. /\ ForwardConv(row, w) \in [Cols -> Windows]
        /\ \A j \in 1..Accepted(row.sampled) :
             InWindows(ForwardConv(row, w), New(row), j - 1)
               = After(row.s, computed[row.s] + row.keep - Accepted(row.sampled) + j)
        /\ \A x, j : x # New(row) => InWindows(ForwardConv(row, w), x, j) = InWindows(w, x, j)
    BY ONLY <2>1, ForwardConvFound
  <2>3. QED
    BY <1>a, <2>2
<1>11. /\ ForwardTemporal(row, t) \in [Cols -> State]
       /\ \A j \in 1..a : InStates(ForwardTemporal(row, t), n, j - 1) = After(s, x0 + row.keep - a + j)
       /\ \A x \in Int : x < n => InStates(ForwardTemporal(row, t), x, 0) = InStates(t, x, 0)
  <2>1. /\ TypeOK /\ Legal(row) /\ t \in [Cols -> State]
        /\ InitTemporal(row, t) = After(row.s, computed[row.s])
    BY <1>1, <1>3, <1>9, <1>a
  <2>2. /\ ForwardTemporal(row, t) \in [Cols -> State]
        /\ \A j \in 1..Accepted(row.sampled) :
             InStates(ForwardTemporal(row, t), New(row), j - 1)
               = After(row.s, computed[row.s] + row.keep - Accepted(row.sampled) + j)
        /\ \A x \in Int : x < New(row) =>
             InStates(ForwardTemporal(row, t), x, 0) = InStates(t, x, 0)
    BY ONLY <2>1, ForwardTemporalFound
  <2>3. QED
    BY <1>a, <2>2
<1>12. Cols' = Cols /\ (\A x : End(x)' = End(x))
       /\ \A x, j : /\ Found("conv", s, x, j)' = InWindows(conv'[s], x, j)
                    /\ Found("temporal", s, x, j)' = InStates(temporal'[s], x, j)
  BY <1>1, SameLaunch DEF Found, InWindows, InStates
<1>13. ASSUME NEW kind \in Kinds
       PROVE  /\ \A j \in 1..a : Found(kind, s, n, j - 1)' = After(s, x0 + row.keep - a + j)
              /\ \A x \in Int : x < n => Found(kind, s, x, 0)' = Found(kind, s, x, 0)
  <2>1. CASE kind = "conv"
    <3>1. \A x \in Int : x < n => x # n
      BY <1>4
    <3>2. QED
      BY <1>7, <1>9, <1>10, <1>12, <2>1, <3>1 DEF Found
  <2>2. CASE kind = "temporal"
    BY <1>7, <1>9, <1>11, <1>12, <2>2 DEF Found
  <2>3. QED
    BY <2>1, <2>2 DEF Kinds
<1>14. Reach(s, a, x0 + row.keep)'
  <2>1. a <= x0 + row.keep /\ x0 + row.keep <= End(n) /\ n >= 0
    BY <1>2, <1>4, <1>6
  <2>2. QED
    BY <1>1, <1>5, <1>7, <1>12, <2>1 DEF Reach
<1>15. ASSUME NEW kind \in Kinds PROVE Saved(kind, s, x0 + row.keep - a)'
  <2> SUFFICES ASSUME NEW x \in Cols, plen[s] <= End(x), End(x) <= x0 + row.keep - a
               PROVE  Found(kind, s, x, 0)' = After(s, End(x))
    BY <1>1, <1>12 DEF Saved
  <2>1. x \in Int /\ End(x) \in Int
    <3>1. x \in Int
      BY <1>1, <1>2, ColsTyped
    <3>2. QED
      BY <1>1, <3>1, EndInt
  <2>2. plen[s] \in 0..MaxPos
    BY <1>1, <1>4, Typed
  <2>3. End(x) <= x0
    BY <1>2, <1>4, <1>5, <1>6, <2>1, <2>2
  <2>4. x < n
    <3> SUFFICES ASSUME n <= x PROVE FALSE
      BY <1>4, <2>1
    <3>1. End(n) <= End(x)
      <4>1. CASE n = x
        BY <1>4, <4>1
      <4>2. CASE n < x
        <5>1. End(n) + BS <= End(x)
          BY <1>1, <1>4, <2>1, <4>2, EndMono
        <5>2. QED
          BY <1>2, <1>4, <2>1, <5>1
      <4>3. QED
        BY <1>4, <2>1, <4>1, <4>2
    <3>2. QED
      BY <1>2, <1>4, <1>6, <2>1, <2>3, <3>1
  <2>5. Found(kind, s, x, 0) = After(s, End(x))
    BY <1>8, <2>3 DEF Saved
  <2>6. QED
    BY <1>13, <2>1, <2>4, <2>5
<1>16. Stays(row)' = x0 + row.keep
  <2>1. Stays(row)' = x0 + row.n - (row.n - row.keep)
    <3>1. Rejected(row)' = Rejected(row)
      BY DEF Rejected
    <3>2. Stays(row)' = computed'[row.s] - Rejected(row)'
      BY DEF Stays
    <3>3. QED
      BY <1>2, <1>4, <1>6, <1>7, <1>a, <3>1, <3>2
  <2>2. QED
    BY <1>2, <1>4, <1>6, <2>1
<1>17. RelayOK(row)'
  <2>1. RowOK(row)'
    BY <1>1, <1>5, SameLaunch DEF RowOK
  <2>a. PICK m \in Nat : m = x0 + row.keep
    BY <1>2, <1>4, <1>6
  <2>2. ASSUME NEW kind \in Kinds PROVE Left(kind, s, a, m)'
    <3>1. \A j \in 1..a : Found(kind, s, n, j - 1)' = After(s, m - a + j)
      BY <1>2, <1>4, <1>6, <1>13, <2>a
    <3>2. Left(kind, s, a, m)' <=> \A j \in 1..a : Found(kind, s, n, j - 1)' = After(s, m - a + j)
      BY <1>7 DEF Left
    <3>3. QED
      BY <3>1, <3>2
  <2>b. \A kind \in Kinds : Saved(kind, s, m - a)'
    BY <1>2, <1>4, <1>6, <1>15, <2>a
  <2>3. \A kind \in Kinds : Unsaved(kind, s, a, m)'
    BY <2>2, <2>b DEF Unsaved
  <2>4. Accepted(row.sampled)' = a
    BY <1>a DEF Accepted
  <2>5. QED
    BY <1>14, <1>16, <1>a, <2>1, <2>a, <2>3, <2>4 DEF RelayOK, Kinds
<1>18. QED
  BY <1>7, <1>10, <1>11, <1>17, <1>a

LEMMA QueueAppend ==
  ASSUME IInv, NEW r
  PROVE  /\ Len(Append(queue, r)) = Len(queue) + 1
         /\ DOMAIN Append(queue, r) = 1..(Len(queue) + 1)
         /\ \A i \in 1..Len(queue) : Append(queue, r)[i] = queue[i]
         /\ Append(queue, r)[Len(queue) + 1] = r
         /\ Append(queue, r) = [i \in 1..(Len(queue) + 1) |-> Append(queue, r)[i]]
<1> DEFINE E == {queue[i] : i \in DOMAIN queue} \cup {r}
<1>1. queue \in Seq(E) /\ r \in E /\ Len(queue) \in Nat /\ DOMAIN queue = 1..Len(queue)
  <2>1. queue = [i \in 1..Len(queue) |-> queue[i]] /\ Len(queue) \in Nat
    BY QueueDomain DEF IInv, QueueShape
  <2>2. (\A i \in 1..Len(queue) : queue[i] \in E) /\ r \in E
    BY QueueDomain
  <2> HIDE DEF E
  <2>3. queue \in [1..Len(queue) -> E]
    BY <2>1, <2>2
  <2>4. QED
    BY <2>1, <2>2, <2>3, QueueDomain
<1> HIDE DEF E
<1>2. Append(queue, r) \in Seq(E) /\ Len(Append(queue, r)) = Len(queue) + 1
      /\ Append(queue, r)[Len(queue) + 1] = r
      /\ \A i \in 1..Len(queue) : Append(queue, r)[i] = queue[i]
  BY <1>1, AppendProperties
<1>3. PICK q : q = Append(queue, r)
  OBVIOUS
<1>4. q \in Seq(E) /\ Len(q) = Len(queue) + 1
  BY <1>2, <1>3
<1>5. DOMAIN q = 1..(Len(queue) + 1)
  BY <1>4
<1>6. q = [i \in 1..(Len(queue) + 1) |-> q[i]]
  <2>1. q = [i \in DOMAIN q |-> q[i]]
    BY <1>4
  <2>2. QED
    BY <1>5, <2>1
<1>7. QED
  BY <1>2, <1>3, <1>4, <1>5, <1>6

LEMMA RunInv ==
  ASSUME IInv, Ready, NEW batch \in Batches, Run(batch)
  PROVE  IInv'
<1>1. TypeOK /\ launch \in Launches /\ launch' = launch /\ todo = {} /\ todo' = {}
      /\ plen' = plen /\ entry' = entry /\ snap' = snap
  BY Typed DEF IInv, Run, Ready
<1>2. K \in Nat \ {0} /\ MaxPos \in Nat /\ Depth \in Nat \ {0}
  BY <1>1, Sizes
<1>a. PICK late, m : late = Later(batch) /\ m = Len(queue)
  OBVIOUS
<1>3. /\ m \in (Depth - 1)..Depth /\ m < Depth /\ m \in Nat /\ DOMAIN queue = 1..m
      /\ queue' = Append(queue, late)
  BY <1>1, <1>2, <1>a, Typed, QueueDomain DEF Run, Ready
<1>4. /\ Len(queue') = m + 1 /\ DOMAIN queue' = 1..(m + 1) /\ queue'[m + 1] = late
      /\ \A i \in 1..m : queue'[i] = queue[i]
      /\ queue' = [i \in 1..(m + 1) |-> queue'[i]]
  BY <1>3, <1>a, QueueAppend
<1>5. IsEntry(batch) /\ \A i \in DOMAIN batch :
              /\ Legal(batch[i])
              /\ \A k \in DOMAIN batch : batch[k].s = batch[i].s => k = i
  BY <1>1, BatchRows
<1>6. \A i \in DOMAIN batch : batch[i].s \in Slots /\ ~Pending(batch[i].s) /\ plen[batch[i].s] # 0
  BY <1>5 DEF Legal, Rows
<1>7. /\ DOMAIN late = {j \in DOMAIN batch : IsLast \/ batch[j].sampled > 0}
      /\ \A j \in DOMAIN late : j \in DOMAIN batch /\ late[j] = batch[j]
      /\ late = [j \in DOMAIN late |-> late[j]]
  BY <1>a DEF Later
<1>8. IsEntry(late)
  BY <1>5, <1>7 DEF IsEntry
<1>9. /\ \A i \in DOMAIN batch :
           /\ col'[batch[i].s] = New(batch[i])
           /\ computed'[batch[i].s] = computed[batch[i].s] + batch[i].n
           /\ acc'[batch[i].s] \in {1, acc[batch[i].s]}
           /\ DOMAIN late # DOMAIN batch => acc'[batch[i].s] = 1
      /\ \A s \in Slots : (\A i \in DOMAIN batch : batch[i].s # s) =>
           Untouched(s) /\ acc'[s] = acc[s]
      /\ col' = [s \in Slots |-> col'[s]] /\ computed' = [s \in Slots |-> computed'[s]]
      /\ acc' = [s \in Slots |-> acc'[s]] /\ conv' = [s \in Slots |-> conv'[s]]
      /\ temporal' = [s \in Slots |-> temporal'[s]]
  <2>1. IInv /\ batch \in Batches /\ Run(batch)
    OBVIOUS
  <2>2. ASSUME NEW i \in DOMAIN batch
        PROVE  /\ col'[batch[i].s] = New(batch[i])
               /\ computed'[batch[i].s] = computed[batch[i].s] + batch[i].n
               /\ acc'[batch[i].s] \in {1, acc[batch[i].s]}
               /\ DOMAIN Later(batch) # DOMAIN batch => acc'[batch[i].s] = 1
    BY ONLY <2>1, RunEffect
  <2>3. ASSUME NEW s \in Slots, \A i \in DOMAIN batch : batch[i].s # s
        PROVE  Untouched(s) /\ acc'[s] = acc[s]
    BY ONLY <2>1, <2>3, RunEffect
  <2>4. /\ col' = [s \in Slots |-> col'[s]] /\ computed' = [s \in Slots |-> computed'[s]]
        /\ acc' = [s \in Slots |-> acc'[s]] /\ conv' = [s \in Slots |-> conv'[s]]
        /\ temporal' = [s \in Slots |-> temporal'[s]]
    BY ONLY <2>1, RunEffect
  <2>5. QED
    BY <1>a, <2>2, <2>3, <2>4
<1>10. ASSUME NEW i \in DOMAIN batch
       PROVE  /\ conv'[batch[i].s] \in [Cols -> Windows]
              /\ temporal'[batch[i].s] \in [Cols -> State]
              /\ \A r : r = batch[i] => RelayOK(r)'
  <2>1. PICK row : row = batch[i]
    OBVIOUS
  <2>2. IInv /\ todo = {} /\ batch \in Batches /\ Run(batch) /\ i \in DOMAIN batch /\ row = batch[i]
    BY <1>1, <2>1
  <2>3. RelayOK(row)'
    BY ONLY <2>2, RunRow
  <2>4. conv'[row.s] \in [Cols -> Windows] /\ temporal'[row.s] \in [Cols -> State]
    BY ONLY <2>2, RunRow
  <2>5. QED
    BY <2>1, <2>3, <2>4
<1>11. TypeOK'
  <2>1. ASSUME NEW s \in Slots
        PROVE  /\ computed'[s] \in 0..MaxPos /\ acc'[s] \in 1..(K + 1)
               /\ col'[s] \in -1..(MaxPos \div BS)
               /\ conv'[s] \in [Cols -> Windows] /\ temporal'[s] \in [Cols -> State]
    <3>1. /\ computed[s] \in 0..MaxPos /\ acc[s] \in 1..(K + 1) /\ col[s] \in -1..(MaxPos \div BS)
          /\ conv[s] \in [Cols -> Windows] /\ temporal[s] \in [Cols -> State]
      BY <1>1, Typed
    <3>2. CASE \A i \in DOMAIN batch : batch[i].s # s
      BY <1>9, <3>1, <3>2 DEF Untouched, Unmoved
    <3>3. CASE \E i \in DOMAIN batch : batch[i].s = s
      <4>1. PICK i \in DOMAIN batch : batch[i].s = s
        BY <3>3
      <4>2. New(batch[i]) \in 0..(MaxPos \div BS)
        BY <1>1, <1>5, LegalWindow
      <4>3. MaxPos \div BS \in Nat
        BY <1>1, ColsTyped
      <4>4. batch[i].n \in 1..MaxPos /\ computed[s] + batch[i].n <= MaxPos
        BY <1>5, <4>1 DEF Legal, Rows
      <4>5. computed'[s] \in 0..MaxPos
        BY <1>2, <1>9, <3>1, <4>1, <4>4
      <4>6. acc'[s] \in 1..(K + 1)
        BY <1>2, <1>9, <3>1, <4>1
      <4>7. col'[s] \in -1..(MaxPos \div BS)
        BY <1>9, <4>1, <4>2, <4>3
      <4>8. QED
        BY <1>10, <4>1, <4>5, <4>6, <4>7
    <3>4. QED
      BY <3>2, <3>3
  <2>2. /\ computed' \in [Slots -> 0..MaxPos] /\ acc' \in [Slots -> 1..(K + 1)]
        /\ col' \in [Slots -> -1..(MaxPos \div BS)]
    BY <1>9, <2>1
  <2>3. conv' \in [Slots -> [Cols -> Windows]] /\ temporal' \in [Slots -> [Cols -> State]]
    BY <1>9, <2>1
  <2>4. Len(queue') \in (Depth - 1)..Depth
    BY <1>2, <1>3, <1>4
  <2>5. \A i \in DOMAIN queue' : IsEntry(queue'[i])
    <3> SUFFICES ASSUME NEW i \in DOMAIN queue' PROVE IsEntry(queue'[i])
      OBVIOUS
    <3>1. i \in 1..m \/ i = m + 1
      BY <1>3, <1>4
    <3>2. \A k \in DOMAIN queue : IsEntry(queue[k])
      BY <1>1, Typed
    <3>3. QED
      BY <1>3, <1>4, <1>8, <3>1, <3>2
  <2>6. /\ plen' \in [Slots -> 0..MaxPos] /\ snap' \in [Slots -> 1..(K + 1)]
        /\ IsEntry(entry') /\ todo' \subseteq (DOMAIN entry') \X Kinds
    BY <1>1, Typed
  <2>7. QED
    BY <1>1, <2>2, <2>3, <2>4, <2>5, <2>6, TypedNext
<1>12. QueueShape'
  BY <1>4 DEF QueueShape
<1>13. ASSUME NEW i \in DOMAIN queue', NEW j \in DOMAIN queue'[i]
       PROVE  \/ i \in DOMAIN queue /\ queue'[i] = queue[i] /\ j \in DOMAIN queue[i]
              \/ i = m + 1 /\ queue'[i] = late /\ j \in DOMAIN batch /\ late[j] = batch[j]
  <2>1. i \in 1..m \/ i = m + 1
    BY <1>3, <1>4
  <2>2. QED
    BY <1>3, <1>4, <1>7, <2>1
<1>14. ASSUME NEW i \in DOMAIN queue, NEW j \in DOMAIN queue[i], NEW k \in DOMAIN batch
       PROVE  queue[i][j].s # batch[k].s
  BY <1>6 DEF Pending
<1>15. RelaysApart'
  <2> SUFFICES ASSUME NEW i \in DOMAIN queue', NEW k \in DOMAIN queue',
                      NEW j \in DOMAIN queue'[i], NEW l \in DOMAIN queue'[k],
                      queue'[i][j].s = queue'[k][l].s
               PROVE  i = k /\ j = l
    BY DEF RelaysApart
  <2>1. \/ i \in DOMAIN queue /\ queue'[i] = queue[i] /\ j \in DOMAIN queue[i]
        \/ i = m + 1 /\ queue'[i] = late /\ j \in DOMAIN batch /\ late[j] = batch[j]
    BY <1>13
  <2>2. \/ k \in DOMAIN queue /\ queue'[k] = queue[k] /\ l \in DOMAIN queue[k]
        \/ k = m + 1 /\ queue'[k] = late /\ l \in DOMAIN batch /\ late[l] = batch[l]
    BY <1>13
  <2>3. CASE i \in DOMAIN queue /\ queue'[i] = queue[i] /\ j \in DOMAIN queue[i]
    <3>1. CASE k \in DOMAIN queue /\ queue'[k] = queue[k] /\ l \in DOMAIN queue[k]
      BY <2>3, <3>1 DEF IInv, RelaysApart
    <3>2. CASE k = m + 1 /\ queue'[k] = late /\ l \in DOMAIN batch /\ late[l] = batch[l]
      BY <1>14, <2>3, <3>2
    <3>3. QED
      BY <2>2, <3>1, <3>2
  <2>4. CASE i = m + 1 /\ queue'[i] = late /\ j \in DOMAIN batch /\ late[j] = batch[j]
    <3>1. CASE k \in DOMAIN queue /\ queue'[k] = queue[k] /\ l \in DOMAIN queue[k]
      BY <1>14, <2>4, <3>1
    <3>2. CASE k = m + 1 /\ queue'[k] = late /\ l \in DOMAIN batch /\ late[l] = batch[l]
      BY <1>5, <2>4, <3>2
    <3>3. QED
      BY <2>2, <3>1, <3>2
  <2>5. QED
    BY <2>1, <2>3, <2>4
<1>16. RelaysOK'
  <2> SUFFICES ASSUME NEW i \in DOMAIN queue', NEW j \in DOMAIN queue'[i]
               PROVE  RelayOK(queue[i][j])'
    BY DEF RelaysOK
  <2>1. PICK r : r = queue'[i][j]
    OBVIOUS
  <2>2. CASE i \in DOMAIN queue /\ queue'[i] = queue[i] /\ j \in DOMAIN queue[i]
    <3>1. RelayOK(r)
      BY <2>1, <2>2 DEF IInv, RelaysOK
    <3>2. r.s \in Slots
      BY <1>1, <2>1, <2>2, Typed, RowTyped
    <3>3. \A k \in DOMAIN batch : batch[k].s # r.s
      BY <1>14, <2>1, <2>2
    <3>4. Untouched(r.s)
      BY <1>9, <3>2, <3>3
    <3>5. RelayOK(r)'
      BY <3>1, <3>4, SameRelay
    <3>6. QED
      BY <2>1, <3>5
  <2>3. CASE i = m + 1 /\ queue'[i] = late /\ j \in DOMAIN batch /\ late[j] = batch[j]
    <3>1. RelayOK(r)'
      BY <1>10, <2>1, <2>3
    <3>2. QED
      BY <2>1, <3>1
  <2>4. QED
    BY <1>13, <2>2, <2>3
<1>17. TodoOK' /\ \A y : Rest(y)' = {} /\ Rest(y) = {}
  BY <1>1, Quiet, QuietNext
<1>18. ASSUME NEW i \in DOMAIN batch, i \notin DOMAIN late PROVE IdleSlot(batch[i].s)'
  <2>1. PICK row, s, n : row = batch[i] /\ s = row.s /\ n = computed'[s]
    OBVIOUS
  <2>2. Legal(row) /\ row \in Rows /\ s \in Slots /\ row.n \in 1..MaxPos /\ row.sampled \in 0..(K + 1)
    BY <1>5, <2>1 DEF Legal, Rows
  <2>3. row.sampled = 0
    BY <1>2, <1>7, <1>18, <2>1, <2>2
  <2>4. computed[s] \in 0..MaxPos /\ plen[s] \in 0..MaxPos /\ computed[s] + row.n < plen[s]
    BY <1>1, <2>1, <2>2, <2>3, Typed DEF Legal
  <2>5. n = computed[s] + row.n /\ n \in Nat /\ n > 0 /\ n < plen[s] /\ acc'[s] = 1
    <3>1. DOMAIN late # DOMAIN batch
      BY <1>18
    <3>2. acc'[s] = 1
      BY <1>9, <2>1, <3>1
    <3>3. n = computed[s] + row.n
      BY <1>9, <2>1
    <3>4. QED
      BY <1>2, <2>2, <2>4, <3>2, <3>3
  <2>6. RelayOK(row)' /\ Accepted(row.sampled)' = 1 /\ Stays(row)' = n
    <3>1. RelayOK(row)'
      BY <1>10, <2>1
    <3>2. Accepted(row.sampled)' = 1 /\ Rejected(row)' = 0
      BY <2>3 DEF Accepted, Rejected
    <3>3. Stays(row)' = computed'[row.s] - Rejected(row)'
      BY DEF Stays
    <3>4. QED
      BY <2>1, <2>5, <3>1, <3>2, <3>3, n - 0 = n
  <2>7. Reach(s, 1, n)' /\ \A kind \in Kinds : Unsaved(kind, s, 1, n)'
    BY <2>1, <2>6 DEF RelayOK, Kinds
  <2>8. Selects(s)' = 1 /\ Rest(s)' = {}
    BY <1>17, <2>5 DEF Selects
  <2>9. ASSUME NEW kind \in Kinds PROVE Exactly(kind, s)'
    <3>1. Left(kind, s, 1, n)'
      BY <2>7 DEF Unsaved
    <3>2. Found(kind, s, col[s], 0)' = After(s, n)
      <4>1. 1 \in 1..1 /\ n - 1 + 1 = n
        BY <2>5
      <4>2. Left(kind, s, 1, n)' => Found(kind, s, col[s], 1 - 1)' = After(s, n - 1 + 1)
        BY <4>1 DEF Left
      <4>3. QED
        BY <3>1, <4>1, <4>2
    <3>3. Saved(kind, s, n)'
      <4>1. Cols' = Cols /\ \A c : End(c)' = End(c)
        BY <1>1, SameLaunch
      <4>2. \A c \in Cols : ~(plen[s] <= End(c) /\ End(c) <= n)
        <5>1. \A c \in Cols : End(c) \in Int
          BY <1>1, <1>2, EndInt, ColsTyped
        <5>2. QED
          BY <1>2, <2>4, <2>5, <5>1
      <4>3. QED
        BY <1>1, <4>1, <4>2 DEF Saved
    <3>4. QED
      BY <2>1, <2>8, <3>2, <3>3 DEF Exactly
  <2>10. computed'[s] > 0 /\ computed'[s] # 0 /\ col'[s] >= 0
    BY <2>1, <2>5, <2>7 DEF Reach
  <2>11. IdleSlot(s)'
    BY <2>8, <2>9, <2>10 DEF IdleSlot, Kinds
  <2>12. QED
    BY <2>1, <2>11
<1>19. IdleOK'
  <2> SUFFICES ASSUME NEW y \in Slots, plen'[y] # 0, ~Pending(y)' PROVE IdleSlot(y)'
    BY <1>1, SameLaunch DEF IdleOK
  <2>1. CASE \A i \in DOMAIN batch : batch[i].s # y
    <3>1. Untouched(y) /\ acc'[y] = acc[y] /\ snap'[y] = snap[y] /\ plen[y] # 0
      BY <1>1, <1>9, <2>1
    <3>2. ~Pending(y)
      <4> SUFFICES ASSUME NEW i \in DOMAIN queue, NEW j \in DOMAIN queue[i], queue[i][j].s = y
                   PROVE  FALSE
        BY DEF Pending
      <4>1. i \in DOMAIN queue' /\ queue'[i] = queue[i]
        BY <1>3, <1>4
      <4>2. QED
        BY <4>1 DEF Pending
    <3>3. IdleSlot(y)
      BY <3>1, <3>2 DEF IInv, IdleOK
    <3>4. QED
      BY <1>17, <3>1, <3>3, SameIdle
  <2>2. CASE \E i \in DOMAIN batch : batch[i].s = y
    <3>1. PICK i \in DOMAIN batch : batch[i].s = y
      BY <2>2
    <3>2. i \notin DOMAIN late
      <4> SUFFICES ASSUME i \in DOMAIN late PROVE FALSE
        OBVIOUS
      <4>1. m + 1 \in DOMAIN queue' /\ queue'[m + 1] = late /\ late[i].s = y
        BY <1>3, <1>4, <1>7, <3>1
      <4>2. QED
        BY <4>1 DEF Pending
    <3>3. \A s : s = y => IdleSlot(batch[i].s)' /\ batch[i].s = s
      BY <1>18, <3>1, <3>2
    <3>4. QED
      BY <3>3
  <2>3. QED
    BY <2>1, <2>2
<1>20. QED
  BY <1>11, <1>12, <1>15, <1>16, <1>17, <1>19 DEF IInv

-----------------------------------------------------------------------------
(* The theorems.                                                            *)

LEMMA NextInv == IInv /\ [Next]_vars => IInv'
<1> SUFFICES ASSUME IInv, [Next]_vars PROVE IInv'
  OBVIOUS
<1>1. CASE \E s \in Slots, hits, len \in 0..MaxPos : Admit(s, hits, len)
  BY <1>1, AdmitInv
<1>2. CASE \E s \in Slots : Release(s)
  BY <1>2, ReleaseInv
<1>3. CASE Ready /\ \E batch \in Batches : Run(batch)
  BY <1>3, RunInv
<1>4. CASE Consume
  BY <1>4, ConsumeInv
<1>5. CASE \E i \in DOMAIN entry, kind \in Kinds : Program(i, kind)
  BY <1>5, ProgramInv
<1>6. CASE UNCHANGED vars
  <2>1. /\ launch' = launch /\ plen' = plen /\ computed' = computed /\ acc' = acc /\ col' = col
        /\ conv' = conv /\ temporal' = temporal /\ queue' = queue /\ entry' = entry
        /\ snap' = snap /\ todo' = todo
    BY <1>6 DEF vars, slotVars
  <2>2. TypeOK /\ launch \in Launches
    BY Typed DEF IInv
  <2>3. TypeOK'
    BY <2>1, <2>2, Typed, TypedNext
  <2>4. \A s : Untouched(s)
    BY <2>1 DEF Untouched, Unmoved
  <2>5. QueueShape' /\ RelaysApart' /\ \A s : Pending(s)' <=> Pending(s)
    BY <2>1 DEF IInv, QueueShape, RelaysApart, Pending
  <2>6. RelaysOK'
    <3> SUFFICES ASSUME NEW i \in DOMAIN queue, NEW j \in DOMAIN queue[i] PROVE RelayOK(queue[i][j])'
      BY <2>1 DEF RelaysOK
    <3>1. PICK r : r = queue[i][j]
      OBVIOUS
    <3>2. RelayOK(r)'
      BY <2>4, <3>1, SameRelay DEF IInv, RelaysOK
    <3>3. QED
      BY <2>1, <3>1, <3>2
  <2>7. \A s : Rest(s)' = Rest(s)
    BY <2>1 DEF Rest, Kinds
  <2>8. TodoOK'
    <3> SUFFICES ASSUME NEW i \in DOMAIN entry, NEW kind \in Kinds, <<i, kind>> \in todo
                 PROVE  /\ ~Pending(entry[i].s)'
                        /\ Reach(entry[i].s, snap[entry[i].s], computed[entry[i].s])'
                        /\ Unsaved(kind, entry[i].s, snap[entry[i].s], computed[entry[i].s])'
                        /\ \A k \in DOMAIN entry : entry[k].s = entry[i].s => k = i
      BY <2>1 DEF TodoOK, Kinds
    <3>1. PICK s, a, n : s = entry[i].s /\ a = snap[s] /\ n = computed[s]
      OBVIOUS
    <3>2. /\ ~Pending(s) /\ Reach(s, a, n) /\ Unsaved(kind, s, a, n)
          /\ \A k \in DOMAIN entry : entry[k].s = s => k = i
      BY <3>1 DEF IInv, TodoOK
    <3>3. ~Pending(s)' /\ Reach(s, a, n)' /\ Unsaved(kind, s, a, n)'
      BY <2>4, <2>5, <3>2, SameUnsaved DEF Untouched
    <3>4. QED
      BY <2>1, <3>1, <3>2, <3>3
  <2>9. IdleOK'
    <3> SUFFICES ASSUME NEW s \in Slots, plen[s] # 0, ~Pending(s) PROVE IdleSlot(s)'
      BY <2>1, <2>5, SameLaunch DEF IdleOK
    <3>1. IdleSlot(s)
      BY DEF IInv, IdleOK
    <3>2. QED
      BY <2>1, <2>4, <2>7, <3>1, SameIdle
  <2>10. QED
    BY <2>3, <2>5, <2>6, <2>8, <2>9 DEF IInv
<1>7. QED
  BY <1>1, <1>2, <1>3, <1>4, <1>5, <1>6 DEF Next

LEMMA SpecInv == Spec => []IInv
<1>1. QED
  BY InitInv, NextInv, PTL DEF Spec

(* Whatever the launch: counts, columns and windows stay in range, every    *)
(* copy is within the block tables and the relay keeps its depth            *)
(* (mamba_hybrid.py, mamba_utils.py).                                       *)
THEOREM TypeCorrect == Spec => []TypeOK
<1>1. IInv => TypeOK
  BY DEF IInv
<1>2. QED
  BY <1>1, SpecInv, PTL

LEMMA SettledExactly ==
  ASSUME IInv, NEW s \in Slots, Settled(s), NEW kind \in Kinds
  PROVE  /\ computed[s] > 0 => Found(kind, s, col[s], acc[s] - 1) = After(s, computed[s])
         /\ Saved(kind, s, computed[s])
<1>1. IdleSlot(s) /\ Rest(s) = {}
  BY Quiet DEF Settled, Ready, IInv, IdleOK
<1>2. QED
  BY <1>1 DEF IdleSlot, Exactly, Selects

(* Whatever the launch, and in whatever order the programs of a postprocess *)
(* run: between two steps the running column and the accepted count select  *)
(* the state after exactly the computed tokens, in both kinds of state.     *)
THEOREM RunningStaysExact == Spec => []RunningExact
<1>1. IInv => RunningExact
  <2> SUFFICES ASSUME IInv, NEW s \in Slots, Settled(s), computed[s] > 0
               PROVE  /\ At(conv[s][col[s]], acc[s] - 1) = After(s, computed[s])
                      /\ temporal[s][col[s] + acc[s] - 1] = After(s, computed[s])
    BY DEF RunningExact
  <2>1. TypeOK /\ launch \in Launches /\ K \in Nat
    BY Typed, Sizes DEF IInv
  <2>2. computed[s] \in 0..MaxPos /\ acc[s] \in 1..(K + 1) /\ col[s] \in -1..(MaxPos \div BS)
    BY <2>1, Typed
  <2>3. After(s, computed[s]) # Junk
    BY <2>1, <2>2, StateTyped
  <2>4. \A kind \in Kinds : Found(kind, s, col[s], acc[s] - 1) = After(s, computed[s])
    BY SettledExactly
  <2>5. InWindows(conv[s], col[s], acc[s] - 1) = After(s, computed[s])
        /\ InStates(temporal[s], col[s], acc[s] - 1) = After(s, computed[s])
    BY <2>4 DEF Found, Kinds
  <2>6. col[s] \in Int /\ acc[s] \in Int /\ col[s] + acc[s] - 1 = col[s] + (acc[s] - 1)
    <3>1. MaxPos \div BS \in Nat
      BY <2>1, ColsTyped
    <3>2. QED
      BY <2>1, <2>2, <3>1
  <2>7. QED
    BY <2>3, <2>5, <2>6 DEF InWindows, InStates
<1>2. QED
  BY <1>1, SpecInv, PTL

(* Whatever the launch: a full block that ends at or behind the end of the  *)
(* prompt holds the state at its end, in both kinds of state, whenever the  *)
(* request is not in a step; a request that hits the block reads it.        *)
THEOREM CheckpointsStayExact == Spec => []CheckpointsExact
<1>1. IInv => CheckpointsExact
  <2> SUFFICES ASSUME IInv, NEW s \in Slots, Settled(s), NEW c \in Cols,
                      plen[s] <= End(c), End(c) <= computed[s]
               PROVE  At(conv[s][c], 0) = After(s, End(c)) /\ temporal[s][c] = After(s, End(c))
    BY DEF CheckpointsExact, End
  <2>1. launch \in Launches /\ K \in Nat
    BY Typed, Sizes DEF IInv
  <2>2. c + 0 = c
    BY <2>1, ColsTyped
  <2>3. \A kind \in Kinds : Found(kind, s, c, 0) = After(s, End(c))
    BY SettledExactly DEF Saved
  <2>4. QED
    BY <2>2, <2>3 DEF Found, Kinds, InWindows, InStates
<1>2. QED
  BY <1>1, SpecInv, PTL
=============================================================================
