------------------------------ MODULE KpoolTail ------------------------------
(***************************************************************************)
(* The kpool indexer's key cache.  KPool consecutive tokens of a request   *)
(* are compressed into one pooled key.  A pool that completes inside a     *)
(* prefill batch is compressed from the batch; the raw keys of an          *)
(* unfinished pool wait in the request's tail ring, one block of KPool     *)
(* entries, until decode or verify tokens complete it.                     *)
(* (kpool_compress.py, sparse_attn_indexer_kpool.py, mla/indexer.py)       *)
(*                                                                         *)
(* A key is <<request, position, accepted>>: the third component tells     *)
(* whether the token the key was computed from is the one that stays at    *)
(* the position, or a draft that verification rejects.  What a pooled key  *)
(* must hold is the keys of its own request and positions, none rejected.  *)
(***************************************************************************)
EXTENDS Integers, Sequences

CONSTANTS
  Reqs,       \* requests
  Blocks,     \* tail blocks (KpoolTailManager gives each request one)
  NoBlock,    \* a request that is not running
  NoKey,      \* an entry never written
  KPool,      \* index_kpool
  MaxNextN,   \* tokens per request in a decode batch: num_speculative_tokens + 1
  MaxPos      \* bound: positions

ASSUME KpoolAssumption ==
  /\ KPool \in Nat \ {0, 1}
  /\ MaxNextN \in Nat \ {0}
  /\ MaxPos \in Nat
  /\ NoBlock \notin Blocks

VARIABLES
  own,       \* [Reqs -> tail block]: column 0 of the tail group's block table
  computed,  \* [Reqs -> tokens whose keys are final]
  goal,      \* [Reqs -> prefill length]
  work,      \* [Reqs -> progress of the decode kernel's program: n, acc, t]
  ring,      \* [Blocks -> [Offsets -> key]]: tail_kv_cache
  pool       \* [Reqs -> [PoolIds -> [Offsets -> key]]]: the pooled keys

vars == <<own, computed, goal, work, ring, pool>>

Offsets == 0..(KPool - 1)
PoolIds == 0..(MaxPos \div KPool)
Idle    == [n |-> 0, acc |-> 0, t |-> 0]
Unwritten == [i \in Offsets |-> NoKey]

Key(r, pos, ok) == <<r, pos, ok>>

\* The keys a finished pool has to be made of.
Exact(r, j) == [i \in Offsets |-> Key(r, j * KPool + i, TRUE)]

-----------------------------------------------------------------------------
(* A request starts with no tokens or behind a cached prefix of whole pools *)
(* and gets a tail block, which keeps what its last owner left in it.       *)

Admit(r, b, hits, len) ==
  /\ own[r] = NoBlock
  /\ \A q \in Reqs : own[q] # b
  /\ hits * KPool < len /\ len < MaxPos
  /\ own' = [own EXCEPT ![r] = b]
  /\ computed' = [computed EXCEPT ![r] = hits * KPool]
  /\ goal' = [goal EXCEPT ![r] = len]
  /\ pool' = [pool EXCEPT ![r] = [j \in PoolIds |-> IF j < hits THEN Exact(r, j)
                                                    ELSE Unwritten]]
  /\ UNCHANGED <<work, ring>>

\* Finished or preempted between two steps.
Release(r) ==
  /\ own[r] # NoBlock /\ work[r] = Idle
  /\ own' = [own EXCEPT ![r] = NoBlock]
  /\ computed' = [computed EXCEPT ![r] = 0] /\ goal' = [goal EXCEPT ![r] = 0]
  /\ pool' = [pool EXCEPT ![r] = [j \in PoolIds |-> Unwritten]]
  /\ UNCHANGED <<work, ring>>

-----------------------------------------------------------------------------
(* Prefill.  The batch is the concatenation of the requests' chunks.        *)

\* Mutant: the generic slot kernel: the first physical block once pos >= KPool.
TailBlock_Generic(r, pos) ==
  IF pos < KPool THEN own[r] ELSE CHOOSE b \in Blocks : TRUE

\* KpoolTailMetadataBuilder: every token of a request lands in its own block.
TailBlock(r, pos) == own[r]

\* tail slot = block * kpool + pos % kpool: the offset in the block.
TailOffset(pos) == pos % KPool

\* A chunk starts at a pool boundary and ends at one or at the prefill length.
Chunks(r) ==
  {n \in 1..(goal[r] - computed[r]) :
     /\ own[r] # NoBlock /\ work[r] = Idle
     /\ computed[r] % KPool = 0
     /\ (computed[r] + n) % KPool = 0 \/ computed[r] + n = goal[r]}

Batch(r, n, q, m) ==
  [i \in 1..(n + m) |-> IF i <= n THEN [r |-> r, pos |-> computed[r] + i - 1]
                        ELSE [r |-> q, pos |-> computed[q] + i - n - 1]]

KeyOf(token) == Key(token.r, token.pos, TRUE)

\* _kpool_compress_insert: batch row i completes pool j of request r.  The
\* gathered rows are the KPool rows up to i, whosever they are.
Completes(batch, i, r, j) ==
  /\ i >= KPool
  /\ batch[i].r = r
  /\ batch[i].pos = j * KPool + KPool - 1

Gathered(batch, i) == [o \in Offsets |-> KeyOf(batch[i - (KPool - 1) + o])]

\* Mutant: seed the trailing tokens of the batch, not of each request.
Seeds_BatchTail(batch, i) == i > Len(batch) - (Len(batch) % KPool)

\* _kpool_tail_seed_kernel: token i is among the last KPool of its request iff
\* the token KPool ahead is in another tail block or past the batch.
Seeds(batch, i) ==
  LET ahead == i + KPool
  IN ~ (/\ ahead <= Len(batch)
        /\ TailBlock(batch[ahead].r, batch[ahead].pos) = TailBlock(batch[i].r, batch[i].pos))

SeedsAt(batch, i, b, o) ==
  /\ Seeds(batch, i)
  /\ TailBlock(batch[i].r, batch[i].pos) = b
  /\ TailOffset(batch[i].pos) = o

Prefill(r, n, q, m) ==
  /\ n \in Chunks(r)
  /\ m = 0 \/ (q # r /\ m \in Chunks(q))
  /\ LET batch == Batch(r, n, q, m)
         Rows  == DOMAIN batch
     IN /\ pool' = [x \in Reqs |-> [j \in PoolIds |->
             IF \E i \in Rows : Completes(batch, i, x, j)
             THEN Gathered(batch, CHOOSE i \in Rows : Completes(batch, i, x, j))
             ELSE pool[x][j]]]
        /\ ring' = [b \in Blocks |-> [o \in Offsets |->
             IF \E i \in Rows : SeedsAt(batch, i, b, o)
             THEN KeyOf(batch[CHOOSE i \in Rows : SeedsAt(batch, i, b, o)])
             ELSE ring[b][o]]]
  /\ computed' = [computed EXCEPT ![r] = @ + n,
                                  ![q] = IF m = 0 THEN @ ELSE computed[q] + m]
  /\ UNCHANGED <<own, goal, work>>

-----------------------------------------------------------------------------
(* Decode and verify.  One program per request walks its tokens in order;   *)
(* programs of different requests run concurrently.                         *)

\* A request past its prefill verifies n - 1 drafts, of which the sampler will
\* keep acc - 1.
StartVerify(r, n, acc) ==
  /\ own[r] # NoBlock /\ work[r] = Idle
  /\ computed[r] >= goal[r]
  /\ acc <= n /\ computed[r] + n <= MaxPos
  /\ work' = [work EXCEPT ![r] = [n |-> n, acc |-> acc, t |-> 0]]
  /\ UNCHANGED <<own, computed, goal, ring, pool>>

\* A final prefill chunk no longer than a verify batch goes the same way.
StartExtend(r) ==
  /\ own[r] # NoBlock /\ work[r] = Idle
  /\ computed[r] < goal[r] /\ computed[r] % KPool = 0
  /\ goal[r] - computed[r] <= MaxNextN
  /\ LET n == goal[r] - computed[r]
     IN work' = [work EXCEPT ![r] = [n |-> n, acc |-> n, t |-> 0]]
  /\ UNCHANGED <<own, computed, goal, ring, pool>>

\* Mutant: the stash is gated on the pool-granular slot mapping.
Stash_PosValid(entry, key, pos) == IF pos % KPool = KPool - 1 THEN key ELSE entry

\* The stash runs for every real token.
Stash(entry, key, pos) == key

\* Mutant: the completion reads its own entry from the ring as well.
PoolRead_NoCurrent(entries, key) == entries

\* The completion reads the ring; its own key is not in it yet.
PoolRead(entries, key) == [i \in Offsets |-> IF i = KPool - 1 THEN key ELSE entries[i]]

\* Mutant: the bonus token counts, though its key is computed one step later.
Committed_Bonus(c, w) == c + w.acc + 1

\* The next batch of the request starts behind its accepted tokens.
Committed(c, w) == c + w.acc

\* One iteration of _kpool_decode_update_batched_kernel: completion, then stash.
Token(r) ==
  /\ work[r].t < work[r].n
  /\ LET w   == work[r]
         pos == computed[r] + w.t
         key == Key(r, pos, w.t < w.acc)
         b   == TailBlock(r, pos)
         o   == TailOffset(pos)
     IN /\ pool' = IF o = KPool - 1
                   THEN [pool EXCEPT ![r][pos \div KPool] = PoolRead(ring[b], key)]
                   ELSE pool
        /\ ring' = [ring EXCEPT ![b][o] = Stash(@, key, pos)]
        /\ work' = [work EXCEPT ![r] = IF w.t + 1 = w.n THEN Idle ELSE [w EXCEPT !.t = w.t + 1]]
        /\ computed' = [computed EXCEPT ![r] = IF w.t + 1 = w.n THEN Committed(@, w) ELSE @]
  /\ UNCHANGED <<own, goal>>

-----------------------------------------------------------------------------
Init ==
  /\ own = [r \in Reqs |-> NoBlock]
  /\ computed = [r \in Reqs |-> 0] /\ goal = [r \in Reqs |-> 0]
  /\ work = [r \in Reqs |-> Idle]
  /\ ring = [b \in Blocks |-> Unwritten]
  /\ pool = [r \in Reqs |-> [j \in PoolIds |-> Unwritten]]

Next ==
  \/ \E r \in Reqs, b \in Blocks, hits, len \in 0..MaxPos : Admit(r, b, hits, len)
  \/ \E r \in Reqs : Release(r)
  \/ \E r, q \in Reqs, n \in 1..MaxPos, m \in 0..MaxPos : Prefill(r, n, q, m)
  \/ \E r \in Reqs, n, acc \in 1..MaxNextN : StartVerify(r, n, acc)
  \/ \E r \in Reqs : StartExtend(r) \/ Token(r)

Spec == Init /\ [][Next]_vars

-----------------------------------------------------------------------------
Keys == (Reqs \X (0..MaxPos) \X BOOLEAN) \cup {NoKey}

TypeOK ==
  /\ own \in [Reqs -> Blocks \cup {NoBlock}]
  /\ computed \in [Reqs -> 0..MaxPos] /\ goal \in [Reqs -> 0..MaxPos]
  /\ work \in [Reqs -> [n : 0..MaxNextN, acc : 0..MaxNextN, t : 0..MaxNextN]]
  /\ ring \in [Blocks -> [Offsets -> Keys]]
  /\ pool \in [Reqs -> [PoolIds -> [Offsets -> Keys]]]

(* Every pool of a running request whose tokens are all final holds the     *)
(* keys of exactly those tokens: none of another request, of another        *)
(* position, or of a draft that was rejected.                               *)
PoolsExact ==
  \A r \in Reqs : own[r] # NoBlock =>
    \A j \in PoolIds : (j + 1) * KPool <= computed[r] => pool[r][j] = Exact(r, j)
=============================================================================
