--------------------------- MODULE MCWorkerWeights --------------------------
(* WorkerWeights on two ranks: two stages, of which the last holds the     *)
(* draft model, and two tensor-parallel ranks that both hold it.           *)
EXTENDS WorkerWeights, TLC

CONSTANTS r1, r2, a, b, s, d, buf, dbuf

Stages ==
  [base      |-> (r1 :> {a}) @@ (r2 :> {b, s}),
   draft     |-> (r1 :> {}) @@ (r2 :> {s, d}),
   buffers   |-> (r1 :> {buf}) @@ (r2 :> {buf, dbuf}),
   patterns  |-> {DraftPattern},
   maxSleeps |-> 1]

Shards ==
  [base      |-> [r \in {r1, r2} |-> {a, s}],
   draft     |-> [r \in {r1, r2} |-> {s, d}],
   buffers   |-> [r \in {r1, r2} |-> {buf, dbuf}],
   patterns  |-> {{s}, DraftPattern},
   maxSleeps |-> 2]

\* A retention pattern that only the last stage has parameters for.
StagePattern == [Stages EXCEPT !.patterns = {{b}, DraftPattern}]

SmallLaunches == {Stages, StagePattern, Shards}
=============================================================================
