---------------------------- MODULE StageChannel ----------------------------
(***************************************************************************)
(* What the chain of pipeline stages promises to the rest of the system:   *)
(* the stages form a pipe.  Each stage forwards the scheduled steps in     *)
(* order, each step once, and the activations a forward consumes are those *)
(* the stage before it produced for that very step.  StageTransfer is the  *)
(* protocol of v1/worker/gpu_worker.py that keeps this promise.            *)
(***************************************************************************)
EXTENDS Integers, Sequences

CONSTANTS
  PPSize,  \* number of stages
  Steps    \* the engine's steps

VARIABLES
  input,   \* Seq of the steps with tokens scheduled so far
  got      \* [Stages -> Seq of the steps whose activations it consumed]

vars == <<input, got>>

Stages == 1..PPSize

\* What stage p reads from: the schedule, or what the stage before it ran.
Upstream(p) == IF p = 1 THEN input ELSE got[p - 1]

Init == input = <<>> /\ got = [p \in Stages |-> <<>>]

\* Steps are numbered in the order they are scheduled in.
Schedule(t) ==
  /\ \A i \in DOMAIN input : input[i] < t
  /\ input' = Append(input, t)
  /\ UNCHANGED got

Forward(p) ==
  /\ Len(got[p]) < Len(Upstream(p))
  /\ got' = [got EXCEPT ![p] = Append(@, Upstream(p)[Len(@) + 1])]
  /\ UNCHANGED input

Next ==
  \/ \E t \in Steps : Schedule(t)
  \/ \E p \in Stages : Forward(p)

\* Nothing is lost, repeated or overtaken; and what is scheduled gets through.
InOrder  == Init /\ [][Next]_vars
Progress == \A p \in Stages : WF_vars(Forward(p))

Spec == InOrder /\ Progress
=============================================================================
