---------------------------- MODULE MCSpecDrafter ----------------------------
(* SpecDrafter on two small launches: two requests whose steps replay one   *)
(* graph, and one longer request whose metadata is rebuilt at every step.   *)
EXTENDS SpecDrafter

FusedPair   == [reqs |-> 2, k |-> 3, maxModelLen |-> 5, maxTokens |-> 5, fused |-> TRUE]
RebuiltLong == [reqs |-> 1, k |-> 3, maxModelLen |-> 9, maxTokens |-> 5, fused |-> FALSE]

SmallLaunches == {FusedPair, RebuiltLong}
=============================================================================
