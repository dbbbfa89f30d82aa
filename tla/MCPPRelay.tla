------------------------------ MODULE MCPPRelay ------------------------------
(* PPRelay on small instances. *)
EXTENDS PPRelay, TLC

Symmetry == Permutations(Reqs) \cup Permutations(Slots)
=============================================================================
