---------------------------- MODULE MCKpoolTail ----------------------------
(* KpoolTail on small instances. *)
EXTENDS KpoolTail, TLC

Symmetry == Permutations(Reqs) \cup Permutations(Blocks)
=============================================================================
