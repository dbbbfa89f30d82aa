---------------------------- MODULE MCMambaAlign ----------------------------
(* MambaAlign on three small launches: the sampling rank and a rank of two  *)
(* stages that does not sample, with two requests; and a rank of three      *)
(* stages with wider rows and blocks.                                       *)
EXTENDS MambaAlign

Narrow(last, n) == [pp |-> 2, last |-> last, reqs |-> 2, k |-> 1, bs |-> 2, maxPos |-> n]
Wide            == [pp |-> 3, last |-> FALSE, reqs |-> 1, k |-> 2, bs |-> 3, maxPos |-> 10]

SmallLaunches == {Narrow(TRUE, 5), Narrow(FALSE, 4), Wide}
=============================================================================
