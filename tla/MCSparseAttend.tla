--------------------------- MODULE MCSparseAttend ----------------------------
(* SparseAttend over the launches and batches of IndexerSelect.             *)
EXTENDS SparseAttend, MCIndexerSelect

\* The launches meet the hypotheses of the theorems (SparseAttend_proofs).
ASSUME HypothesesHold == RowsAssumed /\ WriteAssumed
=============================================================================
