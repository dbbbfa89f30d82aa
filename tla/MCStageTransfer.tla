--------------------------- MODULE MCStageTransfer --------------------------
(* StageTransfer with both forms of the hop: two tensors and their metadata, *)
(* and one packed tensor without.                                           *)
EXTENDS StageTransfer
CONSTANTS hidden_states, residual

Plain   == [tensors |-> <<hidden_states, residual>>, packed |-> FALSE, noMetadata |-> FALSE]
OneFlat == [tensors |-> <<hidden_states>>, packed |-> TRUE, noMetadata |-> TRUE]

BothHops == {Plain, OneFlat}
=============================================================================
