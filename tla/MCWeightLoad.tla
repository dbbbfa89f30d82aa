----------------------------- MODULE MCWeightLoad -----------------------------
(* Checkpoints of a few tensors for WeightLoad.                             *)
EXTENDS WeightLoad

W(layer, proj) == [layer |-> layer, proj |-> proj, expert |-> 0, part |-> "weight"]
E(layer, proj, expert) == [W(layer, proj) EXCEPT !.expert = expert]
Pair(layer, proj) ==
  {[W(layer, proj) EXCEPT !.part = "fp8"], [W(layer, proj) EXCEPT !.part = "scale"]}

Base == [stageOf |-> [l \in 0..1 |-> 0], spec |-> 1, kept |-> {}, experts |-> {1},
         pad |-> FALSE, fused |-> TRUE, calls |-> 1, tensors |-> {}]

\* Block FP8 on a single stage: pairs of one layer side by side, one layer
\* kept in FP8, padded.
Fp8 == [Base EXCEPT !.kept = {"q_b"}, !.pad = TRUE,
        !.tensors = Pair(0, "q_a") \cup Pair(0, "kv_a") \cup Pair(0, "wk")
          \cup {W(0, "weights_proj")} \cup Pair(1, "q_b") \cup Pair(2, "o")
          \cup Pair(2, "kv_a")]

\* BF16 on two stages, with experts and a linear-attention layer.
Staged == [Base EXCEPT !.stageOf = [l \in 0..1 |-> l],
           !.tensors = {W(Embed, "embed"), W(0, "q"), W(0, "k"), W(0, "v"), W(0, "gate"),
             W(0, "up"), W(1, "q_a"), W(1, "kv_a"), E(1, "gate", 1), E(1, "up", 1),
             E(1, "down", 1), E(1, "gate", 2), W(2, "eh_proj"), E(2, "down", 1)}]

\* A model without the fused projection, and a draft layer that is missing.
Lacking == [Base EXCEPT !.spec = 2, !.fused = FALSE,
            !.tensors = {W(Embed, "embed"), W(0, "q_a"), W(0, "kv_a"), W(2, "q_a"), W(2, "kv_a")}]

\* An update in up to three calls.
Update == [Base EXCEPT !.calls = 3,
           !.tensors = {W(Embed, "embed"), W(0, "gate"), W(1, "up")} \cup Pair(1, "o")
             \cup Pair(2, "o") \cup {W(2, "eh_proj")}]

SmallLaunches == {Fp8, Staged, Lacking, Update}
=============================================================================
