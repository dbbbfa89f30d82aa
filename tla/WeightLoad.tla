------------------------------ MODULE WeightLoad ------------------------------
(***************************************************************************)
(* What a rank's load_weights makes of a checkpoint: a pipeline stage keeps *)
(* the tensors of its own layers, the drafter of the last rank those of the *)
(* extra layers and a private copy of the embedding.  Tensors come in any  *)
(* order.  Projections are stacked into fused parameters, and a block-FP8  *)
(* weight that the model holds in BF16 waits for its scale, or the scale   *)
(* for the weight.  A weight update calls load_weights several times.      *)
(* (models/glm5next/nvidia/model.py, mtp.py)                               *)
(*                                                                         *)
(* A tensor is [layer, proj, expert, part]; expert 0 is none, part is      *)
(* "weight", "fp8" or "scale".  Names are taken apart already.             *)
(***************************************************************************)
EXTENDS Integers, FiniteSets

CONSTANT Launches   \* the launches that are looked at

Embed   == -1   \* the layer of embed_tokens
Drafter == -1   \* the loader of the drafter; the stages are 0, 1, ...

\* A launch: the tensors of the checkpoint; the stage of every layer; the
\* number of extra layers; the projections the model keeps in FP8; the experts
\* of the rank; whether kv_a is padded, and the projections of the query
\* fused; how often load_weights is called.
ASSUME LoadAssumption ==
  \A l \in Launches :
    /\ IsFiniteSet(DOMAIN l.stageOf)
    /\ DOMAIN l.stageOf = 0..(Cardinality(DOMAIN l.stageOf) - 1)
    /\ l.spec \in Nat /\ l.calls \in Nat \ {0}
    /\ {l.pad, l.fused} \subseteq BOOLEAN
    /\ \A t \in l.tensors :
         /\ t.layer \in Embed..(Cardinality(DOMAIN l.stageOf) + l.spec - 1)
         /\ t.expert \in Nat /\ t.part \in {"weight", "fp8", "scale"}

\* _FP8_ATTN_PROJS.
AttnProjs == {"q_a", "kv_a", "q_b", "o"}

\* Two tensors of one module; the dtype is no part of a name.
SameModule(t, u) == t.layer = u.layer /\ t.proj = u.proj /\ t.expert = u.expert

\* A checkpoint has a name once, and an FP8 weight with its scale.  What the
\* model does not keep in FP8 is dequantised by one of the two helpers, which
\* know no experts; wk is always BF16.  The drafter's loader does not pad a
\* kv_a that comes in BF16, so that a padded model has none.
ASSUME CheckpointAssumption ==
  \A l \in Launches : "wk" \notin l.kept /\ \A t \in l.tensors :
    /\ \A u \in l.tensors :
         SameModule(t, u) /\ (t.part = "scale" <=> u.part = "scale") => t = u
    /\ t.part # "weight" =>
         /\ \E u \in l.tensors : SameModule(t, u) /\ {t.part, u.part} = {"fp8", "scale"}
         /\ t.proj \in l.kept \/ (t.expert = 0 /\ t.proj \in AttnProjs \cup {"wk"})
    /\ t.expert > 0 => t.proj \in {"gate", "up", "down"}
    /\ t.proj \notin {"gate_up_proj", "fused_qkv_a_proj", "wk_weights_proj", "in_proj_qkvbfg_a"}
    /\ l.pad /\ t.proj = "kv_a" /\ t.layer \notin DOMAIN l.stageOf =>
         t.part # "weight" /\ "kv_a" \notin l.kept

VARIABLES
  launch,   \* what the launch fixes
  loader,   \* whose load_weights this is
  left,     \* tensors not read yet
  pending,  \* _pending_wk_fp8: halves of pairs
  params,   \* [cell -> what was loaded into it]
  loaded,   \* loaded_params of the call
  given,    \* history: the layers the call was given a tensor of
  lacked,   \* history: a call of the drafter was given nothing of one of its layers
  calls,    \* calls that ended
  status    \* "loading", "done", "missing" (layer) or "failed" (KeyError)

vars == <<launch, loader, left, pending, params, loaded, given, lacked, calls, status>>

NumLayers == Cardinality(DOMAIN launch.stageOf)
Drafting  == loader = Drafter
SpecLayers == NumLayers..(NumLayers + launch.spec - 1)

\* The parameters of a layer exist on this loader; is_pp_missing_parameter.
Here(layer) ==
  IF Drafting THEN layer = Embed \/ layer \in SpecLayers
  ELSE IF layer = Embed THEN loader = 0
  ELSE layer \notin SpecLayers /\ launch.stageOf[layer] = loader

\* get_spec_layer_idx_from_weight_name: who skips a tensor by its layer.
Ignored(t) ==
  IF Drafting THEN ~Here(t.layer) ELSE t.layer \in SpecLayers

-----------------------------------------------------------------------------
(* Where a tensor goes.                                                    *)

\* Mutant: both halves of a gate go to the first shard.
Stacked_FirstShard ==
  [proj \in {"gate", "up"} |-> <<"gate_up_proj", 0>>]

\* stacked_params_mapping of the target.
Stacked ==
  [gate |-> <<"gate_up_proj", 0>>, up |-> <<"gate_up_proj", 1>>,
   q_a |-> <<"fused_qkv_a_proj", 0>>, kv_a |-> <<"fused_qkv_a_proj", 1>>,
   wk |-> <<"wk_weights_proj", 0>>, weights_proj |-> <<"wk_weights_proj", 1>>,
   q |-> <<"in_proj_qkvbfg_a", 0>>, k |-> <<"in_proj_qkvbfg_a", 1>>,
   v |-> <<"in_proj_qkvbfg_a", 2>>, b |-> <<"in_proj_qkvbfg_a", 3>>,
   f_a |-> <<"in_proj_qkvbfg_a", 4>>, g_a |-> <<"in_proj_qkvbfg_a", 5>>]

\* That of the drafter, whose layers have no linear attention.
DraftStacked ==
  [proj \in DOMAIN Stacked \ {"q", "k", "v", "b", "f_a", "g_a"} |-> Stacked[proj]]

Mapping == IF Drafting THEN DraftStacked ELSE Stacked

\* expert_params_mapping.
OfExpert == [gate |-> <<"w13", 1>>, up |-> <<"w13", 3>>, down |-> <<"w2", 2>>]

\* A model without fused_qkv_a_proj has a parameter for each of the two.
Unfused(t) == t.proj \in {"q_a", "kv_a"} /\ ~launch.fused

\* The parameter of a tensor and its shard.
Place(t) ==
  IF t.expert > 0 THEN OfExpert[t.proj]
  ELSE IF t.proj \in DOMAIN Mapping /\ ~Unfused(t) THEN Mapping[t.proj]
  ELSE <<t.proj, 0>>

\* One cell for each shard and expert, of the weights and of the scales.
CellOf(t) ==
  [layer |-> t.layer, place |-> Place(t), expert |-> t.expert, scale |-> t.part = "scale"]

Local(t) == t.expert = 0 \/ t.expert \in launch.experts

-----------------------------------------------------------------------------
(* Pairs of an FP8 weight and its scale.                                   *)

\* A projection the model keeps in FP8 has a parameter for its scale; of q_a
\* and kv_a only that of the fused projection is looked for.
KeptInFp8(t) == t.proj \in launch.kept /\ Here(t.layer) /\ ~Unfused(t)

Paired(t) ==
  /\ t.part # "weight" /\ t.expert = 0
  /\ t.proj = "wk" \/ (t.proj \in AttnProjs /\ ~KeptInFp8(t))

\* Mutant: a layer has one place for a waiting half.
OtherHalf_Layer(t) == {u \in pending : u.layer = t.layer /\ u.part # t.part}

OtherHalf(t) ==
  {u \in pending : u.layer = t.layer /\ u.proj = t.proj /\ u.part # t.part}

Blank == [proj |-> "none", expert |-> 0, scaled |-> "none", part |-> "none", padded |-> FALSE]

Content(t, scaled, padded) ==
  [proj |-> t.proj, expert |-> t.expert, scaled |-> scaled, part |-> t.part,
   padded |-> padded /\ launch.pad /\ t.proj = "kv_a"]

Write(t, content) ==
  /\ params' = [params EXCEPT ![CellOf(t)] = content]
  /\ loaded' = loaded \cup {<<t.layer, Place(t)[1]>>}

-----------------------------------------------------------------------------
(* One tensor of the loop.                                                 *)

\* The tensors that have a cell of their own on this loader.  A dequantised
\* q_a or kv_a has none in a model that is not fused.
HasCell(t) ==
  /\ Here(t.layer) /\ Local(t)
  /\ Paired(t) => t.part # "scale" /\ ~Unfused(t)

Wanted == {t \in launch.tensors : HasCell(t)}

Reads(t) ==
  /\ status = "loading" /\ t \in left
  /\ left' = left \ {t}
  /\ given' = IF HasCell(t) THEN given \cup {t.layer} ELSE given
  /\ UNCHANGED <<launch, loader, lacked, calls>>

Ignore(t) ==
  /\ Reads(t) /\ Ignored(t)
  /\ UNCHANGED <<pending, params, loaded, status>>

\* _try_load_fp8_attn_proj, _try_load_fp8_indexer_wk: the first half waits,
\* with the second the weight is dequantised.  A parameter that does not
\* exist is a KeyError; q_a and kv_a always go to the fused projection.
Hold(t) ==
  /\ Reads(t) /\ ~Ignored(t) /\ Paired(t) /\ OtherHalf(t) = {}
  /\ pending' = pending \cup {t}
  /\ UNCHANGED <<params, loaded, status>>

Dequantise(t) ==
  /\ Reads(t) /\ ~Ignored(t) /\ Paired(t) /\ OtherHalf(t) # {}
  /\ LET u == CHOOSE u \in OtherHalf(t) : TRUE
         weight == IF t.part = "fp8" THEN t ELSE u
         scale  == IF t.part = "fp8" THEN u ELSE t
     IN /\ pending' = pending \ {u}
        /\ IF Here(t.layer) /\ ~Unfused(t)
           THEN Write(weight, Content(weight, scale.proj, TRUE)) /\ UNCHANGED status
           ELSE status' = "failed" /\ UNCHANGED <<params, loaded>>

\* A stage skips what belongs to others, an expert layer the experts of others.
Skipped(t) == (~Drafting /\ ~Here(t.layer)) \/ ~Local(t)

Skip(t) ==
  /\ Reads(t) /\ ~Ignored(t) /\ ~Paired(t) /\ Skipped(t)
  /\ UNCHANGED <<pending, params, loaded, status>>

\* Only the target's loader pads a kv_a that is not quantised.
LoadWeight(t) ==
  /\ Reads(t) /\ ~Ignored(t) /\ ~Paired(t) /\ ~Skipped(t)
  /\ IF Here(t.layer)
     THEN Write(t, Content(t, "none", ~Drafting)) /\ UNCHANGED status
     ELSE status' = "failed" /\ UNCHANGED <<params, loaded>>
  /\ UNCHANGED pending

\* Mutant: the layers are those of all the tensors that were read.
DraftLayers_Read ==
  \A layer \in SpecLayers : \E t \in launch.tensors \ left : t.layer = layer

\* The drafter's loader raises if it was given nothing of one of its layers.
DraftLayers == \A layer \in SpecLayers : \E name \in loaded : name[1] = layer

\* The end of a call.  Halves that still wait are lost; the caller keeps the
\* two of a pair in one call.
Return ==
  /\ status = "loading"
  /\ left = {} \/ (calls + 1 < launch.calls /\ pending = {})
  /\ status' = IF Drafting /\ ~DraftLayers THEN "missing"
               ELSE IF left = {} THEN "done" ELSE "loading"
  /\ lacked' = (lacked \/ (Drafting /\ ~(SpecLayers \subseteq given)))
  /\ calls' = calls + 1
  /\ pending' = {} /\ loaded' = {} /\ given' = {}
  /\ UNCHANGED <<launch, loader, left, params>>

Loaders(l) == {l.stageOf[layer] : layer \in DOMAIN l.stageOf} \cup
              (IF l.spec > 0 THEN {Drafter} ELSE {})

Init ==
  /\ launch \in Launches /\ loader \in Loaders(launch)
  /\ left = launch.tensors
  /\ pending = {} /\ loaded = {} /\ given = {} /\ calls = 0
  /\ lacked = FALSE /\ status = "loading"
  /\ params = [c \in {CellOf(t) : t \in Wanted} |-> Blank]

Next ==
  \/ \E t \in left : Ignore(t) \/ Hold(t) \/ Dequantise(t) \/ Skip(t) \/ LoadWeight(t)
  \/ Return

Spec == Init /\ [][Next]_vars /\ WF_vars(Next)

-----------------------------------------------------------------------------
\* What belongs in a tensor's cell: the tensor itself, dequantised with its
\* own scale unless the model keeps it in FP8, with kv_a padded.
Meant(t) ==
  Content(t, IF t.part = "fp8" /\ t.proj \notin launch.kept THEN t.proj ELSE "none", TRUE)

\* In whatever order the tensors came, and in however many calls, a loader
\* that is done has every tensor of its layers in the cell of its own shard
\* and expert, dequantised with the scale of the same projection; a drafter
\* that is done was given something of each of its layers.
LoadExact ==
  status = "done" =>
    /\ \A t \in Wanted : params[CellOf(t)] = Meant(t)
    /\ Drafting => SpecLayers \subseteq {t.layer : t \in Wanted}

\* Nothing is written twice: no tensor of another layer, stage or projection
\* lands on a cell that is filled.
WrittenOnce ==
  [][\A c \in DOMAIN params : params[c] # Blank => params'[c] = params[c]]_vars

\* Every loader comes to an end; it ends with the error of a missing layer if,
\* and only if, it is a drafter and one of its calls was given nothing of one
\* of its layers, whatever the calls before had loaded; and never with a
\* KeyError.  (Glm5NextMTP.load_weights: loaded_layers)
LoadEnds ==
  <>(status \in {"done", "missing"} /\ (status = "missing" <=> lacked))
=============================================================================
