-------------------------- MODULE WeightLoad_proofs --------------------------
(***************************************************************************)
(* Theorems about WeightLoad, for every checkpoint, every partition of the *)
(* layers and every order of the tensors: no cell is written twice, and a  *)
(* loader that is done has every tensor of its own in its own cell.        *)
(*                                                                         *)
(* The argument: the two halves of a pair are consumed together, so that a *)
(* tensor that is neither to be read nor waiting has been written, and to  *)
(* a cell no other tensor of this loader has.                              *)
(***************************************************************************)
EXTENDS WeightLoad, FiniteSetTheorems, TLAPS

(* The tensors that are still to be read or wait for their other half.      *)
Open == left \cup pending

(* An FP8 weight and its scale.                                             *)
Halves(t, u) == SameModule(t, u) /\ {t.part, u.part} = {"fp8", "scale"}

Shape ==
  /\ launch \in Launches
  /\ left \subseteq launch.tensors /\ pending \subseteq launch.tensors
  /\ left \cap pending = {}
  /\ status \in {"loading", "done", "missing", "failed"}
  /\ status = "done" => left = {} /\ pending = {}
  /\ DOMAIN params = {CellOf(t) : t \in Wanted}

(* What waits is half of a pair; the halves of a pair are consumed together, *)
(* and never wait together.                                                 *)
PairsTogether ==
  /\ \A t \in pending : Paired(t) /\ ~Ignored(t)
  /\ \A t, u \in launch.tensors :
       Paired(t) /\ ~Ignored(t) /\ Halves(t, u) =>
         /\ t \in Open <=> u \in Open
         /\ ~(t \in pending /\ u \in pending)

(* A cell is blank while its tensor is open, and exact from then on.        *)
CellsExact ==
  \A t \in Wanted : params[CellOf(t)] = IF t \in Open THEN Blank ELSE Meant(t)

(* A parameter that counts as loaded has a tensor of its layer behind it.   *)
LoadedOK == \A name \in loaded : \E t \in Wanted : name[1] = t.layer

(* A drafter that is done was given something of each of its layers.        *)
DraftOK == status = "done" /\ Drafting => SpecLayers \subseteq {t.layer : t \in Wanted}

(* The layers that count as loaded are those the call gave, except that the *)
(* only tensor of a layer may still wait; so the error is raised in a call   *)
(* that lacked a layer and in no other.                                      *)
LoadedLayers == {name[1] : name \in loaded}

GivenOK ==
  /\ status = "loading" =>
       /\ LoadedLayers \subseteq given
       /\ given \subseteq LoadedLayers \cup {t.layer : t \in pending}
       /\ \A t \in pending \cap Wanted : t.layer \in given
  /\ lacked \in BOOLEAN /\ (lacked <=> status = "missing")

IInv == Shape /\ PairsTogether /\ CellsExact /\ LoadedOK /\ DraftOK /\ GivenOK

-----------------------------------------------------------------------------
(* Cells.                                                                   *)

LEMMA StackedCells ==
  \A p, q \in DOMAIN Mapping :
    /\ Mapping[p] = Mapping[q] => p = q
    /\ Mapping[p][1] \in {"gate_up_proj", "fused_qkv_a_proj", "wk_weights_proj",
                          "in_proj_qkvbfg_a"}
<1>1. \A p, q \in DOMAIN Stacked :
        /\ Stacked[p] = Stacked[q] => p = q
        /\ Stacked[p][1] \in {"gate_up_proj", "fused_qkv_a_proj", "wk_weights_proj",
                              "in_proj_qkvbfg_a"}
  BY DEF Stacked
<1>2. /\ DOMAIN Mapping \subseteq DOMAIN Stacked
      /\ \A p \in DOMAIN Mapping : Mapping[p] = Stacked[p]
  BY DEF Mapping, DraftStacked
<1>3. QED
  BY <1>1, <1>2

(* Two tensors that a loader has cells for never share one.                 *)
LEMMA CellsDistinct ==
  ASSUME launch \in Launches, NEW t \in Wanted, NEW u \in Wanted, CellOf(t) = CellOf(u)
  PROVE  t = u
<1>1. /\ t.layer = u.layer /\ t.expert = u.expert /\ Place(t) = Place(u)
      /\ t.part = "scale" <=> u.part = "scale"
  BY DEF CellOf
<1>2. t \in launch.tensors /\ u \in launch.tensors
  BY DEF Wanted, HasCell
<1>3. t.expert \in Nat
  BY <1>2, LoadAssumption
<1>4. t.proj = u.proj
  <2>1. CASE t.expert > 0
    <3>1. t.proj \in {"gate", "up", "down"} /\ u.proj \in {"gate", "up", "down"}
      BY <1>1, <1>2, <2>1, CheckpointAssumption
    <3>2. OfExpert[t.proj] = OfExpert[u.proj]
      BY <1>1, <2>1 DEF Place
    <3>3. QED
      BY <3>1, <3>2 DEF OfExpert
  <2>2. CASE ~(t.expert > 0)
    <3> DEFINE fused == {"gate_up_proj", "fused_qkv_a_proj", "wk_weights_proj",
                         "in_proj_qkvbfg_a"}
    <3>1. t.proj \notin fused /\ u.proj \notin fused
      BY <1>2, CheckpointAssumption
    <3>2. ASSUME NEW v \in {t, u}
          PROVE  \/ v.proj \in DOMAIN Mapping /\ Place(v) = Mapping[v.proj]
                 \/ Place(v) = <<v.proj, 0>>
      BY <1>1, <2>2 DEF Place
    <3>3. QED
      BY <1>1, <3>1, <3>2, StackedCells
  <2>3. QED
    BY <2>1, <2>2
<1>5. QED
  BY <1>1, <1>2, <1>4, CheckpointAssumption DEF SameModule

-----------------------------------------------------------------------------
(* Pairs.                                                                   *)

LEMMA HalvesTwin ==
  ASSUME NEW t \in launch.tensors, NEW u \in launch.tensors, Halves(t, u)
  PROVE  Halves(u, t) /\ t # u /\ Paired(u) = Paired(t) /\ Ignored(u) = Ignored(t)
  BY DEF Halves, SameModule, Paired, KeptInFp8, Unfused, Ignored

(* A half has one other half.                                               *)
LEMMA HalfUnique ==
  ASSUME launch \in Launches, NEW t \in launch.tensors,
         NEW u \in launch.tensors, NEW v \in launch.tensors, Halves(t, u), Halves(t, v)
  PROVE  u = v
<1>1. SameModule(u, v) /\ (u.part = "scale" <=> v.part = "scale")
  BY DEF Halves, SameModule
<1>2. QED
  BY <1>1, CheckpointAssumption

LEMMA OtherHalves ==
  ASSUME Shape, PairsTogether, NEW t \in launch.tensors, Paired(t)
  PROVE  OtherHalf(t) = {u \in pending : Halves(t, u)}
<1> SUFFICES ASSUME NEW u \in pending PROVE
       (u.layer = t.layer /\ u.proj = t.proj /\ u.part # t.part) <=> Halves(t, u)
  BY DEF OtherHalf
<1>1. t.part \in {"fp8", "scale"} /\ t.expert = 0 /\ u.part \in {"fp8", "scale"} /\ u.expert = 0
  BY LoadAssumption DEF Shape, PairsTogether, Paired
<1>2. QED
  BY <1>1 DEF Halves, SameModule

(* What a call that has nothing more to read leaves waiting: nothing.       *)
LEMMA NothingWaits ==
  ASSUME Shape, PairsTogether, left = {}
  PROVE  pending = {}
<1> SUFFICES ASSUME NEW t \in pending PROVE FALSE
  OBVIOUS
<1>1. t \in launch.tensors /\ Paired(t) /\ ~Ignored(t) /\ t \in Open
  BY DEF Shape, PairsTogether, Open
<1>2. PICK u \in launch.tensors : Halves(t, u)
  BY <1>1, CheckpointAssumption DEF Shape, Paired, Halves
<1>3. QED
  BY <1>1, <1>2 DEF PairsTogether, Open

-----------------------------------------------------------------------------
(* What a step leaves alone.                                                *)

LEMMA Fixed ==
  ASSUME UNCHANGED <<launch, loader>>
  PROVE  /\ Wanted' = Wanted /\ SpecLayers' = SpecLayers /\ Drafting' = Drafting
         /\ \A t : /\ CellOf(t)' = CellOf(t) /\ Meant(t)' = Meant(t)
                   /\ Paired(t)' = Paired(t) /\ Ignored(t)' = Ignored(t)
<1>1. NumLayers' = NumLayers /\ Drafting' = Drafting /\ SpecLayers' = SpecLayers
  BY DEF NumLayers, Drafting, SpecLayers
<1>2. \A layer : Here(layer)' = Here(layer)
  BY <1>1 DEF Here
<1>3. \A t : Paired(t)' = Paired(t) /\ Ignored(t)' = Ignored(t) /\ Local(t)' = Local(t)
  BY <1>1, <1>2 DEF Paired, KeptInFp8, Unfused, Ignored, Local
<1>4. Mapping' = Mapping
  BY <1>1 DEF Mapping, DraftStacked, Stacked
<1>5. \A t : CellOf(t)' = CellOf(t) /\ Meant(t)' = Meant(t)
  BY <1>4 DEF CellOf, Place, Unfused, OfExpert, Meant, Content
<1>6. Wanted' = Wanted
  BY <1>2, <1>3 DEF Wanted, HasCell, Unfused
<1>7. QED
  BY <1>1, <1>3, <1>5, <1>6

LEMMA KeepCells ==
  ASSUME IInv, UNCHANGED <<launch, loader, params, loaded>>,
         \A t \in Wanted : t \in Open' <=> t \in Open
  PROVE  CellsExact' /\ LoadedOK' /\ DOMAIN params' = {CellOf(t) : t \in Wanted}
  BY Fixed DEF IInv, CellsExact, LoadedOK, Shape

(* A step that reads a tensor this loader has no cell for, or that ends the  *)
(* loop with a KeyError.                                                    *)
LEMMA KeepGiven ==
  ASSUME IInv, UNCHANGED <<launch, loader, loaded, pending, lacked>>,
         status = "loading", status' = "loading", given' = given
  PROVE  GivenOK'
  BY Fixed DEF IInv, GivenOK, LoadedLayers

LEMMA FailGiven ==
  ASSUME IInv, UNCHANGED lacked, status = "loading", status' = "failed"
  PROVE  GivenOK'
  BY DEF IInv, GivenOK

(* A tensor is written: its layer counts as loaded.                         *)
LEMMA WriteGiven ==
  ASSUME IInv, UNCHANGED <<launch, loader, lacked, status>>, status = "loading",
         NEW w \in Wanted, Write(w, Meant(w)),
         pending' \subseteq pending, \A t \in pending \ pending' : t.layer = w.layer,
         given' \subseteq given \cup {w.layer}, given \cup {w.layer} \subseteq given'
  PROVE  GivenOK'
<1>1. LoadedLayers' = LoadedLayers \cup {w.layer}
  <2>1. loaded' = loaded \cup {<<w.layer, Place(w)[1]>>}
    BY DEF Write
  <2>2. <<w.layer, Place(w)[1]>>[1] = w.layer
    OBVIOUS
  <2>3. QED
    BY <2>1, <2>2 DEF LoadedLayers
<1>2. given' \subseteq LoadedLayers' \cup {t.layer : t \in pending'}
  BY <1>1 DEF IInv, GivenOK
<1>3. \A t \in pending' \cap Wanted' : t.layer \in given'
  BY Fixed DEF IInv, GivenOK
<1>4. LoadedLayers' \subseteq given'
  BY <1>1 DEF IInv, GivenOK
<1>5. QED
  BY <1>2, <1>3, <1>4 DEF IInv, GivenOK

(* Writing an open tensor of this loader to its cell.                       *)
LEMMA WriteCell ==
  ASSUME IInv, UNCHANGED <<launch, loader>>, NEW w \in Wanted, w \in Open, w \notin Open',
         \A t \in Wanted \ {w} : t \in Open' <=> t \in Open,
         Write(w, Meant(w))
  PROVE  /\ CellsExact' /\ LoadedOK' /\ DOMAIN params' = {CellOf(t) : t \in Wanted}
         /\ \A c \in DOMAIN params : params[c] # Blank => params'[c] = params[c]
<1>1. /\ params' = [params EXCEPT ![CellOf(w)] = Meant(w)]
      /\ loaded' = loaded \cup {<<w.layer, Place(w)[1]>>}
  BY DEF Write
<1>2. CellOf(w) \in DOMAIN params /\ DOMAIN params' = DOMAIN params
  BY <1>1 DEF IInv, Shape
<1>3. ASSUME NEW t \in Wanted
      PROVE  params'[CellOf(t)] = IF t \in Open' THEN Blank ELSE Meant(t)
  <2>1. CASE t = w
    BY <1>1, <1>2, <2>1
  <2>2. CASE t # w
    <3>1. CellOf(t) # CellOf(w) /\ CellOf(t) \in DOMAIN params
      BY <2>2, CellsDistinct DEF IInv, Shape
    <3>2. QED
      BY <1>1, <2>2, <3>1 DEF IInv, CellsExact
  <2>3. QED
    BY <2>1, <2>2
<1>4. CellsExact'
  BY <1>3, Fixed DEF CellsExact
<1>5. LoadedOK'
  BY <1>1, Fixed DEF IInv, LoadedOK
<1>6. params[CellOf(w)] = Blank
  BY DEF IInv, CellsExact
<1>7. QED
  BY <1>1, <1>2, <1>4, <1>5, <1>6 DEF IInv, Shape

(* A loader reads what it has a cell for.                                   *)
LEMMA LayersApart ==
  ASSUME launch \in Launches
  PROVE  /\ NumLayers \in Nat /\ launch.spec \in Nat
         /\ DOMAIN launch.stageOf = 0..(NumLayers - 1)
         /\ Embed \notin SpecLayers
<1>1. NumLayers \in Nat
  BY LoadAssumption, FS_CardinalityType DEF NumLayers
<1>2. QED
  BY <1>1, LoadAssumption DEF NumLayers, SpecLayers, Embed

LEMMA WantedRead ==
  ASSUME launch \in Launches, NEW t \in Wanted
  PROVE  ~Ignored(t) /\ ~Skipped(t)
  BY LayersApart DEF Wanted, HasCell, Ignored, Skipped, Here

-----------------------------------------------------------------------------
(* The steps.                                                               *)

(* The half that waited is dequantised with the scale of its projection.    *)
LEMMA DequantisedMeant ==
  ASSUME launch \in Launches, NEW t \in launch.tensors, NEW u \in launch.tensors,
         Paired(t), Here(t.layer), ~Unfused(t), Halves(t, u), t.part = "fp8"
  PROVE  t \in Wanted /\ Content(t, u.proj, TRUE) = Meant(t)
<1>1. t \in Wanted
  BY DEF Wanted, HasCell, Paired, Local
<1>2. t.proj \notin launch.kept
  BY CheckpointAssumption DEF Paired, KeptInFp8
<1>3. QED
  BY <1>1, <1>2 DEF Meant, Halves, SameModule

(* What needs no partner is loaded as it is.                                *)
LEMMA LoadedMeant ==
  ASSUME launch \in Launches, NEW t \in launch.tensors,
         ~Ignored(t), ~Paired(t), ~Skipped(t), Here(t.layer)
  PROVE  t \in Wanted /\ Content(t, "none", ~Drafting) = Meant(t)
<1>1. t \in Wanted
  BY DEF Wanted, HasCell, Skipped
<1>2. t.part = "fp8" => t.proj \in launch.kept
  BY CheckpointAssumption DEF Paired, KeptInFp8
<1>3. CASE Drafting /\ launch.pad /\ t.proj = "kv_a"
  <2>1. t.layer \notin DOMAIN launch.stageOf
    BY <1>3, LayersApart DEF Here, SpecLayers, Embed
  <2>2. t.part # "weight" /\ "kv_a" \notin launch.kept
    BY <1>3, <2>1, CheckpointAssumption
  <2>3. t.expert = 0 /\ t.proj \in AttnProjs
    BY <1>3, <2>2, CheckpointAssumption
  <2>4. QED
    BY <1>3, <2>2, <2>3 DEF Paired, KeptInFp8
<1>4. CASE ~(Drafting /\ launch.pad /\ t.proj = "kv_a")
  BY <1>1, <1>2, <1>4, LoadAssumption DEF Meant, Content
<1>5. QED
  BY <1>1, <1>3, <1>4

(* A step that reads t, which is no half of a pair, or of an ignored one.   *)
LEMMA PairsKept ==
  ASSUME Shape, PairsTogether, NEW t \in left, ~Paired(t) \/ Ignored(t),
         UNCHANGED <<launch, loader, pending>>, left' = left \ {t}
  PROVE  PairsTogether'
<1>1. ASSUME NEW v \in launch.tensors, NEW w \in launch.tensors,
             Paired(v), ~Ignored(v), Halves(v, w)
      PROVE  v # t /\ w # t
  BY <1>1, HalvesTwin
<1>2. QED
  BY <1>1, Fixed DEF Shape, PairsTogether, Open, Halves

LEMMA IgnoreStep ==
  ASSUME IInv, NEW t \in left, Ignore(t)
  PROVE  IInv' /\ UNCHANGED params
<1>1. UNCHANGED <<launch, loader, pending, params, loaded, status>> /\ left' = left \ {t}
  BY DEF Ignore, Reads
<1>2. t \notin Wanted /\ Ignored(t)
  BY WantedRead DEF Ignore, IInv, Shape
<1>3. PairsTogether'
  BY <1>1, <1>2, PairsKept DEF IInv
<1>4. CellsExact' /\ LoadedOK' /\ DOMAIN params' = {CellOf(v) : v \in Wanted}
  BY <1>1, <1>2, KeepCells DEF Open
<1>5. GivenOK'
  <2>1. status = "loading" /\ UNCHANGED lacked /\ (HasCell(t) => t \in Wanted)
    BY DEF Ignore, Reads, IInv, Shape, Wanted
  <2>2. given' = given
    BY <1>2, <2>1 DEF Ignore, Reads
  <2>3. QED
    BY <1>1, <2>1, <2>2, KeepGiven
<1>6. QED
  BY <1>1, <1>3, <1>4, <1>5, Fixed DEF IInv, Shape, DraftOK, Ignore, Reads

LEMMA SkipStep ==
  ASSUME IInv, NEW t \in left, Skip(t)
  PROVE  IInv' /\ UNCHANGED params
<1>1. UNCHANGED <<launch, loader, pending, params, loaded, status>> /\ left' = left \ {t}
  BY DEF Skip, Reads
<1>2. t \notin Wanted /\ ~Paired(t)
  BY WantedRead DEF Skip, IInv, Shape
<1>3. PairsTogether'
  BY <1>1, <1>2, PairsKept DEF IInv
<1>4. CellsExact' /\ LoadedOK' /\ DOMAIN params' = {CellOf(v) : v \in Wanted}
  BY <1>1, <1>2, KeepCells DEF Open
<1>5. GivenOK'
  <2>1. status = "loading" /\ UNCHANGED lacked /\ (HasCell(t) => t \in Wanted)
    BY DEF Skip, Reads, IInv, Shape, Wanted
  <2>2. given' = given
    BY <1>2, <2>1 DEF Skip, Reads
  <2>3. QED
    BY <1>1, <2>1, <2>2, KeepGiven
<1>6. QED
  BY <1>1, <1>3, <1>4, <1>5, Fixed DEF IInv, Shape, DraftOK, Skip, Reads

LEMMA HoldStep ==
  ASSUME IInv, NEW t \in left, Hold(t)
  PROVE  IInv' /\ UNCHANGED params
<1>1. /\ UNCHANGED <<launch, loader, params, loaded, status>> /\ status = "loading"
      /\ left' = left \ {t} /\ pending' = pending \cup {t}
      /\ Paired(t) /\ ~Ignored(t) /\ OtherHalf(t) = {}
  BY DEF Hold, Reads
<1>2. t \in launch.tensors /\ t \notin pending
  BY DEF IInv, Shape
<1>3. Open' = Open
  BY <1>1 DEF Open
<1>4. \A u \in pending : ~Halves(t, u)
  BY <1>1, <1>2, OtherHalves DEF IInv
<1>5. PairsTogether'
  <2>1. ASSUME NEW v \in launch.tensors, NEW w \in launch.tensors, Halves(v, w)
        PROVE  ~(v = t /\ w \in pending') /\ ~(w = t /\ v \in pending')
    BY <1>1, <1>2, <1>4, <2>1, HalvesTwin
  <2>2. QED
    BY <1>1, <1>2, <1>3, <2>1, Fixed DEF IInv, PairsTogether, Halves
<1>6. CellsExact' /\ LoadedOK' /\ DOMAIN params' = {CellOf(v) : v \in Wanted}
  BY <1>1, <1>3, KeepCells
<1>7. GivenOK'
  <2>1. /\ given \subseteq given' /\ given' \subseteq given \cup {t.layer}
        /\ (t \in Wanted => t.layer \in given') /\ UNCHANGED lacked
    BY DEF Hold, Reads, Wanted
  <2>2. LoadedLayers' = LoadedLayers
    BY <1>1 DEF LoadedLayers
  <2>3. given' \subseteq LoadedLayers \cup {v.layer : v \in pending'}
    BY <1>1, <2>1 DEF IInv, GivenOK
  <2>4. \A v \in pending' \cap Wanted' : v.layer \in given'
    BY <1>1, <2>1, Fixed DEF IInv, GivenOK
  <2>5. QED
    BY <1>1, <2>1, <2>2, <2>3, <2>4 DEF IInv, GivenOK
<1>8. QED
  BY <1>1, <1>2, <1>5, <1>6, <1>7, Fixed DEF IInv, Shape, DraftOK

LEMMA LoadStep ==
  ASSUME IInv, NEW t \in left, LoadWeight(t)
  PROVE  /\ IInv'
         /\ \A c \in DOMAIN params : params[c] # Blank => params'[c] = params[c]
<1>1. /\ UNCHANGED <<launch, loader, pending>> /\ status = "loading" /\ left' = left \ {t}
      /\ ~Ignored(t) /\ ~Paired(t) /\ ~Skipped(t)
  BY DEF LoadWeight, Reads
<1>2. t \in launch.tensors /\ t \in Open /\ t \notin Open'
  BY <1>1 DEF IInv, Shape, Open
<1>3. \A v \in Wanted \ {t} : v \in Open' <=> v \in Open
  BY <1>1 DEF Open
<1>4. PairsTogether'
  BY <1>1, PairsKept DEF IInv
<1>5. status' \in {"loading", "failed"}
  BY <1>1 DEF LoadWeight
<1>6. /\ CellsExact' /\ LoadedOK' /\ DOMAIN params' = {CellOf(v) : v \in Wanted}
      /\ \A c \in DOMAIN params : params[c] # Blank => params'[c] = params[c]
  <2>1. CASE Here(t.layer)
    <3>1. t \in Wanted /\ Content(t, "none", ~Drafting) = Meant(t)
      BY <1>1, <1>2, <2>1, LoadedMeant DEF IInv, Shape
    <3>2. Write(t, Meant(t))
      BY <2>1, <3>1 DEF LoadWeight
    <3>3. QED
      BY <1>1, <1>2, <1>3, <3>1, <3>2, WriteCell
  <2>2. CASE ~Here(t.layer)
    <3>1. UNCHANGED <<params, loaded>> /\ t \notin Wanted
      BY <2>2 DEF LoadWeight, Wanted, HasCell
    <3>2. QED
      BY <1>1, <1>3, <3>1, KeepCells
  <2>3. QED
    BY <2>1, <2>2
<1>7. GivenOK'
  <2>1. UNCHANGED lacked
    BY DEF LoadWeight, Reads
  <2>2. CASE Here(t.layer)
    <3>1. t \in Wanted /\ Content(t, "none", ~Drafting) = Meant(t)
      BY <1>1, <1>2, <2>2, LoadedMeant DEF IInv, Shape
    <3>2. Write(t, Meant(t)) /\ UNCHANGED status
      BY <2>2, <3>1 DEF LoadWeight
    <3>3. given' = given \cup {t.layer}
      BY <3>1 DEF LoadWeight, Reads, Wanted
    <3>4. QED
      BY <1>1, <2>1, <3>1, <3>2, <3>3, WriteGiven
  <2>3. CASE ~Here(t.layer)
    BY <1>1, <2>1, <2>3, FailGiven DEF LoadWeight
  <2>4. QED
    BY <2>2, <2>3
<1>8. QED
  BY <1>1, <1>4, <1>5, <1>6, <1>7, Fixed DEF IInv, Shape, DraftOK

LEMMA DequantiseStep ==
  ASSUME IInv, NEW t \in left, Dequantise(t)
  PROVE  /\ IInv'
         /\ \A c \in DOMAIN params : params[c] # Blank => params'[c] = params[c]
<1> DEFINE u == CHOOSE u \in OtherHalf(t) : TRUE
           weight == IF t.part = "fp8" THEN t ELSE u
           scale  == IF t.part = "fp8" THEN u ELSE t
<1>1. /\ UNCHANGED <<launch, loader>> /\ status = "loading"
      /\ left' = left \ {t} /\ pending' = pending \ {u}
      /\ ~Ignored(t) /\ Paired(t) /\ OtherHalf(t) # {}
  BY DEF Dequantise, Reads
<1>2. t \in launch.tensors /\ t \in Open /\ t \notin pending
  BY DEF IInv, Shape, Open
<1>3. u \in pending /\ Halves(t, u)
  <2>1. u \in OtherHalf(t)
    BY <1>1
  <2>2. QED
    BY <1>1, <1>2, <2>1, OtherHalves DEF IInv
<1>4. u \in launch.tensors /\ u \in Open /\ u \notin left
  BY <1>3 DEF IInv, Shape, Open
<1> HIDE DEF u
<1>5. Open' = Open \ {t, u}
  BY <1>1, <1>2, <1>4 DEF Open
<1>6. PairsTogether'
  <2>1. ASSUME NEW v \in launch.tensors, NEW w \in launch.tensors, Halves(v, w)
        PROVE  v \in {t, u} <=> w \in {t, u}
    BY <1>2, <1>3, <1>4, <2>1, HalvesTwin, HalfUnique DEF IInv, Shape
  <2>2. QED
    BY <1>1, <1>5, <2>1, Fixed DEF IInv, PairsTogether, Halves
<1>7. status' \in {"loading", "failed"}
  BY <1>1 DEF Dequantise
<1>8. /\ weight \in launch.tensors /\ scale \in launch.tensors /\ weight.part = "fp8"
      /\ Halves(weight, scale) /\ Paired(weight) /\ weight.layer = t.layer
      /\ {weight, scale} = {t, u} /\ scale \notin Wanted
  <2>1. t.part = "fp8" \/ (t.part = "scale" /\ u.part = "fp8")
    BY <1>3 DEF Halves
  <2>2. Halves(u, t) /\ Paired(u) /\ u.layer = t.layer
    BY <1>1, <1>2, <1>3, <1>4, HalvesTwin DEF Halves, SameModule
  <2>3. /\ weight \in {t, u} /\ scale \in {t, u} /\ weight.part = "fp8" /\ Halves(weight, scale)
        /\ Paired(scale)
    BY <1>1, <1>3, <2>1, <2>2
  <2>4. scale.part = "scale"
    BY <2>3 DEF Halves
  <2>5. QED
    BY <1>1, <1>2, <1>4, <2>2, <2>3, <2>4 DEF Wanted, HasCell
<1>9. weight \in Wanted <=> Here(t.layer) /\ ~Unfused(t)
  <2>1. Local(weight) /\ (Unfused(weight) <=> Unfused(t))
    BY <1>1, <1>3, <1>8 DEF Paired, Local, Unfused, Halves, SameModule
  <2>2. QED
    BY <1>8, <2>1 DEF Wanted, HasCell
<1>10. CASE Here(t.layer) /\ ~Unfused(t)
  <2>1. weight \in Wanted /\ Content(weight, scale.proj, TRUE) = Meant(weight)
    <3>1. ~Unfused(weight)
      BY <1>3, <1>8, <1>10 DEF Unfused, Halves, SameModule
    <3>2. QED
      BY <1>8, <1>10, <3>1, DequantisedMeant DEF IInv, Shape
  <2>2. Write(weight, Meant(weight)) /\ UNCHANGED <<status, lacked>>
    BY <1>10, <2>1 DEF Dequantise, Reads, u
  <2>3. \A v \in Wanted \ {weight} : v \in Open' <=> v \in Open
    BY <1>5, <1>8
  <2>4. weight \in Open /\ weight \notin Open'
    BY <1>2, <1>4, <1>5, <1>8
  <2>5. /\ CellsExact' /\ LoadedOK' /\ DOMAIN params' = {CellOf(v) : v \in Wanted}
        /\ \A c \in DOMAIN params : params[c] # Blank => params'[c] = params[c]
    BY <1>1, <2>1, <2>2, <2>3, <2>4, WriteCell
  <2>6. GivenOK'
    <3>1. weight.layer \in given'
      <4>1. CASE weight = t
        BY <2>1, <4>1 DEF Dequantise, Reads, Wanted
      <4>2. CASE weight = u
        <5>1. weight.layer \in given
          BY <1>1, <1>3, <2>1, <4>2 DEF IInv, GivenOK
        <5>2. QED
          BY <5>1 DEF Dequantise, Reads
      <4>3. QED
        BY <1>8, <4>1, <4>2
    <3>2. given \subseteq given' /\ given' \subseteq given \cup {weight.layer}
      BY <1>8 DEF Dequantise, Reads
    <3>3. \A v \in pending \ pending' : v.layer = weight.layer
      BY <1>1, <1>3, <1>8 DEF Halves, SameModule
    <3>4. pending' \subseteq pending
      BY <1>1
    <3>5. QED
      BY <1>1, <2>1, <2>2, <3>1, <3>2, <3>3, <3>4, WriteGiven
  <2>7. QED
    BY <1>1, <1>2, <1>5, <1>6, <1>7, <2>5, <2>6, Fixed DEF IInv, Shape, DraftOK
<1>11. CASE ~(Here(t.layer) /\ ~Unfused(t))
  <2>1. UNCHANGED <<params, loaded, lacked>> /\ status' = "failed"
    BY <1>11 DEF Dequantise, Reads
  <2>2. \A v \in Wanted : v \in Open' <=> v \in Open
    BY <1>5, <1>8, <1>9, <1>11
  <2>3. CellsExact' /\ LoadedOK' /\ DOMAIN params' = {CellOf(v) : v \in Wanted}
    BY <1>1, <2>1, <2>2, KeepCells
  <2>4. GivenOK'
    BY <1>1, <2>1, FailGiven
  <2>5. QED
    BY <1>1, <1>2, <1>5, <1>6, <2>1, <2>3, <2>4, Fixed DEF IInv, Shape, DraftOK
<1>12. QED
  BY <1>10, <1>11

LEMMA ReturnStep ==
  ASSUME IInv, Return
  PROVE  IInv' /\ UNCHANGED params
<1>1. /\ UNCHANGED <<launch, loader, left, params>> /\ status = "loading"
      /\ pending' = {} /\ loaded' = {}
  BY DEF Return
<1>2. pending = {} /\ Open' = Open
  BY <1>1, NothingWaits DEF IInv, Return, Open
<1>3. PairsTogether'
  BY <1>1, <1>2, Fixed DEF IInv, PairsTogether, Halves
<1>4. CellsExact' /\ LoadedOK'
  BY <1>1, <1>2, Fixed DEF IInv, CellsExact, LoadedOK
<1>5. DraftOK'
  BY <1>1, Fixed DEF Return, DraftLayers, IInv, LoadedOK, DraftOK
<1>6. Shape'
  BY <1>1, <1>2, Fixed DEF IInv, Shape, Return
<1>7. GivenOK'
  <2>1. LoadedLayers = given /\ ~lacked
    BY <1>1, <1>2 DEF IInv, GivenOK
  <2>2. DraftLayers <=> SpecLayers \subseteq given
    BY <2>1 DEF DraftLayers, LoadedLayers
  <2>3. lacked' <=> status' = "missing"
    BY <2>1, <2>2 DEF Return
  <2>4. lacked' \in BOOLEAN /\ LoadedLayers' = {} /\ given' = {} /\ pending' = {}
    BY <1>1, <2>1 DEF Return, LoadedLayers
  <2>5. QED
    BY <2>3, <2>4 DEF GivenOK
<1>8. QED
  BY <1>1, <1>3, <1>4, <1>5, <1>6, <1>7 DEF IInv

-----------------------------------------------------------------------------
(* The inductive invariant, and what follows from it.                       *)

LEMMA InitInv == Init => IInv
<1> SUFFICES ASSUME Init PROVE IInv
  OBVIOUS
<1>1. Shape
  BY DEF Init, Shape
<1>2. Open = launch.tensors /\ Wanted \subseteq launch.tensors
  BY DEF Init, Open, Wanted, HasCell
<1>3. PairsTogether
  BY <1>2 DEF Init, PairsTogether
<1>4. CellsExact
  BY <1>2 DEF Init, CellsExact
<1>5. LoadedOK /\ DraftOK /\ GivenOK
  BY DEF Init, LoadedOK, DraftOK, GivenOK, LoadedLayers
<1>6. QED
  BY <1>1, <1>3, <1>4, <1>5 DEF IInv

\* Every step of load_weights keeps the inductive invariant (a tensor that is
\* not open is in its cell) and overwrites no filled cell.
THEOREM NextInv ==
  IInv /\ [Next]_vars =>
    /\ IInv'
    /\ \A c \in DOMAIN params : params[c] # Blank => params'[c] = params[c]
<1> SUFFICES ASSUME IInv, [Next]_vars
             PROVE  /\ IInv'
                    /\ \A c \in DOMAIN params : params[c] # Blank => params'[c] = params[c]
  OBVIOUS
<1>1. ASSUME NEW t \in left, Ignore(t) \/ Hold(t) \/ Skip(t)
      PROVE  IInv' /\ UNCHANGED params
  BY <1>1, IgnoreStep, HoldStep, SkipStep
<1>2. CASE Return
  BY <1>2, ReturnStep
<1>3. ASSUME UNCHANGED vars
      PROVE  IInv' /\ UNCHANGED params
  <2>1. /\ UNCHANGED <<launch, loader, left, pending, params, loaded, given, lacked, status>>
        /\ Open' = Open
    BY <1>3 DEF vars, Open
  <2>2. CellsExact' /\ LoadedOK' /\ DraftOK' /\ GivenOK'
    BY <2>1, Fixed DEF IInv, CellsExact, LoadedOK, DraftOK, GivenOK, LoadedLayers
  <2>3. Shape' /\ PairsTogether'
    BY <2>1, Fixed DEF IInv, Shape, PairsTogether, Halves
  <2>4. QED
    BY <2>1, <2>2, <2>3 DEF IInv
<1>4. QED
  BY <1>1, <1>2, <1>3, LoadStep, DequantiseStep DEF Next

LEMMA SpecInv == Spec => []IInv
  BY InitInv, NextInv, PTL DEF Spec

\* In whatever order a checkpoint's tensors come, and in however many calls, a
\* loader that is done has every tensor of its layers in its own shard and
\* expert, dequantised with its own scale and padded (load_weights of the
\* target and of the drafter, model.py and mtp.py).
THEOREM LoadIsExact == Spec => []LoadExact
<1>1. IInv => LoadExact
  <2> SUFFICES ASSUME IInv, status = "done" PROVE
        /\ \A t \in Wanted : params[CellOf(t)] = Meant(t)
        /\ Drafting => SpecLayers \subseteq {t.layer : t \in Wanted}
    BY DEF LoadExact
  <2>1. Open = {}
    BY DEF IInv, Shape, Open
  <2>2. QED
    BY <2>1 DEF IInv, CellsExact, DraftOK
<1>2. QED
  BY <1>1, SpecInv, PTL

\* No tensor lands on a cell that is filled: of another layer, stage, shard,
\* expert or projection, or the same tensor twice.
THEOREM LoadWritesOnce == Spec => WrittenOnce
<1>1. IInv /\ [Next]_vars =>
        [\A c \in DOMAIN params : params[c] # Blank => params'[c] = params[c]]_vars
  BY NextInv
<1>2. QED
  BY <1>1, SpecInv, PTL DEF Spec, WrittenOnce

\* The drafter's loader raises the error of a missing layer in a call that was
\* given nothing of one of its layers, and in no other (load_weights of the
\* drafter: loaded_layers), wherever a call was cut and whatever still waited.
THEOREM MissingIsLacking == Spec => [](status = "missing" <=> lacked)
<1>1. IInv => (status = "missing" <=> lacked)
  BY DEF IInv, GivenOK
<1>2. QED
  BY <1>1, SpecInv, PTL
=============================================================================
