------------------------ MODULE WorkerWeights_proofs ------------------------
(***************************************************************************)
(* Theorems about WorkerWeights, for every number of ranks, sessions and   *)
(* faults, and every layout of the parameters over the ranks: the type     *)
(* invariant, what the client may believe of the weights, the engine's     *)
(* target between sessions, and that the ranks sleep together.             *)
(*                                                                         *)
(* The argument for ClientView: what is given up by a sleep of level 2     *)
(* waits in the saved copies, so that what a rank holds is a view of the   *)
(* contents through them; and a session the client believes to be open is  *)
(* open on every rank and reaches the model it thinks of.                  *)
(***************************************************************************)
EXTENDS WorkerWeights, TLAPS

(* What a rank holds of an item, or will hold when its weights are awake.   *)
View(r, i) == IF i \in DOMAIN saved[r] THEN saved[r][i] ELSE content[r][i]

ViewsAgree ==
  \A r \in Ranks : \A i \in Holds(r) : expected[i] # Unknown => View(r, i) = expected[i]

(* A session the client knows of is open on every rank, and on its model.   *)
SessionsAgree ==
  \A r \in Ranks :
    /\ session = "none" => ~active[r]
    /\ session \in {"base", "draft"} =>
         /\ active[r] /\ target[r] = session
         /\ isDraft[r] <=> session = "draft"

(* Weights the executor takes to be awake are awake on every rank, or the   *)
(* client was told that a sleep failed.                                     *)
Awake ==
  "weights" \notin sleeping =>
    \/ \A r \in Ranks : "weights" \in mapped[r]
    \/ \A i \in Items : expected[i] = Unknown

(* Saved copies have contents like those they were made of.                 *)
SavedOK ==
  /\ saved = [r \in Ranks |-> saved[r]]
  /\ \A r \in Ranks : \A i \in DOMAIN saved[r] : saved[r][i] \in Lost..MaxSessions

IInv == TypeOK /\ SavedOK /\ IdleTargetsBase /\ SessionsAgree /\ Awake /\ ViewsAgree

-----------------------------------------------------------------------------
(* What the launch fixes.                                                   *)

LEMMA LaunchFixed ==
  ASSUME launch' = launch
  PROVE  /\ Items' = Items /\ Params' = Params
         /\ \A r \in Ranks : Holds(r)' = Holds(r) /\ Retained(r)' = Retained(r)
  BY DEF Items, Params, Holds, Retained, Matches, Base, Draft, Buffers, Patterns

LEMMA RetainedAreItems ==
  ASSUME NEW r \in Ranks
  PROVE  Retained(r) \subseteq Items /\ Holds(r) \subseteq Items
  BY DEF Items, Params, Holds, Retained, Matches

(* Buffers and the LoRA state are no parameters.                            *)
LEMMA ParamsAreParams ==
  ASSUME launch \in Launches
  PROVE  /\ Lora \notin Params
         /\ \A r \in Ranks : Buffers[r] \cap Params = {}
  BY WeightsAssumption DEF Params, Base, Draft, Buffers

(* A parameter that one rank loads for a model is one of that model on every *)
(* rank that holds it.                                                      *)
LEMMA SharedEverywhere ==
  ASSUME launch \in Launches, NEW q \in Ranks, NEW r \in Ranks,
         NEW model \in {"base", "draft"}, NEW i \in Holds(r), i \in ModelOf(q, model)
  PROVE  i \in ModelOf(r, model)
<1>1. i \in Params
  BY DEF ModelOf, Params
<1>2. i \in Base[r] \/ i \in Draft[r]
  BY <1>1, ParamsAreParams DEF Holds
<1>3. QED
  BY <1>2, WeightsAssumption DEF ModelOf, Base, Draft

-----------------------------------------------------------------------------
(* The type invariant.                                                      *)

USE DEF Lost, Unknown

LEMMA InitType == Init => TypeOK /\ SavedOK
<1> SUFFICES ASSUME Init PROVE TypeOK /\ SavedOK
  OBVIOUS
<1>1. content \in [Ranks -> [Items -> Lost..MaxSessions]]
  BY WeightsAssumption DEF Init
<1>2. expected \in [Items -> Unknown..MaxSessions] /\ version \in 0..MaxSessions
  BY WeightsAssumption DEF Init
<1>3. \A r \in Ranks : saved[r] = <<>> /\ DOMAIN saved[r] = {}
  BY DEF Init
<1>4. SavedOK
  BY <1>3 DEF SavedOK, Init
<1>5. QED
  BY <1>1, <1>2, <1>3, <1>4 DEF Init, TypeOK, Tags

(* The saved copies keep their type where they are left alone.              *)
SavedTyped ==
  \A r \in Ranks :
    DOMAIN saved[r] \in (IF "weights" \in mapped[r] THEN {{}} ELSE {{}, Retained(r)})

LEMMA SavedKept ==
  ASSUME TypeOK, SavedOK, launch' = launch, saved' = saved, mapped' = mapped
  PROVE  SavedOK' /\ SavedTyped'
  BY LaunchFixed DEF TypeOK, SavedOK, SavedTyped

LEMMA StartType ==
  ASSUME TypeOK, SavedOK, NEW draft \in BOOLEAN, NEW F \in SUBSET Ranks, Start(draft, F)
  PROVE  TypeOK' /\ SavedOK'
<1>1. launch' = launch /\ content' = content /\ saved' = saved /\ mapped' = mapped
  BY DEF Start
<1>2. version' \in 0..MaxSessions
  BY WeightsAssumption DEF Start, TypeOK
<1>3. target' \in [Ranks -> {"base", "draft"}] /\ active' \in [Ranks -> BOOLEAN]
  BY DEF Start, TypeOK, StartTarget
<1>4. isDraft' \in [Ranks -> BOOLEAN]
  BY DEF Start, TypeOK
<1>5. session' \in {"none", "base", "draft", "unknown"}
  BY DEF Start, TypeOK
<1>6. QED
  BY <1>1, <1>2, <1>3, <1>4, <1>5, LaunchFixed DEF Start, TypeOK, SavedOK

LEMMA UpdateType ==
  ASSUME TypeOK, SavedOK, NEW chunk \in SUBSET Params, NEW F \in SUBSET Ranks,
         Update(chunk, F)
  PROVE  TypeOK' /\ SavedOK'
<1>1. launch' = launch /\ saved' = saved /\ mapped' = mapped
  BY DEF Update
<1>2. content' \in [Ranks -> [Items -> Lost..MaxSessions]]
  BY WeightsAssumption DEF Update, TypeOK
<1>3. expected' \in [Items -> Unknown..MaxSessions]
  BY WeightsAssumption DEF Update, TypeOK
<1>4. target' \in [Ranks -> {"base", "draft"}] /\ active' \in [Ranks -> BOOLEAN]
  BY DEF Update, TypeOK, FailedTarget
<1>5. session' \in {"none", "base", "draft", "unknown"}
  BY DEF Update, TypeOK
<1>6. UNCHANGED <<isDraft, connected, sleeping, version>>
  BY DEF Update
<1>7. QED
  BY <1>1, <1>2, <1>3, <1>4, <1>5, <1>6, SavedKept, LaunchFixed DEF TypeOK, SavedTyped

LEMMA FinishType ==
  ASSUME TypeOK, SavedOK, NEW F \in SUBSET Ranks, Finish(F)
  PROVE  TypeOK' /\ SavedOK'
<1>1. launch' = launch /\ saved' = saved /\ mapped' = mapped
  BY DEF Finish
<1>2. content' \in [Ranks -> [Items -> Lost..MaxSessions]]
  <2>1. Lora \in Items /\ version \in Lost..MaxSessions
    BY WeightsAssumption DEF Items, TypeOK
  <2>2. \A r \in Ranks : [content[r] EXCEPT ![Lora] = version] \in [Items -> Lost..MaxSessions]
    BY <2>1 DEF TypeOK
  <2>3. QED
    BY <2>2 DEF Finish, TypeOK
<1>3. expected' \in [Items -> Unknown..MaxSessions]
  BY WeightsAssumption DEF Finish, TypeOK, Items
<1>4. target' \in [Ranks -> {"base", "draft"}] /\ active' \in [Ranks -> BOOLEAN]
  BY DEF Finish, TypeOK
<1>5. session' \in {"none", "base", "draft", "unknown"}
  BY DEF Finish, TypeOK
<1>6. UNCHANGED <<isDraft, connected, sleeping, version>>
  BY DEF Finish
<1>7. QED
  BY <1>1, <1>2, <1>3, <1>4, <1>5, <1>6, SavedKept, LaunchFixed DEF TypeOK, SavedTyped

LEMMA SleepType ==
  ASSUME TypeOK, SavedOK, NEW level \in {1, 2}, NEW grown \in SUBSET Ranks,
         Sleep(level, grown)
  PROVE  TypeOK' /\ SavedOK'
<1>1. launch' = launch
  BY DEF Sleep
<1>2. content' \in [Ranks -> [Items -> Lost..MaxSessions]]
  BY WeightsAssumption DEF Sleep, TypeOK
<1>3. expected' \in [Items -> Unknown..MaxSessions]
  BY WeightsAssumption DEF Sleep, TypeOK
<1>4. ASSUME NEW r \in Ranks
      PROVE  DOMAIN saved'[r] \in (IF "weights" \in mapped'[r] THEN {{}} ELSE {{}, Retained(r)})
  <2>1. CASE Raises(r, level)
    BY <2>1 DEF Sleep, TypeOK
  <2>2. CASE ~Raises(r, level)
    <3>1. mapped'[r] = {}
      BY <2>2 DEF Sleep, TypeOK
    <3>2. DOMAIN saved'[r] \in {DOMAIN saved[r], Retained(r)}
      BY DEF Sleep, SavedOK
    <3>3. QED
      BY <3>1, <3>2 DEF TypeOK
  <2>3. QED
    BY <2>1, <2>2
<1>5. SavedOK'
  <2>1. ASSUME NEW r \in Ranks, NEW i \in DOMAIN saved'[r]
        PROVE  saved'[r][i] \in Lost..MaxSessions
    BY RetainedAreItems DEF Sleep, SavedOK, TypeOK
  <2>2. QED
    BY <2>1 DEF Sleep, SavedOK
<1>6. mapped' \in [Ranks -> SUBSET Tags] /\ sleeping' \in SUBSET Tags
  BY DEF Sleep, TypeOK
<1>7. QED
  BY <1>1, <1>2, <1>3, <1>4, <1>5, <1>6, LaunchFixed DEF Sleep, TypeOK

LEMMA WakeUpType ==
  ASSUME TypeOK, SavedOK, NEW tags \in SUBSET Tags, WakeUp(tags)
  PROVE  TypeOK' /\ SavedOK'
<1>1. launch' = launch
  BY DEF WakeUp
<1>2. content' \in [Ranks -> [Items -> Lost..MaxSessions]]
  BY DEF WakeUp, TypeOK, SavedOK, WakesWeights
<1>3. mapped' \in [Ranks -> SUBSET Tags] /\ sleeping' \in SUBSET Tags
  BY DEF WakeUp, TypeOK
<1>4. CASE "weights" \in tags
  <2>1. \A r \in Ranks : saved'[r] = <<>> /\ DOMAIN saved'[r] = {}
    BY <1>4 DEF WakeUp, WakesWeights, AfterRestore
  <2>2. SavedOK'
    BY <1>4, <2>1 DEF WakeUp, SavedOK, WakesWeights, AfterRestore
  <2>3. QED
    BY <1>1, <1>2, <1>3, <2>1, <2>2, LaunchFixed DEF WakeUp, TypeOK
<1>5. CASE "weights" \notin tags
  <2>1. saved' = saved
    BY <1>5 DEF WakeUp, WakesWeights, SavedOK
  <2>2. \A r \in Ranks : "weights" \in mapped'[r] <=> "weights" \in mapped[r]
    BY <1>5 DEF WakeUp, TypeOK
  <2>3. SavedOK'
    BY <2>1 DEF SavedOK
  <2>4. QED
    BY <1>1, <1>2, <1>3, <2>1, <2>2, <2>3, LaunchFixed DEF WakeUp, TypeOK
<1>6. QED
  BY <1>4, <1>5


LEMMA NextType ==
  ASSUME TypeOK, SavedOK, [Next]_vars
  PROVE  TypeOK' /\ SavedOK'
<1>1. CASE \E draft \in BOOLEAN, F \in SUBSET Ranks : Start(draft, F)
  BY <1>1, StartType
<1>2. CASE \E chunk \in SUBSET Params \ {{}}, F \in SUBSET Ranks : Update(chunk, F)
  BY <1>2, UpdateType
<1>3. CASE \E F \in SUBSET Ranks : Finish(F)
  BY <1>3, FinishType
<1>4. CASE Connect \/ Disconnect
  <2>1. connected' \in [Ranks -> BOOLEAN]
    BY <1>4 DEF Connect, Disconnect, TypeOK
  <2>2. UNCHANGED <<launch, content, saved, mapped, active, isDraft, target, clientVars>>
    BY <1>4 DEF Connect, Disconnect
  <2>3. QED
    BY <2>1, <2>2, SavedKept, LaunchFixed DEF TypeOK, SavedTyped, clientVars
<1>5. CASE \E level \in {1, 2}, grown \in SUBSET Ranks : Sleep(level, grown)
  BY <1>5, SleepType
<1>6. CASE \E tags \in SUBSET Tags : WakeUp(tags)
  BY <1>6, WakeUpType
<1>7. CASE UNCHANGED vars
  BY <1>7, SavedKept, LaunchFixed DEF vars, workerVars, clientVars, TypeOK, SavedTyped
<1>8. QED
  BY <1>1, <1>2, <1>3, <1>4, <1>5, <1>6, <1>7 DEF Next

-----------------------------------------------------------------------------
(* The engine's target between sessions.                                    *)

LEMMA NextTarget ==
  ASSUME TypeOK, IdleTargetsBase, [Next]_vars
  PROVE  IdleTargetsBase'
<1>1. ASSUME NEW draft \in BOOLEAN, NEW F \in SUBSET Ranks, Start(draft, F)
      PROVE  IdleTargetsBase'
  BY <1>1 DEF Start, StartTarget, TypeOK, IdleTargetsBase
<1>2. ASSUME NEW chunk \in SUBSET Params, NEW F \in SUBSET Ranks, Update(chunk, F)
      PROVE  IdleTargetsBase'
  BY <1>2 DEF Update, FailedTarget, TypeOK, IdleTargetsBase
<1>3. ASSUME NEW F \in SUBSET Ranks, Finish(F)
      PROVE  IdleTargetsBase'
  BY <1>3 DEF Finish, TypeOK, IdleTargetsBase
<1>4. CASE UNCHANGED <<active, target>>
  BY <1>4 DEF IdleTargetsBase
<1>5. QED
  BY <1>1, <1>2, <1>3, <1>4
     DEF Next, Connect, Disconnect, Sleep, WakeUp, vars, workerVars, clientVars

-----------------------------------------------------------------------------
(* Sessions: what the client believes and what the ranks are in.            *)

LEMMA StartSession ==
  ASSUME TypeOK, IdleTargetsBase, SessionsAgree,
         NEW draft \in BOOLEAN, NEW F \in SUBSET Ranks, Start(draft, F)
  PROVE  SessionsAgree'
<1> SUFFICES ASSUME NEW r \in Ranks PROVE
       /\ session' = "none" => ~active'[r]
       /\ session' \in {"base", "draft"} =>
            /\ active'[r] /\ target'[r] = session'
            /\ isDraft'[r] <=> session' = "draft"
  BY DEF SessionsAgree
<1> DEFINE failed == F \cup {q \in Ranks : draft /\ Draft[q] = {}}
           starts == {q \in Ranks : ~Refuses(q, draft) /\ q \notin failed}
<1>1. CASE starts = Ranks
  <2>1. ~Refuses(r, draft) /\ r \notin failed /\ r \in starts
    BY <1>1
  <2>2. session' = (IF draft THEN "draft" ELSE "base") /\ active'[r] /\ isDraft'[r] = draft
    BY <1>1, <2>1 DEF Start, TypeOK
  <2>3. target'[r] = session'
    BY <2>1, <2>2 DEF Start, StartTarget, Refuses, IdleTargetsBase
  <2>4. QED
    BY <2>2, <2>3
<1>2. CASE starts # Ranks /\ \A q \in Ranks : Refuses(q, draft)
  <2>1. session' = session /\ active' = active /\ isDraft' = isDraft
    BY <1>2 DEF Start, TypeOK
  <2>2. target'[r] = target[r]
    <3>1. Refuses(r, draft)
      BY <1>2
    <3>2. QED
      BY <3>1 DEF Start, StartTarget
  <2>3. QED
    BY <2>1, <2>2 DEF SessionsAgree
<1>3. CASE starts # Ranks /\ ~ \A q \in Ranks : Refuses(q, draft)
  BY <1>3 DEF Start
<1>4. QED
  BY <1>1, <1>2, <1>3

LEMMA NextSession ==
  ASSUME TypeOK, IdleTargetsBase, SessionsAgree, [Next]_vars
  PROVE  SessionsAgree'
<1>1. ASSUME NEW chunk \in SUBSET Params, NEW F \in SUBSET Ranks, Update(chunk, F)
      PROVE  SessionsAgree'
  BY <1>1 DEF Update, FailedTarget, TypeOK, SessionsAgree, NoneActive
<1>2. ASSUME NEW F \in SUBSET Ranks, Finish(F)
      PROVE  SessionsAgree'
  BY <1>2 DEF Finish, TypeOK, SessionsAgree, NoneActive
<1>3. CASE UNCHANGED <<active, isDraft, target, session>>
  BY <1>3 DEF SessionsAgree
<1>4. QED
  BY <1>1, <1>2, <1>3, StartSession
     DEF Next, Connect, Disconnect, Sleep, WakeUp, vars, workerVars, clientVars

-----------------------------------------------------------------------------
(* Which weights are awake, and what the client was told of them.           *)

LEMMA NextAwake ==
  ASSUME TypeOK, Awake, [Next]_vars
  PROVE  Awake'
<1>1. ASSUME NEW chunk \in SUBSET Params, NEW F \in SUBSET Ranks, Update(chunk, F)
      PROVE  Awake'
  BY <1>1 DEF Update, Awake
<1>2. ASSUME NEW F \in SUBSET Ranks, Finish(F)
      PROVE  Awake'
  BY <1>2 DEF Finish, Awake
<1>3. ASSUME NEW level \in {1, 2}, NEW grown \in SUBSET Ranks, Sleep(level, grown)
      PROVE  Awake'
  <2>1. CASE {r \in Ranks : Fails(r, level, grown)} = {}
    BY <1>3, <2>1 DEF Sleep, Awake, Tags
  <2>2. CASE {r \in Ranks : Fails(r, level, grown)} # {}
    <3>1. expected' = [i \in Items |-> Unknown] /\ launch' = launch
      BY <1>3, <2>2 DEF Sleep
    <3>2. QED
      BY <3>1, LaunchFixed DEF Awake
  <2>3. QED
    BY <2>1, <2>2
<1>4. ASSUME NEW tags \in SUBSET Tags, WakeUp(tags)
      PROVE  Awake'
  <2>1. CASE "weights" \in tags
    BY <1>4, <2>1 DEF WakeUp, Awake
  <2>2. CASE "weights" \notin tags
    <3>1. launch' = launch /\ expected' = expected
      BY <1>4 DEF WakeUp
    <3>2. \A r \in Ranks : "weights" \in mapped[r] => "weights" \in mapped'[r]
      BY <1>4 DEF WakeUp, TypeOK
    <3>3. "weights" \notin sleeping' => "weights" \notin sleeping
      BY <1>4, <2>2 DEF WakeUp
    <3>4. QED
      BY <3>1, <3>2, <3>3, LaunchFixed DEF Awake
  <2>3. QED
    BY <2>1, <2>2
<1>5. CASE UNCHANGED <<launch, sleeping, mapped, expected>>
  BY <1>5, LaunchFixed DEF Awake
<1>6. QED
  BY <1>1, <1>2, <1>3, <1>4, <1>5
     DEF Next, Start, Connect, Disconnect, vars, workerVars, clientVars

-----------------------------------------------------------------------------
(* What a rank holds and what the client thinks it holds.                   *)

(* Where the weights are mapped nothing is saved: the contents is the view. *)
LEMMA MappedView ==
  ASSUME TypeOK, NEW r \in Ranks, "weights" \in mapped[r], NEW i
  PROVE  View(r, i) = content[r][i]
<1>1. DOMAIN saved[r] = {}
  BY DEF TypeOK
<1>2. QED
  BY <1>1 DEF View

LEMMA UpdateViews ==
  ASSUME IInv, NEW chunk \in SUBSET Params, NEW F \in SUBSET Ranks, Update(chunk, F), TypeOK'
  PROVE  ViewsAgree'
<1> DEFINE fails == {r \in Ranks : active[r] /\ (r \in F \/ ~connected[r])}
           loads == {r \in Ranks : active[r]} \ fails
<1>1. launch' = launch /\ mapped' = mapped /\ \A r \in Ranks : "weights" \in mapped[r]
  BY DEF Update
<1>0. \A r \in Ranks : DOMAIN saved'[r] = {} /\ Holds(r)' = Holds(r)
  BY <1>1, LaunchFixed DEF TypeOK
<1> SUFFICES ASSUME NEW r \in Ranks, NEW i \in Holds(r), expected'[i] # Unknown
             PROVE  content'[r][i] = expected'[i]
  BY <1>0 DEF ViewsAgree, View
<1>2. i \in Items
  BY RetainedAreItems
<1>3. content'[r][i] = IF i \notin chunk \cap ModelOf(r, target[r]) THEN content[r][i]
                       ELSE IF r \in loads THEN version
                       ELSE IF r \in fails THEN Lost ELSE content[r][i]
  BY <1>2 DEF Update
<1>4. expected[i] # Unknown => content[r][i] = expected[i]
  BY <1>1, MappedView DEF IInv, ViewsAgree
<1>5. CASE NoneActive
  <2>1. expected'[i] = expected[i]
    BY <1>2, <1>5 DEF Update
  <2>2. r \notin loads /\ r \notin fails
    BY <1>5 DEF NoneActive
  <2>3. QED
    BY <1>3, <1>4, <2>1, <2>2
<1>6. CASE ~NoneActive /\ (loads # Ranks \/ session = "unknown")
  <2>1. expected'[i] = IF i \in chunk \cup {Lora} THEN Unknown ELSE expected[i]
    BY <1>2, <1>6 DEF Update
  <2>2. QED
    BY <1>3, <1>4, <2>1
<1>7. CASE ~NoneActive /\ loads = Ranks /\ session # "unknown"
  <2> DEFINE into == UNION {ModelOf(q, session) : q \in Ranks}
  <2>1. expected'[i] = IF i \in chunk \cap into THEN version
                       ELSE IF i = Lora /\ session = "base" THEN Unknown ELSE expected[i]
    BY <1>2, <1>7 DEF Update
  <2>2. active[r] /\ r \in loads
    BY <1>7
  <2>3. session \in {"base", "draft"} /\ target[r] = session
    BY <1>7, <2>2 DEF IInv, TypeOK, SessionsAgree
  <2>4. i \in into => i \in ModelOf(r, session)
    BY <2>3, SharedEverywhere DEF IInv, TypeOK
  <2>5. i \in ModelOf(r, session) => i \in into
    OBVIOUS
  <2>6. QED
    BY <1>3, <1>4, <2>1, <2>2, <2>3, <2>4, <2>5
<1>8. QED
  BY <1>5, <1>6, <1>7

LEMMA FinishViews ==
  ASSUME IInv, NEW F \in SUBSET Ranks, Finish(F), TypeOK'
  PROVE  ViewsAgree'
<1> DEFINE ends == {r \in Ranks : active[r]} \ F
<1>1. launch' = launch /\ mapped' = mapped /\ \A r \in Ranks : "weights" \in mapped[r]
  BY DEF Finish
<1>0. \A r \in Ranks : DOMAIN saved'[r] = {} /\ Holds(r)' = Holds(r)
  BY <1>1, LaunchFixed DEF TypeOK
<1> SUFFICES ASSUME NEW r \in Ranks, NEW i \in Holds(r), expected'[i] # Unknown
             PROVE  content'[r][i] = expected'[i]
  BY <1>0 DEF ViewsAgree, View
<1>2. i \in Items /\ Lora \in Items
  BY RetainedAreItems DEF Items
<1>3. expected[i] # Unknown => content[r][i] = expected[i]
  BY <1>1, MappedView DEF IInv, ViewsAgree
<1>4. content'[r][i] = IF i = Lora /\ r \in ends /\ ~isDraft[r] THEN version ELSE content[r][i]
  BY <1>2 DEF Finish, ResetsLora, IInv, TypeOK
<1>5. CASE NoneActive
  BY <1>3, <1>4, <1>5 DEF Finish, NoneActive
<1>6. CASE ~NoneActive /\ ends = Ranks /\ session = "draft"
  <2>1. isDraft[r]
    BY <1>6 DEF IInv, SessionsAgree
  <2>2. expected' = expected
    BY <1>6 DEF Finish
  <2>3. QED
    BY <1>3, <1>4, <2>1, <2>2
<1>7. CASE ~NoneActive /\ ~(ends = Ranks /\ session = "draft")
  <2>1. expected'[i] = IF i # Lora THEN expected[i]
                       ELSE IF ends = Ranks /\ session = "base" THEN version ELSE Unknown
    BY <1>2, <1>7 DEF Finish, IInv, TypeOK
  <2>2. session = "base" => ~isDraft[r]
    BY DEF IInv, SessionsAgree
  <2>3. QED
    BY <1>3, <1>4, <2>1, <2>2
<1>8. QED
  BY <1>5, <1>6, <1>7

LEMMA SleepViews ==
  ASSUME IInv, NEW level \in {1, 2}, NEW grown \in SUBSET Ranks, Sleep(level, grown)
  PROVE  ViewsAgree'
<1> DEFINE fails == {r \in Ranks : Fails(r, level, grown)}
<1>1. launch' = launch
  BY DEF Sleep
<1> SUFFICES ASSUME NEW r \in Ranks, NEW i \in Holds(r), expected'[i] # Unknown
             PROVE  View(r, i)' = expected'[i]
  BY <1>1, LaunchFixed DEF ViewsAgree
<1>2. i \in Items
  BY RetainedAreItems
<1>3. fails = {} /\ ~Raises(r, level) /\ expected'[i] = expected[i]
  BY <1>2 DEF Sleep, Fails
<1>4. View(r, i) = expected[i]
  BY <1>3 DEF IInv, ViewsAgree
<1>5. CASE level = 1
  <2>1. saved'[r] = saved[r] /\ content'[r] = content[r]
    BY <1>5 DEF Sleep
  <2>2. QED
    BY <1>3, <1>4, <2>1 DEF View
<1>6. CASE level = 2
  <2>1. i \in Retained(r)
    BY <1>2, <1>6 DEF Sleep
  <2>2. saved'[r] = [j \in Retained(r) |-> content[r][j]]
    BY <1>3, <1>6 DEF Sleep
  <2>3. "weights" \in mapped[r]
    BY <1>2, <1>3 DEF Sleep, IInv, Awake
  <2>4. View(r, i) = content[r][i]
    BY <2>3, MappedView DEF IInv
  <2>5. QED
    BY <1>3, <1>4, <2>1, <2>2, <2>4 DEF View
<1>7. QED
  BY <1>5, <1>6

LEMMA WakeUpViews ==
  ASSUME IInv, NEW tags \in SUBSET Tags, WakeUp(tags)
  PROVE  ViewsAgree'
<1>1. launch' = launch /\ expected' = expected
  BY DEF WakeUp
<1> SUFFICES ASSUME NEW r \in Ranks, NEW i \in Holds(r)
             PROVE  View(r, i)' = View(r, i)
  BY <1>1, LaunchFixed DEF ViewsAgree, IInv
<1>2. i \in Items
  BY RetainedAreItems
<1>3. CASE "weights" \in tags
  <2>1. saved'[r] = <<>> /\ DOMAIN saved'[r] = {}
    BY <1>3 DEF WakeUp, WakesWeights, AfterRestore
  <2>2. "weights" \in mapped'[r]
    BY <1>3 DEF WakeUp
  <2>3. content'[r][i] = IF i \in DOMAIN saved[r] THEN saved[r][i] ELSE content[r][i]
    BY <1>2, <1>3, <2>2 DEF WakeUp, WakesWeights
  <2>4. QED
    BY <2>1, <2>3 DEF View
<1>4. CASE "weights" \notin tags
  BY <1>4 DEF WakeUp, WakesWeights, View
<1>5. QED
  BY <1>3, <1>4

LEMMA NextViews ==
  ASSUME IInv, [Next]_vars, TypeOK'
  PROVE  ViewsAgree'
<1>1. ASSUME UNCHANGED <<launch, content, saved, expected>>
      PROVE  ViewsAgree'
  BY <1>1, LaunchFixed DEF ViewsAgree, View, IInv
<1>2. CASE \E chunk \in SUBSET Params \ {{}}, F \in SUBSET Ranks : Update(chunk, F)
  BY <1>2, UpdateViews
<1>3. CASE \E F \in SUBSET Ranks : Finish(F)
  BY <1>3, FinishViews
<1>4. CASE \E level \in {1, 2}, grown \in SUBSET Ranks : Sleep(level, grown)
  BY <1>4, SleepViews
<1>5. CASE \E tags \in SUBSET Tags : WakeUp(tags)
  BY <1>5, WakeUpViews
<1>6. QED
  BY <1>1, <1>2, <1>3, <1>4, <1>5
     DEF Next, Start, Connect, Disconnect, vars, workerVars, clientVars

-----------------------------------------------------------------------------
(* The inductive invariant, and what follows from it.                       *)

LEMMA InitInv == Init => IInv
<1> SUFFICES ASSUME Init PROVE IInv
  OBVIOUS
<1>1. IdleTargetsBase /\ SessionsAgree /\ Awake
  BY DEF Init, IdleTargetsBase, SessionsAgree, Awake, Tags
<1>2. \A r \in Ranks, i \in Items : View(r, i) = 0 /\ expected[i] = 0
  <2>1. \A r \in Ranks : saved[r] = <<>> /\ DOMAIN saved[r] = {}
    BY DEF Init
  <2>2. QED
    BY <2>1 DEF Init, View
<1>3. ViewsAgree
  BY <1>2, RetainedAreItems DEF ViewsAgree
<1>4. QED
  BY <1>1, <1>3, InitType DEF IInv

\* Every step of the workers and of their client keeps the inductive
\* invariant: sessions, targets and saved copies agree with what the client
\* was told (gpu_worker.py: weight updates, sleep and wake_up).
THEOREM NextInv == IInv /\ [Next]_vars => IInv'
<1> SUFFICES ASSUME IInv, [Next]_vars PROVE IInv'
  OBVIOUS
<1>1. TypeOK' /\ SavedOK'
  BY NextType DEF IInv
<1>2. IdleTargetsBase' /\ SessionsAgree' /\ Awake'
  BY NextTarget, NextSession, NextAwake DEF IInv
<1>3. ViewsAgree'
  BY <1>1, NextViews
<1>4. QED
  BY <1>1, <1>2, <1>3 DEF IInv

LEMMA SpecInv == Spec => []IInv
<1>1. QED
  BY InitInv, NextInv, PTL DEF Spec

LEMMA InvViews == IInv => ClientView
<1> SUFFICES ASSUME IInv, NEW r \in Ranks, "weights" \in mapped[r],
                    NEW i \in Holds(r), expected[i] # Unknown
             PROVE  content[r][i] = expected[i]
  BY DEF ClientView
<1>1. QED
  BY MappedView DEF IInv, ViewsAgree

\* Every variable keeps its shape; saved copies exist only while the memory
\* of the weights is unmapped.
THEOREM TypeCorrect == Spec => []TypeOK
<1>1. IInv => TypeOK
  BY DEF IInv
<1>2. QED
  BY <1>1, SpecInv, PTL

\* As far as the client was not told of an error, every rank holds what the
\* client sent, through any order of sessions, failures, sleeps and wake-ups.
THEOREM ClientViewHolds == Spec => []ClientView
  BY SpecInv, InvViews, PTL

\* Between sessions the engine points at the base model on every rank.
THEOREM IdleTargets == Spec => []IdleTargetsBase
<1>1. IInv => IdleTargetsBase
  BY DEF IInv
<1>2. QED
  BY <1>1, SpecInv, PTL

-----------------------------------------------------------------------------
(* The ranks sleep and wake together, or the client knows that they do not. *)

(* After a sleep that failed on a rank once another rank was suspended, the  *)
(* executor takes nothing to be asleep, and no call maps the memory again.  *)
HalfAsleep ==
  /\ sleeping = {} /\ \A i \in Items : expected[i] = Unknown
  /\ \E r \in Ranks : mapped[r] = {}

AgreeInv == (\A r \in Ranks : mapped[r] = Tags \ sleeping) \/ HalfAsleep

LEMMA NextAgree ==
  ASSUME TypeOK, AgreeInv, [Next]_vars
  PROVE  AgreeInv'
<1>1. ASSUME NEW level \in {1, 2}, NEW grown \in SUBSET Ranks, Sleep(level, grown)
      PROVE  AgreeInv'
  <2> DEFINE fails == {r \in Ranks : Fails(r, level, grown)}
  <2>1. CASE fails = {}
    <3>1. sleeping' = Tags /\ \A r \in Ranks : ~Raises(r, level)
      BY <1>1, <2>1 DEF Sleep, Fails
    <3>2. \A r \in Ranks : mapped'[r] = {}
      BY <1>1, <3>1 DEF Sleep
    <3>3. QED
      BY <3>1, <3>2 DEF AgreeInv, Tags
  <2>2. CASE fails # {}
    <3>1. sleeping' = {} /\ launch' = launch /\ expected' = [i \in Items |-> Unknown]
      BY <1>1, <2>2 DEF Sleep
    <3>2. CASE \A r \in Ranks : Raises(r, level)
      <4>1. \A r \in Ranks : mapped'[r] = Tags
        BY <1>1, <3>2 DEF Sleep
      <4>2. QED
        BY <3>1, <4>1 DEF AgreeInv
    <3>3. CASE \E r \in Ranks : ~Raises(r, level)
      <4>1. \E r \in Ranks : mapped'[r] = {}
        BY <1>1, <3>3 DEF Sleep
      <4>2. QED
        BY <3>1, <4>1, LaunchFixed DEF AgreeInv, HalfAsleep
    <3>4. QED
      BY <3>2, <3>3
  <2>3. QED
    BY <2>1, <2>2
<1>2. ASSUME NEW tags \in SUBSET Tags, WakeUp(tags)
      PROVE  AgreeInv'
  <2>1. ~HalfAsleep
    BY <1>2 DEF WakeUp, HalfAsleep
  <2>2. \A r \in Ranks : mapped'[r] = mapped[r] \cup tags
    BY <1>2 DEF WakeUp
  <2>3. QED
    BY <1>2, <2>1, <2>2 DEF WakeUp, AgreeInv, TypeOK
<1>3. ASSUME UNCHANGED <<launch, mapped, sleeping>>,
             expected' = expected \/ \A r \in Ranks : "weights" \in mapped[r]
      PROVE  AgreeInv'
  <2>1. CASE HalfAsleep
    <3>1. expected' = expected /\ Items' = Items
      BY <1>3, <2>1, LaunchFixed DEF HalfAsleep
    <3>2. QED
      BY <1>3, <2>1, <3>1 DEF AgreeInv, HalfAsleep
  <2>2. CASE ~HalfAsleep
    BY <1>3, <2>2 DEF AgreeInv
  <2>3. QED
    BY <2>1, <2>2
<1>4. QED
  BY <1>1, <1>2, <1>3
     DEF Next, Start, Update, Finish, Connect, Disconnect, vars, workerVars, clientVars

\* Whatever the retention patterns match on a rank, and on whatever ranks a
\* sleep fails: as long as no sleep was reported to have failed, every rank has
\* given up the memory the executor takes to be asleep, and no other
\* (gpu_worker.py, _save_sleep_parameters, sleep and wake_up).
THEOREM RanksSleepTogether == Spec => []RanksAgree
<1>1. Init => AgreeInv
  BY DEF Init, AgreeInv
<1>2. TypeOK /\ AgreeInv /\ [Next]_vars => AgreeInv'
  BY NextAgree
<1>3. AgreeInv => RanksAgree
  BY DEF AgreeInv, HalfAsleep, RanksAgree
<1>4. QED
  BY <1>1, <1>2, <1>3, TypeCorrect, PTL DEF Spec
=============================================================================
