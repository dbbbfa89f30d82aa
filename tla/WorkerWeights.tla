---------------------------- MODULE WorkerWeights ---------------------------
(***************************************************************************)
(* What a worker does to its weights while it serves (v1/worker/           *)
(* gpu_worker.py of the overlay): the weight update session started, fed   *)
(* and finished by separate calls, the trainer connection, and sleep and   *)
(* wake-up with the buffers and parameters that survive a level 2 sleep.   *)
(*                                                                         *)
(* Every call goes to all ranks, and returns an error to the client when   *)
(* some rank raises; the other ranks have done their part by then.  What   *)
(* has to be right: whenever the client got no error, the contents of      *)
(* every parameter and buffer on every rank is what the client thinks.     *)
(*                                                                         *)
(* An item is a parameter, a buffer, or the LoRA state derived from the    *)
(* base weights.  Its contents is the number of the session that loaded    *)
(* it, 0 for what the process started with, Lost for garbage.              *)
(***************************************************************************)
EXTENDS Integers, FiniteSets

CONSTANTS
  Ranks,
  Launches,         \* the launches that are looked at
  Lora,             \* the item for the LoRA state
  DraftPattern,     \* the pattern "draft.*"
  SupportsDraft,    \* weight_transfer_engine.supports_draft_weight_update
  MaxSessions,      \* bound: start calls
  MaxFaults         \* bound: calls of the engine that fail on some ranks

\* A parameter the two models share is shared on every rank that holds it.
ASSUME WeightsAssumption ==
  /\ \A l \in Launches : \A q, r \in Ranks :
       /\ l.buffers[r] \cap (l.base[q] \cup l.draft[q]) = {}
       /\ Lora \notin l.base[r] \cup l.draft[r] \cup l.buffers[r]
       /\ l.base[q] \cap l.draft[r] \subseteq l.base[r] \cap l.draft[q]
  /\ SupportsDraft \in BOOLEAN
  /\ MaxSessions \in Nat /\ MaxFaults \in Nat

VARIABLES
  launch,     \* what the launch fixes
  content,    \* [Ranks -> [Items -> contents]]
  saved,      \* [Ranks -> [saved items -> contents]]: the _sleep_saved_* dicts
  mapped,     \* [Ranks -> tags whose memory is mapped]
  active,     \* [Ranks -> _weight_update_active]
  isDraft,    \* [Ranks -> _weight_update_is_draft]
  target,     \* [Ranks -> the engine's weight update target]
  connected,  \* [Ranks -> the engine has a trainer connection]
  sleeping,   \* the executor: tags asleep
  session,    \* the client: the model it thinks its chunks go to
  version,    \* the client: start calls so far
  expected,   \* the client: [Items -> what it thinks every rank holds]
  faults, sleeps

workerVars == <<content, saved, mapped, active, isDraft, target, connected>>
clientVars == <<sleeping, session, version, expected, faults, sleeps>>
vars == <<launch, workerVars, clientVars>>

Base      == launch.base       \* [Ranks -> set of parameters]
Draft     == launch.draft      \* ... of the draft model; {}: the rank has none
Buffers   == launch.buffers    \* [Ranks -> buffers of the base and of the draft model]
Patterns  == launch.patterns   \* sleep_preserve_parameter_names: each the set it
                               \* matches, or DraftPattern
MaxSleeps == launch.maxSleeps  \* bound: sleep calls

Params == UNION {Base[r] \cup Draft[r] : r \in Ranks}
Items  == Params \cup (UNION {Buffers[r] : r \in Ranks}) \cup {Lora}
Tags   == {"weights", "kv_cache"}
Lost    == -1
Unknown == -2       \* the client does not know what an item holds

\* The parameters of the model the engine's target names.
ModelOf(r, model) == IF model = "draft" THEN Draft[r] ELSE Base[r]
Holds(r) == Base[r] \cup Draft[r] \cup Buffers[r] \cup {Lora}

\* Ranks on which the engine call of this step fails.
Faulty(F) ==
  /\ F # {} => faults < MaxFaults
  /\ faults' = IF F = {} THEN faults ELSE faults + 1

-----------------------------------------------------------------------------
(* The weight update session.                                               *)

\* A call that every rank refuses changes nothing, and the client knows it.
NoneActive == \A r \in Ranks : ~active[r]

\* The checks before the try block: a rank that raises here is untouched.
Refuses(r, draft) == (draft /\ ~SupportsDraft) \/ active[r]

\* Mutant: the engine is retargeted before the check for an active session.
StartTarget_BeforeCheck(r, draft, failed) ==
  IF failed THEN "base" ELSE IF draft /\ Draft[r] # {} THEN "draft" ELSE target[r]

\* _set_draft_weight_update_target, and the reset when the start fails.  A
\* base session does not set the target: it relies on the last reset.
StartTarget(r, draft, failed) ==
  IF Refuses(r, draft) \/ (~draft /\ ~failed) THEN target[r]
  ELSE IF failed THEN "base" ELSE "draft"

\* _start_weight_update on every rank; F are the ranks whose engine fails.
\* A rank without a draft model cannot start a draft session.
Start(draft, F) ==
  LET failed == F \cup {r \in Ranks : draft /\ Draft[r] = {}}
      starts == {r \in Ranks : ~Refuses(r, draft) /\ r \notin failed}
  IN  /\ version < MaxSessions
      /\ Faulty(F)
      /\ version' = version + 1
      /\ target' = [r \in Ranks |-> StartTarget(r, draft, r \in failed)]
      /\ active' = [r \in Ranks |-> active[r] \/ r \in starts]
      /\ isDraft' = [r \in Ranks |-> IF r \in starts THEN draft ELSE isDraft[r]]
      /\ session' = IF starts = Ranks THEN (IF draft THEN "draft" ELSE "base")
                    ELSE IF \A r \in Ranks : Refuses(r, draft) THEN session
                    ELSE "unknown"
      /\ UNCHANGED <<launch, content, saved, mapped, connected, sleeping, expected, sleeps>>

\* Mutant: a failed update ends the session but leaves the engine's target.
FailedTarget_Kept(r) == target[r]

\* The except branch of update_weights.
FailedTarget(r) == "base"

\* update_weights with the chunk that carries these parameters.  The client
\* sends chunks only while the memory of the weights is mapped.
Update(chunk, F) ==
  LET fails == {r \in Ranks : active[r] /\ (r \in F \/ ~connected[r])}
      loads == {r \in Ranks : active[r]} \ fails
      ok    == loads = Ranks
      into  == UNION {ModelOf(r, session) : r \in Ranks}
  IN  /\ \A r \in Ranks : "weights" \in mapped[r]
      /\ Faulty(F)
      /\ content' = [r \in Ranks |-> [i \in Items |->
           IF i \notin chunk \cap ModelOf(r, target[r]) THEN content[r][i]
           ELSE IF r \in loads THEN version
           ELSE IF r \in fails THEN Lost ELSE content[r][i]]]
      /\ active' = [r \in Ranks |-> r \in loads]
      /\ target' = [r \in Ranks |-> IF r \in fails THEN FailedTarget(r) ELSE target[r]]
      /\ expected' = [i \in Items |->
           IF NoneActive THEN expected[i]
           ELSE IF ~ok \/ session = "unknown" THEN
                  IF i \in chunk \cup {Lora} THEN Unknown ELSE expected[i]
           ELSE IF i \in chunk \cap into THEN version
           ELSE IF i = Lora /\ session = "base" THEN Unknown ELSE expected[i]]
      /\ session' = IF ok \/ NoneActive THEN session ELSE "unknown"
      /\ UNCHANGED <<launch, saved, mapped, isDraft, connected, sleeping, version, sleeps>>

\* Mutant: the LoRA state is reset after draft sessions.
ResetsLora_Draft(r) == isDraft[r]

\* `if not self._weight_update_is_draft: reset_lora_state()`.
ResetsLora(r) == ~isDraft[r]

\* finish_weight_update: when the engine raises, the session stays active.
Finish(F) ==
  LET ends == {r \in Ranks : active[r]} \ F
      ok   == ends = Ranks
  IN  /\ \A r \in Ranks : "weights" \in mapped[r]
      /\ Faulty(F)
      /\ active' = [r \in Ranks |-> active[r] /\ r \notin ends]
      /\ target' = [r \in Ranks |-> IF r \in ends THEN "base" ELSE target[r]]
      /\ content' = [r \in Ranks |->
           IF r \in ends /\ ResetsLora(r) THEN [content[r] EXCEPT ![Lora] = version]
           ELSE content[r]]
      /\ expected' = IF NoneActive \/ (ok /\ session = "draft") THEN expected
           ELSE [expected EXCEPT ![Lora] = IF ok /\ session = "base" THEN version ELSE Unknown]
      /\ session' = IF ok THEN "none" ELSE IF NoneActive THEN session ELSE "unknown"
      /\ UNCHANGED <<launch, saved, mapped, isDraft, connected, sleeping, version, sleeps>>

\* init_weight_transfer_engine
Connect ==
  /\ \E r \in Ranks : ~connected[r]
  /\ connected' = [r \in Ranks |-> TRUE]
  /\ UNCHANGED <<launch, content, saved, mapped, active, isDraft, target, clientVars>>

\* shutdown_weight_transfer_engine raises during a session.
Disconnect ==
  /\ \E r \in Ranks : connected[r] /\ ~active[r]
  /\ connected' = [r \in Ranks |-> connected[r] /\ active[r]]
  /\ UNCHANGED <<launch, content, saved, mapped, active, isDraft, target, clientVars>>

-----------------------------------------------------------------------------
(* Sleep and wake-up.                                                       *)

\* fnmatch over _get_sleep_parameters: base names, then "draft." names of the
\* draft parameters the base model does not share.
Matches(r, pattern) ==
  IF pattern = DraftPattern THEN Draft[r] \ Base[r] ELSE pattern \cap (Base[r] \cup Draft[r])

\* Mutant: every pattern has to match on every rank.
Unmatched_NoException(r) == \E p \in Patterns : Matches(r, p) = {}

\* `No parameter matches sleep retention`
Unmatched(r) == \E p \in Patterns : Matches(r, p) = {} /\ p # DraftPattern

\* _save_sleep_parameters, _sleep_saved_buffers and _sleep_saved_draft_buffers.
Retained(r) == (UNION {Matches(r, p) : p \in Patterns}) \cup Buffers[r]

\* A rank that raises before anything is saved or suspended.
Raises(r, level) == level = 2 /\ Unmatched(r)

\* Mutant: the rank whose retention pattern matches nothing returns instead.
Fails_GrownOnly(r, level, grown) == r \in grown

\* What the executor hears of: the raise, and the assertion freed_bytes >= 0,
\* which comes after the suspend (other processes may take the memory).
Fails(r, level, grown) == Raises(r, level) \/ r \in grown

\* sleep, which the client calls between sessions and the executor only when
\* nothing is asleep; after a failed one that suspended a rank no client calls
\* it again.  Level 1 keeps the weights in host memory; level 2 gives them up.
\* On the ranks of grown less memory is free after the suspend.
Sleep(level, grown) ==
  LET stays == {r \in Ranks : Raises(r, level)}
      fails == {r \in Ranks : Fails(r, level, grown)}
      kept  == {i \in Items : \A r \in Ranks : i \in Holds(r) => i \in Retained(r)}
  IN  /\ sleeping = {} /\ session = "none" /\ sleeps < MaxSleeps
      /\ \A r \in Ranks : mapped[r] = Tags
      /\ Faulty(grown)
      /\ sleeps' = sleeps + 1
      /\ saved' = [r \in Ranks |-> IF level = 1 \/ r \in stays THEN saved[r]
                                   ELSE [i \in Retained(r) |-> content[r][i]]]
      /\ content' = [r \in Ranks |-> IF level = 1 \/ r \in stays THEN content[r]
                                     ELSE [i \in Items |-> Lost]]
      /\ mapped' = [r \in Ranks |-> IF r \in stays THEN mapped[r] ELSE {}]
      /\ sleeping' = IF fails = {} THEN Tags ELSE {}
      /\ expected' = [i \in Items |->
           IF fails = {} /\ (level = 1 \/ i \in kept) THEN expected[i] ELSE Unknown]
      /\ UNCHANGED <<launch, active, isDraft, target, connected, session, version>>

\* Mutant: any wake-up restores and forgets what was saved.
WakesWeights_Any(tags) == TRUE

\* `tags is None or "weights" in tags`
WakesWeights(tags) == "weights" \in tags

\* Mutant: what was saved stays, to be restored once more by a later wake-up.
AfterRestore_Kept(r) == saved[r]

\* The three dicts are emptied once restored.
AfterRestore(r) == <<>>

\* wake_up, of tags the executor knows asleep; None wakes all of them.
WakeUp(tags) ==
  /\ tags # {} /\ (tags \subseteq sleeping \/ (tags = Tags /\ sleeping # {}))
  /\ mapped' = [r \in Ranks |-> mapped[r] \cup tags]
  /\ content' = [r \in Ranks |->
       IF ~WakesWeights(tags) THEN content[r]
       ELSE [i \in Items |-> IF i \in DOMAIN saved[r] /\ "weights" \in mapped'[r]
                             THEN saved[r][i] ELSE content[r][i]]]
  /\ saved' = [r \in Ranks |-> IF WakesWeights(tags) THEN AfterRestore(r) ELSE saved[r]]
  /\ sleeping' = sleeping \ tags
  /\ UNCHANGED <<launch, active, isDraft, target, connected, session, version, expected, faults, sleeps>>

-----------------------------------------------------------------------------

Init ==
  /\ launch \in Launches
  /\ content = [r \in Ranks |-> [i \in Items |-> 0]]
  /\ saved = [r \in Ranks |-> <<>>]
  /\ mapped = [r \in Ranks |-> Tags]
  /\ active = [r \in Ranks |-> FALSE]
  /\ isDraft = [r \in Ranks |-> FALSE]
  /\ target = [r \in Ranks |-> "base"]
  /\ connected = [r \in Ranks |-> FALSE]
  /\ sleeping = {}
  /\ session = "none"
  /\ version = 0
  /\ expected = [i \in Items |-> 0]
  /\ faults = 0
  /\ sleeps = 0

Next ==
  \/ \E draft \in BOOLEAN, F \in SUBSET Ranks : Start(draft, F)
  \/ \E chunk \in SUBSET Params \ {{}}, F \in SUBSET Ranks : Update(chunk, F)
  \/ \E F \in SUBSET Ranks : Finish(F)
  \/ Connect
  \/ Disconnect
  \/ \E level \in {1, 2}, grown \in SUBSET Ranks : Sleep(level, grown)
  \/ \E tags \in SUBSET Tags : WakeUp(tags)

Spec == Init /\ [][Next]_vars

-----------------------------------------------------------------------------

TypeOK ==
  /\ launch \in Launches
  /\ content \in [Ranks -> [Items -> Lost..MaxSessions]]
  /\ \A r \in Ranks : DOMAIN saved[r] \in
       (IF "weights" \in mapped[r] THEN {{}} ELSE {{}, Retained(r)})
  /\ mapped \in [Ranks -> SUBSET Tags]
  /\ active \in [Ranks -> BOOLEAN] /\ isDraft \in [Ranks -> BOOLEAN]
  /\ target \in [Ranks -> {"base", "draft"}]
  /\ connected \in [Ranks -> BOOLEAN]
  /\ sleeping \in SUBSET Tags
  /\ session \in {"none", "base", "draft", "unknown"}
  /\ version \in 0..MaxSessions
  /\ expected \in [Items -> Unknown..MaxSessions]

\* As far as the client was not told of an error, every rank holds what the
\* client sent, in the model its session chose, and what was to survive a
\* level 2 sleep did, in whatever order the tags were woken.
ClientView ==
  \A r \in Ranks : "weights" \in mapped[r] =>
    \A i \in Holds(r) : expected[i] # Unknown => content[r][i] = expected[i]

\* The engine points at the base model on every rank without a session, which
\* is what the next base session relies on (_start_weight_update).
IdleTargetsBase == \A r \in Ranks : ~active[r] => target[r] = "base"

\* As far as the client was not told that a sleep failed, every rank has given
\* up exactly the memory the executor takes to be asleep.  A rank may raise
\* before its suspend (no match of a retention pattern, on that stage alone)
\* or after it (freed_bytes < 0), while the others go to sleep.
RanksAgree ==
  (\E i \in Items : expected[i] # Unknown) => \A r \in Ranks : mapped[r] = Tags \ sleeping
=============================================================================
