------------------------------ MODULE ChatModels ------------------------------
(***************************************************************************)
(* The model that new chats use: it is selected from a catalogue that the  *)
(* provider is asked for on the way, by its name or by an alias, and kept  *)
(* as a revisioned setting.  Two requests run beside each other.           *)
(*                                                                         *)
(* A catalogue is a sequence of [id, aliases, kind]; the kind "text" can   *)
(* hold a conversation.                                                    *)
(***************************************************************************)
EXTENDS Naturals, Sequences, FiniteSets, SequencesExt, Absence

CONSTANTS Keys,         \* idempotency keys
          Default,      \* the model of somebody who has selected none
          Scenarios     \* the requests, the catalogues and what goes wrong

Settings == INSTANCE SettingsStore

VARIABLES setting,      \* the preference and the commands that changed it
          requests,     \* [op, model, expected, key, stage, row, answer]
          now,
          seen,         \* history: the selections saved, and the answers given
          left

vars == <<setting, requests, now, seen, left>>

Idle == [op |-> "none", model |-> None, expected |-> 0, key |-> None, stage |-> "idle",
         row |-> Settings!Fresh, answer |-> "none"]

Init ==
  /\ left \in Scenarios
  /\ setting = Settings!NoSettings
  /\ requests = [r \in Requests |-> Idle]
  /\ now = left.clock
  /\ seen = [saved |-> {}, answers |-> {}, shown |-> {}]

Spend(what) == left[what] > 0 /\ left' = [left EXCEPT ![what] = @ - 1]

-----------------------------------------------------------------------------
(* Catalogues. *)

supports_text_conversation(model) == model.kind = "text"

\* Every name is the name or the alias of one model, once.
Advertised(models) ==
  [i \in DOMAIN models |-> models[i].id] \o FlattenSeq([i \in DOMAIN models |-> models[i].aliases])

validate_catalog(models) ==
  \A i, j \in DOMAIN Advertised(models) : Advertised(models)[i] = Advertised(models)[j] => i = j

Called(name, models) == {i \in DOMAIN models : models[i].id = name}
AlsoCalled(name, models) == {i \in DOMAIN models : Contains(models[i].aliases, name)}

\* The name of the one model that was meant, if it can hold a conversation.
canonical_text_model_id(requested, models) ==
  LET found == IF Called(requested, models) # {} THEN Called(requested, models)
               ELSE AlsoCalled(requested, models)
  IN  {models[i].id : i \in {j \in found : /\ Cardinality(found) = 1 \/ models[j].id = requested
                                           /\ supports_text_conversation(models[j])}}

Selected(row) == IF row.revision = 0 THEN Default ELSE row.value

catalog_snapshot(row, models) ==
  LET canonical == canonical_text_model_id(Selected(row), models)
  IN  [row |-> row, models |-> models,
       ready |-> canonical # {} /\ (row.revision = 0 \/ canonical = {Selected(row)})]

-----------------------------------------------------------------------------
(* Requests. *)

Fingerprint(q) == <<q.expected, q.model>>
At(r, stage) == requests[r].stage = stage
Answered(r, answer) == [requests EXCEPT ![r].stage = "done", ![r].answer = answer]

\* The rows that commands were answered with.
Told(key, row) == [seen EXCEPT !.answers = @ \cup {[key |-> key, row |-> row]}]

\* select: an exact replay is answered before anything is asked.
Select(r, q) ==
  LET prior == Settings!PriorMutation(setting, q.key, Fingerprint(q)) IN
  /\ q.op = "select"
  /\ requests' = [requests EXCEPT ![r] = [Idle EXCEPT
       !.op = "select", !.model = q.model, !.expected = q.expected, !.key = q.key,
       !.stage = IF Settings!IsError(prior) \/ prior.is = "Saved" THEN "done" ELSE "discovering",
       !.answer = IF Settings!IsError(prior) THEN "conflict"
                  ELSE IF prior.is = "Saved" THEN "saved" ELSE "none"]]
  /\ seen' = IF ~Settings!IsError(prior) /\ prior.is = "Saved" THEN Told(q.key, prior.row)
             ELSE seen

\* catalog: the preference is read first.
Catalog(r, q) ==
  /\ q.op = "catalog"
  /\ requests' = [requests EXCEPT ![r] = [Idle EXCEPT
       !.op = "catalog", !.row = setting.row, !.stage = "discovering"]]
  /\ UNCHANGED seen

Ask(r) ==
  /\ requests[r].stage \in {"idle", "done"}
  /\ Spend("asks")
  /\ \E q \in left.requests : Select(r, q) \/ Catalog(r, q)
  /\ UNCHANGED <<setting, now>>

\* The credential is leased and the provider asked, in time.
Discover(r, models) ==
  LET q == requests[r]
      canonical == canonical_text_model_id(q.model, models)
  IN
  /\ At(r, "discovering")
  /\ IF ~validate_catalog(models)
     THEN requests' = Answered(r, "unavailable") /\ UNCHANGED seen
     ELSE IF q.op = "catalog"
     THEN /\ requests' = Answered(r, "shown")
          /\ seen' = [seen EXCEPT !.shown = @ \cup {catalog_snapshot(q.row, models)}]
     ELSE IF canonical = {}
     THEN requests' = Answered(r, "unavailable") /\ UNCHANGED seen
     ELSE /\ requests' = [requests EXCEPT ![r].stage = "loading",
                            ![r].row = [@ EXCEPT !.value = CHOOSE id \in canonical : TRUE]]
          /\ UNCHANGED seen
  /\ UNCHANGED <<setting, now, left>>

DiscoverFails(r) ==
  /\ At(r, "discovering")
  /\ requests' = Answered(r, "unavailable")
  /\ UNCHANGED <<setting, now, seen, left>>

\* The preference must still be the one that was seen, and not from later.
Load(r) ==
  LET q == requests[r]
      row == setting.row
  IN
  /\ At(r, "loading")
  /\ requests' =
       IF row.revision # q.expected THEN Answered(r, "conflict")
       ELSE IF now < row.updated THEN Answered(r, "clock")
       ELSE [requests EXCEPT ![r].stage = "saving",
               ![r].row = [value |-> q.row.value, revision |-> row.revision + 1, updated |-> now]]
  /\ UNCHANGED <<setting, now, seen, left>>

Committed(r) ==
  Settings!SaveSetting(setting, requests[r].row, requests[r].expected, requests[r].key,
                       Fingerprint(requests[r]))

\* History: a row that was saved, and what was asked for.
Saved(r) ==
  IF Committed(r).tables = setting THEN seen.saved
  ELSE seen.saved \cup {[row |-> requests[r].row, model |-> requests[r].model]}

Save(r) ==
  LET answer == Committed(r).answer IN
  /\ At(r, "saving")
  /\ setting' = Committed(r).tables
  /\ IF Settings!IsError(answer)
     THEN requests' = Answered(r, "conflict") /\ seen' = [seen EXCEPT !.saved = Saved(r)]
     ELSE /\ requests' = Answered(r, "saved")
          /\ seen' = [Told(requests[r].key, answer.row) EXCEPT !.saved = Saved(r)]
  /\ UNCHANGED <<now, left>>

\* The answer of the database is lost, with or without its commit.
SaveFails(r) ==
  /\ At(r, "saving")
  /\ Spend("faults")
  /\ \/ setting' = Committed(r).tables /\ seen' = [seen EXCEPT !.saved = Saved(r)]
     \/ UNCHANGED <<setting, seen>>
  /\ requests' = Answered(r, "unavailable")
  /\ UNCHANGED now

\* The daemon stops: its requests are gone.
Stop ==
  /\ Spend("stops")
  /\ requests' = [r \in Requests |-> Idle]
  /\ UNCHANGED <<setting, now, seen>>

Tick == Spend("ticks") /\ now' = now + 1 /\ UNCHANGED <<setting, requests, seen>>
SetBack == Spend("setbacks") /\ now' = 0 /\ UNCHANGED <<setting, requests, seen>>

Next ==
  \/ \E r \in Requests :
       \/ Ask(r) \/ DiscoverFails(r) \/ Load(r) \/ Save(r) \/ SaveFails(r)
       \/ \E models \in left.catalogues : Discover(r, models)
  \/ Stop \/ Tick \/ SetBack

-----------------------------------------------------------------------------
\* The selection is the proper name of a model that can hold a conversation
\* and was asked for by a name that no other model had; each revision was
\* saved once, from the one before; a command is answered alike however often
\* it is repeated; and a selection is shown as ready only when it is the name
\* (or, unless it was chosen, an alias) of such a model.
ChatModelsSound ==
  /\ setting.row.revision > 0 => \E s \in seen.saved : s.row = setting.row
  /\ {s.row.revision : s \in seen.saved} = 1..setting.row.revision
  /\ Cardinality(seen.saved) = setting.row.revision
  /\ \A s \in seen.saved : \E models \in left.catalogues : \E i \in DOMAIN models :
       /\ models[i].id = s.row.value /\ models[i].kind = "text"
       /\ s.model = models[i].id \/ Contains(models[i].aliases, s.model)
       /\ \A j \in DOMAIN models \ {i} :
            s.model # models[j].id /\ ~Contains(models[j].aliases, s.model)
  /\ \A a, b \in seen.answers : a.key = b.key => a.row = b.row
  /\ \A s \in seen.shown : s.ready => \E i \in DOMAIN s.models :
       /\ s.models[i].kind = "text"
       /\ \/ s.models[i].id = Selected(s.row)
          \/ s.row.revision = 0 /\ Contains(s.models[i].aliases, Default)
=============================================================================
