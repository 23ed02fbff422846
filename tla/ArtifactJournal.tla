-------------------------- MODULE ArtifactJournal --------------------------
(***************************************************************************)
(* The durable artifact tables and the transactions of ArtifactStore on    *)
(* the encrypted database: import, open and removal command journals, the  *)
(* artifact rows, their immutable content versions and their retention.    *)
(*                                                                         *)
(* A transaction is an operator from the tables and its arguments to the   *)
(* tables it leaves and the answer it gives.  An artifact is named by the  *)
(* import command that reserves it (artifact_id is UNIQUE in the journal)  *)
(* and its only content version is 1; a content is its byte size and       *)
(* stands for its digest as well.  The three active_slot columns are       *)
(* UNIQUE, so each journal holds at most one command in progress.          *)
(***************************************************************************)
EXTENDS Integers, FiniteSets, FiniteSetsExt

CONSTANTS Imports,          \* import commands, and the artifact of each
          Opens, Removals,  \* open and removal commands
          Prints,           \* request fingerprints
          ProjectOf,        \* Imports -> the project it imports into
          OwnersOf,         \* Imports -> that project, and its thread if any
          Sizes,            \* byte sizes of imported files
          MaxFile,          \* MAX_ARTIFACT_FILE_BYTES
          MaxCount,         \* MAX_PROJECT_ARTIFACT_COUNT
          MaxProject,       \* MAX_PROJECT_ARTIFACT_BYTES
          MaxGlobal,        \* MAX_GLOBAL_ARTIFACT_BYTES
          None

ImportStates == {"Prepared", "ContentReady", "Committed", "Failed"}
OpenStates == {"Prepared", "Dispatching", "Opened", "Failed",
               "InterruptedNeedsReview"}
RetentionStates == {"Retained", "PurgePending", "Purged"}
Failures == {"SourceUnavailable", "SourceChanged", "FileTooLarge",
             "ProjectByteQuotaExceeded", "GlobalByteQuotaExceeded",
             "DeadlineExceeded", "IntegrityFailure",
             "ContentStoreUnavailable", "InterruptedBeforeContentReady"}

EmptyTables ==
  [artifacts |-> [a \in Imports |-> None],
   imports   |-> [a \in Imports |-> None],
   versions  |-> [a \in Imports |-> None],
   retention |-> [a \in Imports |-> None],
   opens     |-> [o \in Opens |-> None],
   removals  |-> [x \in Removals |-> None],
   closed    |-> {}]

\* The answer of a transaction that rolled back, and of one that committed.
Error(why) == [error |-> why]
Refuse(t, answer) == [tables |-> t, answer |-> answer]
Commit(t, answer) == [tables |-> t, answer |-> answer]
IsError(answer) == "error" \in DOMAIN answer

-----------------------------------------------------------------------------
(* Imports. *)

Unfinished(t, a) ==
  t.imports[a] # None /\ t.imports[a].state \in {"Prepared", "ContentReady"}

\* The row whose active_slot is 1.
ActiveImports(t) == {a \in Imports : Unfinished(t, a)}

\* Does ArtifactImportPlan::restore accept the joined row?
ImportRestores(t, a) ==
  LET row == t.imports[a]
      artifact == t.artifacts[a]
  IN /\ artifact.state =
          IF row.state = "Committed" THEN "Available" ELSE "Unavailable"
     /\ (row.failure # None) = (row.state = "Failed")
     /\ row.revision \in CASE row.state = "Prepared" -> {0}
                           [] row.state = "ContentReady" -> {1}
                           [] row.state = "Committed" -> {2}
                           [] OTHER -> {1, 2}
     /\ (row.content # None) =
          (row.state \in {"ContentReady", "Committed"} \/ row.revision = 2)

QueryImportPlan(t, a) ==
  CASE t.imports[a] = None -> Error("NotFound")
    [] t.imports[a] # None /\ ImportRestores(t, a) -> t.imports[a]
    [] OTHER -> Error("Internal")

ResolveImport(t, a, print) ==
  IF t.imports[a] = None THEN Error("Unknown")
  ELSE IF t.imports[a].print # print THEN Error("Conflict")
  ELSE QueryImportPlan(t, a)

\* ensure_active_artifact_owner: neither the project nor the thread is closed.
OwnerActive(t, a) == OwnersOf[a] \cap t.closed = {}

\* A removed artifact no longer counts, a failed import does.
ProjectArtifactCount(t, p) ==
  Cardinality({a \in Imports : /\ ProjectOf[a] = p
                               /\ t.artifacts[a] # None
                               /\ t.artifacts[a].state # "Deleted"})

ReserveAccepted(t, a) ==
  /\ OwnerActive(t, a)
  /\ ProjectArtifactCount(t, ProjectOf[a]) < MaxCount
  /\ ActiveImports(t) = {}

ReserveImport(t, a, print) ==
  IF t.imports[a] # None
    THEN Refuse(t, [replay |-> TRUE, plan |-> ResolveImport(t, a, print)])
  ELSE IF ~ReserveAccepted(t, a) THEN Refuse(t, Error("Conflict"))
  ELSE LET row == [print |-> print, state |-> "Prepared", revision |-> 0,
                   content |-> None, failure |-> None]
       IN Commit([t EXCEPT !.artifacts[a] = [state |-> "Unavailable",
                                             revision |-> 0],
                           !.imports[a] = row],
                 [replay |-> FALSE, plan |-> row])

-----------------------------------------------------------------------------
(* Byte accounting. *)

SizeOf(t, a) == t.versions[a]

\* Versions count until their purge is confirmed.
CommittedOf(t, A) ==
  MapThenSumSet(LAMBDA a : SizeOf(t, a),
                {a \in A : t.versions[a] # None /\ t.retention[a].state # "Purged"})

ReservedOf(t, A) ==
  MapThenSumSet(LAMBDA a : t.imports[a].content,
                {a \in A : t.imports[a] # None
                           /\ t.imports[a].state = "ContentReady"})

InProject(p) == {a \in Imports : ProjectOf[a] = p}

\* ensure_complete_retention
RetentionComplete(t) ==
  \A a \in Imports : t.versions[a] # None => t.retention[a] # None

QuotaFailureForContent(t, p, content) ==
  IF content > MaxFile THEN "FileTooLarge"
  ELSE IF CommittedOf(t, InProject(p)) + ReservedOf(t, InProject(p)) + content
            > MaxProject
    THEN "ProjectByteQuotaExceeded"
  ELSE IF CommittedOf(t, Imports) + ReservedOf(t, Imports) + content > MaxGlobal
    THEN "GlobalByteQuotaExceeded"
  ELSE None

EnsureQuotaStillReserved(t, p) ==
  /\ CommittedOf(t, InProject(p)) + ReservedOf(t, InProject(p)) <= MaxProject
  /\ CommittedOf(t, Imports) + ReservedOf(t, Imports) <= MaxGlobal

\* What the early check of a new import reads.
QuotaUsage(t, p) ==
  [count |-> ProjectArtifactCount(t, p),
   project |-> CommittedOf(t, InProject(p)),
   global |-> CommittedOf(t, Imports)]

-----------------------------------------------------------------------------

\* The trigger artifact_ingestions_validate_update.
ImportUpdateAllowed(old, new) ==
  /\ new.print = old.print
  /\ new.revision = old.revision + 1
  /\ \/ old.state = "Prepared" /\ new.state = "ContentReady"
        /\ old.content = None /\ new.content # None
     \/ old.state = "Prepared" /\ new.state = "Failed" /\ new.content = None
     \/ old.state = "ContentReady" /\ new.state \in {"Committed", "Failed"}
        /\ new.content = old.content

UpdateImport(t, a, row) ==
  IF ImportUpdateAllowed(t.imports[a], row)
    THEN Commit([t EXCEPT !.imports[a] = row], row)
    ELSE Refuse(t, Error("Conflict"))

MarkContentReady(t, a, revision, content) ==
  LET plan == QueryImportPlan(t, a)
      failure == QuotaFailureForContent(t, ProjectOf[a], content)
  IN IF IsError(plan) THEN Refuse(t, plan)
     ELSE IF plan.revision # revision \/ plan.state # "Prepared"
       THEN Refuse(t, Error("Conflict"))
     ELSE IF ~RetentionComplete(t) THEN Refuse(t, Error("Internal"))
     ELSE IF failure # None THEN Refuse(t, [quota |-> failure])
     ELSE UpdateImport(t, a, [plan EXCEPT !.state = "ContentReady",
                                          !.revision = 1,
                                          !.content = content])

\* The insertion fires artifact_versions_create_retention.
InsertVersion(t, a, content) ==
  [t EXCEPT !.versions[a] = content,
            !.retention[a] = [state |-> "Retained", revision |-> 0]]

CommitImport(t, a, artifactRevision, importRevision, content) ==
  LET plan == QueryImportPlan(t, a)
      stored == InsertVersion(t, a, content)
      available == [stored EXCEPT !.artifacts[a] = [state |-> "Available",
                                                    revision |-> 1]]
  IN IF IsError(plan) THEN Refuse(t, plan)
     ELSE IF \/ plan.state # "ContentReady" \/ plan.revision # importRevision
             \/ t.artifacts[a].revision # artifactRevision
             \/ plan.content # content
             \/ ~EnsureQuotaStillReserved(t, ProjectOf[a])
             \/ t.versions[a] # None
       THEN Refuse(t, Error("Conflict"))
     ELSE UpdateImport(available, a, [plan EXCEPT !.state = "Committed",
                                                  !.revision = 2])

FailImport(t, a, revision, failure) ==
  LET plan == QueryImportPlan(t, a)
  IN IF IsError(plan) THEN Refuse(t, plan)
     ELSE IF \/ plan.revision # revision
             \/ plan.state \notin {"Prepared", "ContentReady"}
       THEN Refuse(t, Error("Conflict"))
     ELSE UpdateImport(t, a, [plan EXCEPT !.state = "Failed",
                                          !.revision = @ + 1,
                                          !.failure = failure])

-----------------------------------------------------------------------------
(* Opens. *)

ActiveOpens(t) ==
  {o \in Opens : t.opens[o] # None
                 /\ t.opens[o].state \in {"Prepared", "Dispatching"}}

ResolveOpen(t, o, a) ==
  IF t.opens[o] = None THEN Error("Unknown")
  ELSE IF t.opens[o].artifact # a THEN Error("Conflict") ELSE t.opens[o]

\* is_current_available_content, the insert trigger and the active slot.
PrepareOpenAccepted(t, a) ==
  /\ t.versions[a] # None
  /\ t.artifacts[a].state = "Available"
  /\ ActiveOpens(t) = {}

PrepareOpen(t, o, a) ==
  IF t.opens[o] # None
    THEN Refuse(t, [replay |-> TRUE, plan |-> ResolveOpen(t, o, a)])
  ELSE IF ~PrepareOpenAccepted(t, a) THEN Refuse(t, Error("Conflict"))
  ELSE LET row == [artifact |-> a, state |-> "Prepared", revision |-> 0,
                   failure |-> None]
       IN Commit([t EXCEPT !.opens[o] = row], [replay |-> FALSE, plan |-> row])

\* begin_dispatch, complete, fail and interrupt.
OpenMoveAllowed(state, next) ==
  CASE next = "Dispatching" -> state = "Prepared"
    [] next = "Failed" -> state \in {"Prepared", "Dispatching"}
    [] OTHER -> state = "Dispatching"

\* transition_open finds its row by artifact, not by command.
TransitionOpen(t, a, revision, next, failure) ==
  LET active == {o \in ActiveOpens(t) : t.opens[o].artifact = a}
      o == CHOOSE k \in active : TRUE
      row == [t.opens[o] EXCEPT !.state = next, !.revision = @ + 1,
                                !.failure = failure]
  IN IF active = {} THEN Refuse(t, Error("NotFound"))
     ELSE IF \/ t.opens[o].revision # revision
             \/ ~OpenMoveAllowed(t.opens[o].state, next)
       THEN Refuse(t, Error("Conflict"))
     ELSE Commit([t EXCEPT !.opens[o] = row], row)

-----------------------------------------------------------------------------
(* Removals. *)

PendingRemovals(t) ==
  {x \in Removals : t.removals[x] # None /\ t.removals[x].state = "Pending"}

RemovalOf(t, a) == {x \in Removals : t.removals[x] # None
                                     /\ t.removals[x].artifact = a}

\* validate_removal_retention
RemovalRetentionValid(t, x) ==
  LET a == t.removals[x].artifact
  IN /\ t.versions[a] # None
     /\ t.retention[a] # None
     /\ t.retention[a].state \in IF t.removals[x].state = "Pending"
                                   THEN {"PurgePending", "Purged"}
                                   ELSE {"Purged"}

QueryRemovalPlan(t, a) ==
  IF RemovalOf(t, a) = {} THEN Error("NotFound")
  ELSE LET x == CHOOSE k \in RemovalOf(t, a) : TRUE
       IN IF RemovalRetentionValid(t, x) THEN t.removals[x] ELSE Error("Internal")

ResolveRemoval(t, x, a) ==
  IF t.removals[x] = None THEN Error("Unknown")
  ELSE IF t.removals[x].artifact # a THEN Error("Conflict")
  ELSE QueryRemovalPlan(t, a)

\* Mutant: the insert trigger does not look at the open journal.
RemovalAllowedDuringOpen(t, a) ==
  /\ t.artifacts[a].state = "Available"
  /\ ~Unfinished(t, a)
  /\ t.retention[a] # None /\ t.retention[a].state = "Retained"

\* The trigger artifact_removal_commands_validate_insert.  It refuses while
\* any open, of whatever artifact, is in progress.
RemovalInsertAllowed(t, a) ==
  /\ t.artifacts[a].state = "Available"
  /\ ~Unfinished(t, a)
  /\ ActiveOpens(t) = {}
  /\ t.retention[a] # None /\ t.retention[a].state = "Retained"

ReserveRemoval(t, x, a, revision) ==
  IF t.removals[x] # None
    THEN Refuse(t, ResolveRemoval(t, x, a))
  ELSE IF \/ t.artifacts[a] = None
          \/ ~RemovalInsertAllowed(t, a)
          \/ PendingRemovals(t) # {} \/ RemovalOf(t, a) # {}
          \/ t.artifacts[a].revision # revision
    THEN Refuse(t, Error("Conflict"))
  ELSE LET row == [artifact |-> a, state |-> "Pending", revision |-> 0]
       IN Commit([t EXCEPT !.removals[x] = row,
                           !.artifacts[a] = [state |-> "Deleted",
                                             revision |-> @.revision + 1],
                           !.retention[a] = [state |-> "PurgePending",
                                             revision |-> 1]],
                 row)

ListPendingRemovalVersions(t, a) ==
  LET plan == QueryRemovalPlan(t, a)
  IN IF IsError(plan) \/ plan.state # "Pending" THEN Error("Conflict")
     ELSE IF t.retention[a].state = "PurgePending"
       THEN [versions |-> {t.retention[a].revision}]
     ELSE [versions |-> {}]

MarkContentPurged(t, a, revision) ==
  LET plan == QueryRemovalPlan(t, a)
  IN IF IsError(plan) THEN Refuse(t, plan)
     ELSE IF \/ plan.state # "Pending"
             \/ t.retention[a].revision # revision
             \/ t.retention[a].state # "PurgePending"
       THEN Refuse(t, Error("Conflict"))
     ELSE Commit([t EXCEPT !.retention[a] = [state |-> "Purged",
                                             revision |-> 2]], [state |-> "Purged"])

CommitRemoval(t, a, revision) ==
  LET plan == QueryRemovalPlan(t, a)
  IN IF IsError(plan) THEN Refuse(t, plan)
     ELSE IF \/ plan.revision # revision \/ plan.state # "Pending"
             \/ t.retention[a].state # "Purged"
       THEN Refuse(t, Error("Conflict"))
     ELSE LET x == CHOOSE k \in RemovalOf(t, a) : TRUE
              row == [plan EXCEPT !.state = "Committed", !.revision = 1]
          IN Commit([t EXCEPT !.removals[x] = row], row)

-----------------------------------------------------------------------------
(* The artifact journal of the in-memory store: maps and three "active"    *)
(* slots under one mutex, where the encrypted database has tables, UNIQUE  *)
(* columns and triggers.  Command records keep the plan with a copy of the *)
(* artifact, which every later read compares with the artifact map.        *)

EmptyMaps ==
  [artifacts |-> [a \in Imports |-> None],
   importCommands |-> [a \in Imports |-> None],
   versions |-> [a \in Imports |-> None],
   retention |-> [a \in Imports |-> None],
   openCommands |-> [o \in Opens |-> None],
   removalCommands |-> [x \in Removals |-> None],
   removalArtifacts |-> [a \in Imports |-> None],
   activeImport |-> None, activeOpen |-> None, activeRemoval |-> None,
   closed |-> {}]

\* validate_artifact_import_record
ValidImportRecord(m, a) ==
  m.importCommands[a].artifact = m.artifacts[a]

ArtifactImportPlan(m, a) ==
  IF ValidImportRecord(m, a) THEN m.importCommands[a].plan ELSE Error("Internal")

MemResolveImport(m, a, print) ==
  IF m.importCommands[a] = None THEN Error("Unknown")
  ELSE IF m.importCommands[a].plan.print # print THEN Error("Conflict")
  ELSE ArtifactImportPlan(m, a)

MemArtifactCount(m, p) ==
  Cardinality({a \in InProject(p) : m.artifacts[a] # None
                                    /\ m.artifacts[a].state # "Deleted"})

MemReserveImport(m, a, print) ==
  IF m.importCommands[a] # None
    THEN Refuse(m, [replay |-> TRUE, plan |-> MemResolveImport(m, a, print)])
  ELSE IF \/ OwnersOf[a] \cap m.closed # {}
          \/ m.activeImport # None
          \/ MemArtifactCount(m, ProjectOf[a]) >= MaxCount
    THEN Refuse(m, Error("Conflict"))
  ELSE LET artifact == [state |-> "Unavailable", revision |-> 0]
           plan == [print |-> print, state |-> "Prepared", revision |-> 0,
                    content |-> None, failure |-> None]
       IN Commit([m EXCEPT !.artifacts[a] = artifact,
                           !.importCommands[a] = [plan |-> plan,
                                                  artifact |-> artifact],
                           !.activeImport = a],
                 [replay |-> FALSE, plan |-> plan])

-----------------------------------------------------------------------------

\* artifact_committed_bytes and artifact_reserved_bytes
MemCommitted(m, A) ==
  MapThenSumSet(LAMBDA a : m.versions[a],
                {a \in A : m.versions[a] # None
                           /\ m.retention[a].state # "Purged"})

MemReserved(m, A) ==
  MapThenSumSet(LAMBDA a : m.importCommands[a].plan.content,
                {a \in A : m.importCommands[a] # None
                           /\ m.importCommands[a].plan.state = "ContentReady"})

MemUsed(m, A) == MemCommitted(m, A) + MemReserved(m, A)

MemQuotaFailure(m, p, content) ==
  IF content > MaxFile THEN "FileTooLarge"
  ELSE IF MemUsed(m, InProject(p)) + content > MaxProject
    THEN "ProjectByteQuotaExceeded"
  ELSE IF MemUsed(m, Imports) + content > MaxGlobal
    THEN "GlobalByteQuotaExceeded"
  ELSE None

\* active_import_key, then artifact_import_plan
ActiveImportPlan(m, a) ==
  IF m.importCommands[a] = None THEN Error("NotFound")
  ELSE IF m.activeImport # a THEN Error("Conflict")
  ELSE ArtifactImportPlan(m, a)

MemMarkContentReady(m, a, revision, content) ==
  LET plan == ActiveImportPlan(m, a)
      failure == MemQuotaFailure(m, ProjectOf[a], content)
      ready == [plan EXCEPT !.state = "ContentReady", !.revision = @ + 1,
                            !.content = content]
  IN IF IsError(plan) THEN Refuse(m, plan)
     ELSE IF plan.revision # revision \/ plan.state # "Prepared"
       THEN Refuse(m, Error("Conflict"))
     ELSE IF failure # None THEN Refuse(m, [quota |-> failure])
     ELSE Commit([m EXCEPT !.importCommands[a].plan = ready], ready)

\* Mutant: the active slot is not released.
MemCommitImportHolding(m, a, artifactRevision, importRevision, content) ==
  LET plan == ActiveImportPlan(m, a)
      artifact == [state |-> "Available", revision |-> 1]
      done == [plan EXCEPT !.state = "Committed", !.revision = @ + 1]
  IN IF IsError(plan) THEN Refuse(m, plan)
     ELSE IF \/ plan.state # "ContentReady" \/ plan.revision # importRevision
             \/ plan.content # content
       THEN Refuse(m, Error("Conflict"))
     ELSE Commit([m EXCEPT !.versions[a] = content,
                           !.retention[a] = [state |-> "Retained",
                                             revision |-> 0],
                           !.artifacts[a] = artifact,
                           !.importCommands[a] = [plan |-> done,
                                                  artifact |-> artifact]], done)

MemCommitImport(m, a, artifactRevision, importRevision, content) ==
  LET plan == ActiveImportPlan(m, a)
      artifact == [state |-> "Available", revision |-> 1]
      done == [plan EXCEPT !.state = "Committed", !.revision = @ + 1]
  IN IF IsError(plan) THEN Refuse(m, plan)
     ELSE IF \/ plan.state # "ContentReady" \/ plan.revision # importRevision
             \/ m.artifacts[a].revision # artifactRevision
             \/ plan.content # content
             \/ m.versions[a] # None \/ m.retention[a] # None
             \/ MemUsed(m, InProject(ProjectOf[a])) > MaxProject
             \/ MemUsed(m, Imports) > MaxGlobal
       THEN Refuse(m, Error("Conflict"))
     ELSE Commit([m EXCEPT !.versions[a] = content,
                           !.retention[a] = [state |-> "Retained",
                                             revision |-> 0],
                           !.artifacts[a] = artifact,
                           !.importCommands[a] = [plan |-> done,
                                                  artifact |-> artifact],
                           !.activeImport = None], done)

MemFailImport(m, a, revision, failure) ==
  LET plan == ActiveImportPlan(m, a)
      failed == [plan EXCEPT !.state = "Failed", !.revision = @ + 1,
                             !.failure = failure]
  IN IF IsError(plan) THEN Refuse(m, plan)
     ELSE IF plan.revision # revision THEN Refuse(m, Error("Conflict"))
     ELSE Commit([m EXCEPT !.importCommands[a].plan = failed,
                           !.activeImport = None], failed)

-----------------------------------------------------------------------------

MemResolveOpen(m, o, a) ==
  IF m.openCommands[o] = None THEN Error("Unknown")
  ELSE IF m.openCommands[o].artifact # a THEN Error("Conflict")
  ELSE m.openCommands[o]

MemPrepareOpen(m, o, a) ==
  IF m.openCommands[o] # None
    THEN Refuse(m, [replay |-> TRUE, plan |-> MemResolveOpen(m, o, a)])
  ELSE IF m.versions[a] = None THEN Refuse(m, Error("NotFound"))
  ELSE IF \/ m.artifacts[a].state # "Available"
          \/ m.retention[a].state # "Retained"
          \/ m.removalArtifacts[a] # None
          \/ m.activeOpen # None
    THEN Refuse(m, Error("Conflict"))
  ELSE LET plan == [artifact |-> a, state |-> "Prepared", revision |-> 0,
                    failure |-> None]
       IN Commit([m EXCEPT !.openCommands[o] = plan, !.activeOpen = o],
                 [replay |-> FALSE, plan |-> plan])

\* transition_artifact_open moves the active open whatever its key.
MemTransitionOpen(m, a, revision, next, failure) ==
  LET o == m.activeOpen
      plan == [m.openCommands[o] EXCEPT !.state = next, !.revision = @ + 1,
                                        !.failure = failure]
  IN IF o = None THEN Refuse(m, Error("NotFound"))
     ELSE IF \/ m.openCommands[o].artifact # a
             \/ m.openCommands[o].revision # revision
             \/ ~OpenMoveAllowed(m.openCommands[o].state, next)
       THEN Refuse(m, Error("Conflict"))
     ELSE Commit([m EXCEPT !.openCommands[o] = plan,
                           !.activeOpen = IF next = "Dispatching" THEN @
                                          ELSE None], plan)

-----------------------------------------------------------------------------

\* validate_artifact_removal_record
ValidRemovalRecord(m, x) ==
  LET record == m.removalCommands[x]
      a == record.plan.artifact
  IN /\ m.artifacts[a] = record.artifact
     /\ (m.activeRemoval = x) = (record.plan.state = "Pending")
     /\ m.versions[a] # None /\ m.retention[a] # None
     /\ m.retention[a].state \in IF record.plan.state = "Pending"
                                   THEN {"PurgePending", "Purged"}
                                   ELSE {"Purged"}

ArtifactRemovalPlan(m, x) ==
  IF ValidRemovalRecord(m, x) THEN m.removalCommands[x].plan
  ELSE Error("Internal")

MemResolveRemoval(m, x, a) ==
  IF m.removalCommands[x] = None THEN Error("Unknown")
  ELSE IF m.removalCommands[x].plan.artifact # a THEN Error("Conflict")
  ELSE ArtifactRemovalPlan(m, x)

MemReserveRemoval(m, x, a, revision) ==
  IF m.removalCommands[x] # None THEN Refuse(m, MemResolveRemoval(m, x, a))
  ELSE IF \/ m.activeRemoval # None \/ m.removalArtifacts[a] # None
          \/ m.activeOpen # None
    THEN Refuse(m, Error("Conflict"))
  ELSE IF m.artifacts[a] = None THEN Refuse(m, Error("NotFound"))
  ELSE IF \/ m.artifacts[a].state # "Available"
          \/ m.artifacts[a].revision # revision
          \/ m.retention[a] = None \/ m.retention[a].state # "Retained"
    THEN Refuse(m, Error("Conflict"))
  ELSE LET artifact == [state |-> "Deleted", revision |-> revision + 1]
           plan == [artifact |-> a, state |-> "Pending", revision |-> 0]
       IN Commit([m EXCEPT !.artifacts[a] = artifact,
                           !.retention[a] = [state |-> "PurgePending",
                                             revision |-> @.revision + 1],
                           !.removalArtifacts[a] = x,
                           !.removalCommands[x] = [plan |-> plan,
                                                   artifact |-> artifact],
                           !.activeRemoval = x], plan)

RemovalPlanOf(m, a) ==
  IF m.removalArtifacts[a] = None THEN Error("NotFound")
  ELSE ArtifactRemovalPlan(m, m.removalArtifacts[a])

MemListPendingRemovalVersions(m, a) ==
  LET plan == RemovalPlanOf(m, a)
  IN IF IsError(plan) THEN plan
     ELSE IF plan.state # "Pending" THEN Error("Conflict")
     ELSE IF m.retention[a].state = "PurgePending"
       THEN [versions |-> {m.retention[a].revision}]
     ELSE [versions |-> {}]

MemMarkContentPurged(m, a, revision) ==
  LET plan == RemovalPlanOf(m, a)
  IN IF IsError(plan) THEN Refuse(m, plan)
     ELSE IF \/ plan.state # "Pending"
             \/ m.activeRemoval # m.removalArtifacts[a]
             \/ m.retention[a].revision # revision
             \/ m.retention[a].state # "PurgePending"
       THEN Refuse(m, Error("Conflict"))
     ELSE Commit([m EXCEPT !.retention[a] = [state |-> "Purged",
                                             revision |-> @.revision + 1]],
                 [state |-> "Purged"])

MemCommitRemoval(m, a, revision) ==
  LET plan == RemovalPlanOf(m, a)
      done == [plan EXCEPT !.state = "Committed", !.revision = @ + 1]
  IN IF IsError(plan) THEN Refuse(m, plan)
     ELSE IF \/ m.activeRemoval # m.removalArtifacts[a]
             \/ plan.revision # revision \/ plan.state # "Pending"
             \/ m.retention[a].state # "Purged"
       THEN Refuse(m, Error("Conflict"))
     ELSE Commit([m EXCEPT !.removalCommands[m.removalArtifacts[a]].plan = done,
                           !.activeRemoval = None], done)

-----------------------------------------------------------------------------

\* The maps read as the tables they stand for.
AsTables(m) ==
  [artifacts |-> m.artifacts,
   imports |-> [a \in Imports |-> IF m.importCommands[a] = None THEN None
                                  ELSE m.importCommands[a].plan],
   versions |-> m.versions, retention |-> m.retention,
   opens |-> m.openCommands,
   removals |-> [x \in Removals |-> IF m.removalCommands[x] = None THEN None
                                    ELSE m.removalCommands[x].plan],
   closed |-> m.closed]

-----------------------------------------------------------------------------
(* The same calls of the ArtifactStore port, legal or not, in every order  *)
(* on the encrypted database and on the in-memory store.                   *)

Calls ==
  [op : {"reserveImport"}, a : Imports, print : Prints]
  \cup [op : {"contentReady"}, a : Imports, revision : 0..1, content : Sizes]
  \cup [op : {"commitImport"}, a : Imports, revision : 0..1, content : Sizes]
  \cup [op : {"failImport"}, a : Imports, revision : 0..2]
  \cup [op : {"prepareOpen"}, o : Opens, a : Imports]
  \cup [op : {"moveOpen"}, a : Imports, revision : 0..1,
        next : {"Dispatching", "Opened", "Failed", "InterruptedNeedsReview"}]
  \cup [op : {"reserveRemoval"}, x : Removals, a : Imports, revision : 1..2]
  \cup [op : {"listPurges"}, a : Imports]
  \cup [op : {"markPurged"}, a : Imports, revision : 0..2]
  \cup [op : {"commitRemoval"}, a : Imports, revision : 0..1]
  \cup [op : {"close"}, owner : UNION {OwnersOf[a] : a \in Imports}]

OnTables(t, c) ==
  CASE c.op = "reserveImport" -> ReserveImport(t, c.a, c.print)
    [] c.op = "contentReady" -> MarkContentReady(t, c.a, c.revision, c.content)
    [] c.op = "commitImport" -> CommitImport(t, c.a, 0, c.revision, c.content)
    [] c.op = "failImport" -> FailImport(t, c.a, c.revision, "SourceChanged")
    [] c.op = "prepareOpen" -> PrepareOpen(t, c.o, c.a)
    [] c.op = "moveOpen" ->
         TransitionOpen(t, c.a, c.revision, c.next,
                        IF c.next = "Failed" THEN "IntegrityFailure" ELSE None)
    [] c.op = "reserveRemoval" -> ReserveRemoval(t, c.x, c.a, c.revision)
    [] c.op = "listPurges" -> Refuse(t, ListPendingRemovalVersions(t, c.a))
    [] c.op = "markPurged" -> MarkContentPurged(t, c.a, c.revision)
    [] c.op = "commitRemoval" -> CommitRemoval(t, c.a, c.revision)
    [] c.op = "close" -> Commit([t EXCEPT !.closed = @ \cup {c.owner}],
                                [closed |-> c.owner])

OnMaps(m, c) ==
  CASE c.op = "reserveImport" -> MemReserveImport(m, c.a, c.print)
    [] c.op = "contentReady" -> MemMarkContentReady(m, c.a, c.revision, c.content)
    [] c.op = "commitImport" -> MemCommitImport(m, c.a, 0, c.revision, c.content)
    [] c.op = "failImport" -> MemFailImport(m, c.a, c.revision, "SourceChanged")
    [] c.op = "prepareOpen" -> MemPrepareOpen(m, c.o, c.a)
    [] c.op = "moveOpen" ->
         MemTransitionOpen(m, c.a, c.revision, c.next,
                           IF c.next = "Failed" THEN "IntegrityFailure" ELSE None)
    [] c.op = "reserveRemoval" -> MemReserveRemoval(m, c.x, c.a, c.revision)
    [] c.op = "listPurges" -> Refuse(m, MemListPendingRemovalVersions(m, c.a))
    [] c.op = "markPurged" -> MemMarkContentPurged(m, c.a, c.revision)
    [] c.op = "commitRemoval" -> MemCommitRemoval(m, c.a, c.revision)
    [] c.op = "close" -> Commit([m EXCEPT !.closed = @ \cup {c.owner}],
                                [closed |-> c.owner])

\* A refusal, whichever error it carries.
Refused(answer) ==
  \/ IsError(answer)
  \/ "plan" \in DOMAIN answer /\ IsError(answer.plan)

Same(x, y) ==
  IF Refused(x) \/ Refused(y) THEN Refused(x) /\ Refused(y) ELSE x = y

\* The two stores hold the same records.
Agree(t, m) == AsTables(m) = t
=============================================================================
