---------------------------- MODULE ManagedStore ----------------------------
(***************************************************************************)
(* The lifecycle store of the managed integration: the state of the one    *)
(* integration and the journal of the commands that changed it, in the     *)
(* encrypted database and in memory.                                       *)
(*                                                                         *)
(* A release stands for its version and for the digest of its manifest.    *)
(***************************************************************************)
EXTENDS Integers, FiniteSets, FiniteSetsExt

CONSTANTS Releases,       \* numbers: a later version is larger
          Keys, None

Error(kind) == [error |-> kind]
IsError(x) == "error" \in DOMAIN x
Refuse(t, answer) == [tables |-> t, answer |-> answer]
Commit(t, answer) == [tables |-> t, answer |-> answer]
Conflict(t) == Refuse(t, Error("Conflict"))

EmptyTables == [lifecycle |-> None, journal |-> [k \in Keys |-> None]]

Entries(t) == {k \in Keys : t.journal[k] # None}
Pending(t) == {k \in Entries(t) : t.journal[k].published = None}

\* The phases a row may be in.
PhaseAllowed(row) ==
  CASE row.phase = "Available" -> row.installed = None /\ row.rollback = None
    [] row.phase = "Installed" -> row.installed # None /\ row.rollback = None
    [] row.phase = "UpdateAvailable" -> row.installed # None /\ row.rollback = None
    [] row.phase = "RollbackAvailable" -> row.installed # None /\ row.rollback # None

Outcome(phase, installed, rollback, c, revision) ==
  [phase |-> phase, installed |-> installed, available |-> c.candidate,
   rollback |-> rollback, revision |-> revision, updated |-> c.observed]

Transition(c, current, revision) ==
  IF c.mutation = "Install" /\ current = None
    THEN Outcome("Installed", c.candidate, None, c, revision)
  ELSE IF c.mutation = "Install" \/ current = None THEN Error("Conflict")
  ELSE IF c.mutation = "Update"
    THEN IF current.installed \in {None, c.candidate} THEN Error("Conflict")
         ELSE Outcome("RollbackAvailable", c.candidate, current.installed, c, revision)
  ELSE IF current.rollback = None THEN Error("Conflict")
  ELSE Outcome("UpdateAvailable", current.rollback, None, c, revision)

GetLifecycle(t) == t.lifecycle

\* The newest outcome whose publication was acknowledged.
GetPublished(t) ==
  LET published == Entries(t) \ Pending(t)
      Newest(k) == \A other \in published :
                     t.journal[other].revision <= t.journal[k].revision
  IN IF published = {} THEN None
     ELSE t.journal[CHOOSE k \in published : Newest(k)].outcome

RevisionOf(row) == IF row = None THEN 0 ELSE row.revision

Apply(t, c) ==
  LET next == Transition(c, t.lifecycle, RevisionOf(t.lifecycle) + 1)
  IN IF t.journal[c.key] # None
       THEN IF t.journal[c.key].print # c.print THEN Conflict(t)
            ELSE Refuse(t, t.journal[c.key].outcome)
     ELSE IF Pending(t) # {} \/ RevisionOf(t.lifecycle) # c.expected THEN Conflict(t)
     ELSE IF IsError(next) THEN Refuse(t, next)
     ELSE IF ~PhaseAllowed(next) THEN Conflict(t)
     ELSE Commit([t EXCEPT !.lifecycle = next,
                    !.journal[c.key] =
                      [print |-> c.print, mutation |-> c.mutation,
                       revision |-> next.revision, candidate |-> c.candidate,
                       outcome |-> next, observed |-> c.observed, published |-> None]],
                 next)

PendingPublications(t) ==
  {[key |-> k, mutation |-> t.journal[k].mutation, revision |-> t.journal[k].revision,
    candidate |-> t.journal[k].candidate] : k \in Pending(t)}

\* The command that is acknowledged twice names the same time twice.
Acknowledge(t, key, revision, at) ==
  LET entry == t.journal[key]
  IN IF entry = None THEN Refuse(t, Error("NotFound"))
     ELSE IF entry.revision # revision \/ at < entry.observed THEN Conflict(t)
     ELSE IF entry.published # None
       THEN IF entry.published = at THEN Refuse(t, [done |-> TRUE]) ELSE Conflict(t)
     ELSE Commit([t EXCEPT !.journal[key].published = at], [done |-> TRUE])

-----------------------------------------------------------------------------
(* The in-memory store. *)

MemTransition(c, current, revision) ==
  IF c.mutation = "Install"
    THEN IF current # None THEN Error("Conflict")
         ELSE Outcome("Installed", c.candidate, None, c, revision)
  ELSE IF current = None THEN Error("Conflict")
  ELSE IF c.mutation = "Rollback"
    THEN IF current.rollback = None THEN Error("Conflict")
         ELSE Outcome("UpdateAvailable", current.rollback, None, c, revision)
  ELSE IF current.installed = None \/ current.installed = c.candidate
    THEN Error("Conflict")
  ELSE Outcome("RollbackAvailable", c.candidate, current.installed, c, revision)

MemGetPublished(m) ==
  LET published == {m.journal[k] : k \in {k \in Entries(m) : m.journal[k].published # None}}
  IN IF published = {} THEN None
     ELSE (CHOOSE e \in published :
             \A other \in published : other.outcome.revision <= e.outcome.revision).outcome

MemApply(m, c) ==
  LET entry == m.journal[c.key]
      next == MemTransition(c, m.lifecycle, RevisionOf(m.lifecycle) + 1)
  IN IF entry # None /\ entry.print # c.print THEN Conflict(m)
     ELSE IF entry # None THEN Refuse(m, entry.outcome)
     ELSE IF \E k \in Entries(m) : m.journal[k].published = None THEN Conflict(m)
     ELSE IF RevisionOf(m.lifecycle) # c.expected THEN Conflict(m)
     ELSE IF IsError(next) THEN Refuse(m, next)
     ELSE Commit([m EXCEPT !.lifecycle = next,
                    !.journal[c.key] =
                      [print |-> c.print, mutation |-> c.mutation,
                       revision |-> next.revision, candidate |-> next.available,
                       outcome |-> next, observed |-> next.updated, published |-> None]],
                 next)

MemPendingPublications(m) ==
  {[key |-> k, mutation |-> m.journal[k].mutation,
    revision |-> m.journal[k].outcome.revision,
    candidate |-> m.journal[k].outcome.available] :
     k \in {k \in Entries(m) : m.journal[k].published = None}}

\* It does not compare the time with that of the command.
MemAcknowledge(m, key, revision, at) ==
  LET entry == m.journal[key]
  IN IF entry = None THEN Refuse(m, Error("NotFound"))
     ELSE IF entry.outcome.revision # revision THEN Conflict(m)
     ELSE IF entry.published = None
       THEN Commit([m EXCEPT !.journal[key].published = at], [done |-> TRUE])
     ELSE IF entry.published # at THEN Conflict(m)
     ELSE Refuse(m, [done |-> TRUE])

-----------------------------------------------------------------------------
(* The same calls of the ManagedIntegrationStore port, legal or not, in    *)
(* every order on the encrypted database and on the in-memory store.       *)
(*                                                                         *)
(* Left out, since the two stores differ there: an acknowledgement dated   *)
(* before its command, which only the database refuses.                    *)

Calls(revisions) ==
  [op : {"apply"}, key : Keys, mutation : {"Install", "Update", "Rollback"},
   candidate : Releases, expected : 0..revisions]
  \cup [op : {"acknowledge"}, key : Keys, revision : 1..revisions, at : {1, 2}]
  \cup [op : {"get", "published", "pending"}]

Command(c) ==
  [key |-> c.key, print |-> <<c.mutation, c.candidate>>, mutation |-> c.mutation,
   candidate |-> c.candidate, expected |-> c.expected, observed |-> 1]

OnTables(t, c) ==
  CASE c.op = "apply" -> Apply(t, Command(c))
    [] c.op = "acknowledge" -> Acknowledge(t, c.key, c.revision, c.at)
    [] c.op = "get" -> Refuse(t, [row |-> GetLifecycle(t)])
    [] c.op = "published" -> Refuse(t, [row |-> GetPublished(t)])
    [] c.op = "pending" -> Refuse(t, [rows |-> PendingPublications(t)])

OnMaps(m, c) ==
  CASE c.op = "apply" -> MemApply(m, Command(c))
    [] c.op = "acknowledge" -> MemAcknowledge(m, c.key, c.revision, c.at)
    [] c.op = "get" -> Refuse(m, [row |-> GetLifecycle(m)])
    [] c.op = "published" -> Refuse(m, [row |-> MemGetPublished(m)])
    [] c.op = "pending" -> Refuse(m, [rows |-> MemPendingPublications(m)])

Same(x, y) == IF IsError(x) \/ IsError(y) THEN IsError(x) /\ IsError(y) ELSE x = y

\* Whatever is called in whatever order: at most one change is not published
\* yet, the revisions recorded are those from one to the current one, and
\* the lifecycle is the outcome of the newest command.
LifecycleSound(t) ==
  /\ Cardinality(Pending(t)) <= 1
  /\ {t.journal[k].revision : k \in Entries(t)} = 1..RevisionOf(t.lifecycle)
  /\ \A k \in Entries(t) :
       t.journal[k].revision = RevisionOf(t.lifecycle)
         => t.journal[k].outcome = t.lifecycle
=============================================================================
