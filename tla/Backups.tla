------------------------------- MODULE Backups -------------------------------
(***************************************************************************)
(* Online backups of the encrypted database: a snapshot is copied into a   *)
(* private staging directory, verified and synced there, and moved to its  *)
(* target by a rename that replaces nothing.  A rename that reports an     *)
(* error may still have happened, so the two directories are read again    *)
(* before the caller is told.                                              *)
(*                                                                         *)
(* Other programs of the user create and delete files at the targets; the  *)
(* system calls fail; the process stops.                                   *)
(***************************************************************************)
EXTENDS Integers

CONSTANTS Backups,      \* calls of backup_to
          Targets,      \* file names in the target directory
          None,
          Scenarios     \* budgets of writes, faults, files of others and stops

VARIABLES live,         \* the revision of the database
          files,        \* Targets -> None, "foreign" or the backup whose snapshot it is
          staging,      \* Backups -> [is, entry, content, sound]
          calls,        \* Backups -> [at, target, since, answer]
          seen,         \* [published, foreign]: the snapshots that became visible,
                        \* and the targets that are files of other programs
          left

vars == <<live, files, staging, calls, seen, left>>

Idle == [at |-> "idle", target |-> None, since |-> 0, answer |-> None]
NoStaging == [is |-> FALSE, entry |-> FALSE, content |-> None, sound |-> FALSE]

Init ==
  /\ live = 0
  /\ files = [n \in Targets |-> None]
  /\ staging = [b \in Backups |-> NoStaging]
  /\ calls = [b \in Backups |-> Idle]
  /\ seen = [published |-> {}, foreign |-> {}]
  /\ left \in Scenarios

Spend(what) == left[what] > 0 /\ left' = [left EXCEPT ![what] = @ - 1]

At(b, at) == calls[b].at = at
Goes(b, at) == calls' = [calls EXCEPT ![b].at = at]
\* Dropping the staging removes the entries that are its own.
Answers(b, answer) ==
  /\ calls' = [calls EXCEPT ![b].at = "done", ![b].answer = answer]
  /\ staging' = [staging EXCEPT ![b] = NoStaging]

-----------------------------------------------------------------------------
\* The target and its sidecars must be absent when the backup is asked for.
Ask(b, n) ==
  /\ At(b, "idle")
  /\ calls' = [calls EXCEPT ![b] =
       IF files[n] # None
         THEN [at |-> "done", target |-> n, since |-> live, answer |-> "refused"]
         ELSE [at |-> "create", target |-> n, since |-> live, answer |-> None]]
  /\ UNCHANGED <<live, files, staging, seen, left>>

\* A directory and an empty file of a fresh name.
Create(b) ==
  /\ At(b, "create")
  /\ staging' = [staging EXCEPT ![b].is = TRUE, ![b].entry = TRUE]
  /\ Goes(b, "copy")
  /\ UNCHANGED <<live, files, seen, left>>

\* The connection is held from the first page to the last.
Copy(b) ==
  /\ At(b, "copy")
  /\ staging' = [staging EXCEPT ![b].content = live]
  /\ Goes(b, "verify")
  /\ UNCHANGED <<live, files, seen, left>>

\* Closed, read again for integrity, its bindings compared, and synced.
Verify(b) ==
  /\ At(b, "verify")
  /\ staging' = [staging EXCEPT ![b].sound = TRUE]
  /\ Goes(b, "check")
  /\ UNCHANGED <<live, files, seen, left>>

\* A step before the publication fails.
Fails(b) ==
  /\ \E at \in {"create", "copy", "verify", "check"} : At(b, at)
  /\ Answers(b, "failed")
  /\ Spend("faults")
  /\ UNCHANGED <<live, files, seen>>

\* publish_backup_no_replace looks at the target once more.
Check(b) ==
  /\ At(b, "check")
  /\ IF files[calls[b].target] = None THEN Goes(b, "rename") /\ UNCHANGED staging
     ELSE Answers(b, "refused")
  /\ UNCHANGED <<live, files, seen, left>>

Moved(b) ==
  /\ files[calls[b].target] = None
  /\ files' = [files EXCEPT ![calls[b].target] = b]
  /\ staging' = [staging EXCEPT ![b].entry = FALSE]
  /\ seen' = [seen EXCEPT !.published =
                 @ \cup {[of |-> b, content |-> staging[b].content, sound |-> staging[b].sound]}]

\* The rename replaces nothing.
Rename(b) ==
  /\ At(b, "rename")
  /\ \/ Moved(b) /\ Goes(b, "cleanup")
     \/ /\ files[calls[b].target] # None
        /\ Goes(b, "exists")
        /\ UNCHANGED <<files, staging, seen>>
  /\ UNCHANGED <<live, left>>

\* It reports an error, or that the target exists, after it moved the file,
\* after it lost it, or before either.
RenameFails(b) ==
  /\ At(b, "rename")
  /\ \E error \in {"error", "exists"} : Goes(b, error)
  /\ \/ Moved(b)
     \/ /\ staging' = [staging EXCEPT ![b].entry = FALSE]
        /\ UNCHANGED <<files, seen>>
     \/ UNCHANGED <<files, staging, seen>>
  /\ Spend("faults")
  /\ UNCHANGED live

\* What stands at the source and at the target.
SourceState(b) == IF staging[b].entry THEN "Owned" ELSE "Missing"
TargetState(b) ==
  LET there == files[calls[b].target]
  IN IF there = None THEN "Missing" ELSE IF there = b THEN "Owned" ELSE "Other"

\* Mutant: what the rename reported is believed.
PublicationBelieved(source, target) == "NotCommitted"

\* reconcile_failed_publication
Publication(source, target) ==
  IF source = "Missing" /\ target = "Owned" THEN "Committed"
  ELSE IF source = "Owned" /\ target \in {"Missing", "Other"} THEN "NotCommitted"
  ELSE "Uncertain"

Reconcile(b) ==
  /\ At(b, "exists") \/ At(b, "error")
  /\ LET is == Publication(SourceState(b), TargetState(b))
     IN IF is = "Committed" THEN Goes(b, "cleanup") /\ UNCHANGED staging
        ELSE Answers(b, IF is = "Uncertain" THEN "uncertain"
                        ELSE IF At(b, "exists") THEN "refused" ELSE "failed")
  /\ UNCHANGED <<live, files, seen, left>>

\* An entry that cannot be read again leaves the publication uncertain.
ReconcileFails(b) ==
  /\ At(b, "exists") \/ At(b, "error")
  /\ Answers(b, "uncertain")
  /\ Spend("faults")
  /\ UNCHANGED <<live, files, seen>>

Cleanup(b) ==
  /\ At(b, "cleanup")
  /\ Answers(b, "published")
  /\ UNCHANGED <<live, files, seen, left>>

-----------------------------------------------------------------------------
(* The rest of the daemon and other programs. *)

Write ==
  /\ live' = live + 1
  /\ Spend("writes")
  /\ UNCHANGED <<files, staging, calls, seen>>

Appear(n) ==
  /\ files[n] = None
  /\ files' = [files EXCEPT ![n] = "foreign"]
  /\ seen' = [seen EXCEPT !.foreign = @ \cup {n}]
  /\ Spend("others")
  /\ UNCHANGED <<live, staging, calls>>

Vanish(n) ==
  /\ files[n] # None
  /\ files' = [files EXCEPT ![n] = None]
  /\ seen' = [seen EXCEPT !.foreign = @ \ {n}]
  /\ Spend("others")
  /\ UNCHANGED <<live, staging, calls>>

\* The process stops: staged files stay.
Stop ==
  /\ calls' = [b \in Backups |->
       IF At(b, "idle") \/ At(b, "done") THEN calls[b]
       ELSE [calls[b] EXCEPT !.at = "lost"]]
  /\ calls' # calls
  /\ Spend("stops")
  /\ UNCHANGED <<live, files, staging, seen>>

Step(b) ==
  \/ Create(b) \/ Copy(b) \/ Verify(b) \/ Fails(b) \/ Check(b) \/ Rename(b)
  \/ RenameFails(b) \/ Reconcile(b) \/ ReconcileFails(b) \/ Cleanup(b)

Next ==
  \/ \E b \in Backups : Step(b) \/ \E n \in Targets : Ask(b, n)
  \/ Write
  \/ \E n \in Targets : Appear(n) \/ Vanish(n)
  \/ Stop

Spec == Init /\ [][Next]_vars

-----------------------------------------------------------------------------
\* A backup reported as published was visible at its target; one reported
\* as refused or failed never was, so that retrying it cannot meet its own
\* file. What is visible was verified, and is the database as it was at one
\* moment after the backup was asked for. No file of another program is
\* replaced or removed. Only a stop leaves staged files behind.
BackupsSound ==
  /\ \A b \in Backups :
       /\ calls[b].answer = "published" => \E s \in seen.published : s.of = b
       /\ calls[b].answer \in {"refused", "failed"} => \A s \in seen.published : s.of # b
       /\ calls[b].at = "done" => ~staging[b].is
  /\ \A s \in seen.published : s.sound /\ s.content \in calls[s.of].since..live
  /\ \A n \in seen.foreign : files[n] = "foreign"
=============================================================================
