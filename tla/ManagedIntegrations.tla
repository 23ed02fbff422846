------------------------- MODULE ManagedIntegrations ------------------------
(***************************************************************************)
(* The managed integration: a signed release is staged in a private        *)
(* directory, the intent is committed to the lifecycle journal, the stage  *)
(* is renamed to the directory of its revision, and the publication is     *)
(* acknowledged.  The daemon may stop between any two of these steps; at   *)
(* its next start it completes what was committed before it serves.        *)
(***************************************************************************)
EXTENDS ManagedStore

CONSTANTS Handlers,
          Bundles,        \* release roots the daemon can be started with
          Scenarios

VARIABLES tables,    \* the encrypted database
          disk,      \* the published and staged directories
          daemon,    \* where the daemon is in its life
          requests,  \* Handlers -> what each request has done so far
          now, left

vars == <<tables, disk, daemon, requests, now, left>>

Revisions == 1..(Cardinality(Keys) + 1)
Required == {"manifest", "required"}

Idle == [at |-> "Idle"]
Down == [at |-> "Down"]

EmptyDisk == [targets |-> [r \in Revisions |-> None],
              stages |-> [s \in Revisions \X Keys |-> None]]

-----------------------------------------------------------------------------
(* Releases and snapshots of them.  A bundle on disk: the release its      *)
(* manifest names, the files there, and what its catalog and manifest say. *)

\* verify_signed_bundle: the manifest is well formed and signed by a trusted
\* key, and the files it requires are there.
VerifySigned(bundle) ==
  IF bundle.manifest # "signed" \/ ~(Required \subseteq bundle.files)
    THEN Error("Unauthorized")
  ELSE [release |-> bundle.release, files |-> Required]

\* inventory_bundle_files: everything below the root.
Inventory(bundle) == bundle.files

\* verify_catalog_bound_bundle: the catalog names this manifest and lists
\* exactly the files there.
VerifyCatalogBound(bundle) ==
  LET verified == VerifySigned(bundle)
  IN IF IsError(verified) THEN verified
     ELSE IF bundle.listed # Inventory(bundle) THEN Error("Unauthorized")
     ELSE [verified EXCEPT !.files = Inventory(bundle)]

Snapshot(release, files) == [release |-> release, manifest |-> "signed", files |-> files]

\* verify_published_snapshot: what the intent lists is there.
Holds(snapshot, verified) ==
  /\ snapshot.files # {}
  /\ snapshot.release = verified.release
  /\ verified.files \subseteq snapshot.files

\* find_published_bundle: a published directory with this digest, verified by
\* its manifest alone.
FindPublished(d, release) ==
  LET found == {r \in Revisions : d.targets[r] # None /\ d.targets[r].release = release}
  IN IF found = {} THEN Error("Unavailable") ELSE VerifySigned(d.targets[Min(found)])

-----------------------------------------------------------------------------
(* Staging and publishing a directory, for requests and recovery alike:    *)
(* job = [key, revision, verified].                                        *)

Stage(job) == <<job.revision, job.key>>

\* prepare_bundle_snapshot up to the new directory: what was published or
\* staged before is taken if it is what is wanted.
Prepare(d, job) ==
  LET target == d.targets[job.revision]
      stage == d.stages[Stage(job)]
  IN IF target # None
       THEN [disk |-> d, then |-> IF Holds(target, job.verified) THEN "Prepared" ELSE "Failed"]
     ELSE IF stage # None
       THEN [disk |-> d, then |-> IF Holds(stage, job.verified) THEN "Prepared" ELSE "Failed"]
     ELSE [disk |-> [d EXCEPT !.stages[Stage(job)] = Snapshot(job.verified.release, {})],
           then |-> "Copy"]

\* The files are copied and synced.
Copied(d, job) ==
  [d EXCEPT !.stages[Stage(job)] = Snapshot(job.verified.release, job.verified.files)]


\* publish_prepared_bundle: a rename that replaces nothing.
Publish(d, job) ==
  LET target == d.targets[job.revision]
      stage == d.stages[Stage(job)]
  IN IF target # None
       THEN [disk |-> d, then |-> IF Holds(target, job.verified) THEN "Published" ELSE "Failed"]
     ELSE IF stage = None THEN [disk |-> d, then |-> "Failed"]
     ELSE [disk |-> [d EXCEPT !.targets[job.revision] = stage, !.stages[Stage(job)] = None],
           then |-> IF Holds(stage, job.verified) THEN "Published" ELSE "Failed"]

-----------------------------------------------------------------------------
(* apply_durable. *)

Move(h, request) == requests' = [requests EXCEPT ![h] = request]
Fail(h) == Move(h, Idle)

\* The update is compared with the published release, a rollback takes the
\* release it replaces from the published directories.
Planned(c) ==
  LET published == GetPublished(tables)
      current == GetLifecycle(tables)
  IN CASE c.mutation = "Install" -> daemon.verified
       [] c.mutation = "Update" ->
            IF published = None \/ published.installed = None THEN Error("Conflict")
            ELSE IF daemon.verified.release <= published.installed THEN Error("Conflict")
            ELSE daemon.verified
       [] c.mutation = "Rollback" ->
            IF current = None \/ current.rollback = None THEN Error("Conflict")
            ELSE FindPublished(disk, current.rollback)

Ask(h, mutation, key, expected) ==
  /\ daemon.at = "Serving" /\ requests[h].at = "Idle" /\ left.asks > 0
  /\ left' = [left EXCEPT !.asks = @ - 1]
  /\ LET c == [mutation |-> mutation, key |-> key, expected |-> expected,
               print |-> <<mutation, expected>>, observed |-> now,
               candidate |-> daemon.verified.release]
         verified == Planned(c)
     IN IF IsError(verified) THEN Fail(h)
        ELSE Move(h, [at |-> "Prepare", command |-> c,
                      job |-> [key |-> key, revision |-> expected + 1,
                               verified |-> verified]])
  /\ UNCHANGED <<tables, disk, daemon, now>>

PrepareStage(h) ==
  /\ requests[h].at = "Prepare"
  /\ LET prepared == Prepare(disk, requests[h].job)
     IN /\ disk' = prepared.disk
        /\ IF prepared.then = "Failed" THEN Fail(h)
           ELSE Move(h, [requests[h] EXCEPT !.at = prepared.then])
  /\ UNCHANGED <<tables, daemon, now, left>>

CopyFiles(h) ==
  /\ requests[h].at = "Copy"
  /\ disk' = Copied(disk, requests[h].job)
  /\ Move(h, [requests[h] EXCEPT !.at = "Prepared"])
  /\ UNCHANGED <<tables, daemon, now, left>>

\* The intent; afterwards it is compared with what was staged.
CommitIntent(h) ==
  /\ requests[h].at = "Prepared"
  /\ LET job == requests[h].job
     IN \E call \in {Apply(tables, requests[h].command)} :
          /\ tables' = call.tables
          /\ IF IsError(call.answer) THEN Fail(h)
             ELSE IF \/ call.answer.revision # job.revision
                     \/ call.answer.installed # job.verified.release THEN Fail(h)
             ELSE Move(h, [requests[h] EXCEPT !.at = "Committed"])
  /\ UNCHANGED <<disk, daemon, now, left>>

PublishStage(h) ==
  /\ requests[h].at = "Committed"
  /\ LET published == Publish(disk, requests[h].job)
     IN /\ disk' = published.disk
        /\ IF published.then = "Failed" THEN Fail(h)
           ELSE Move(h, [requests[h] EXCEPT !.at = "Published"])
  /\ UNCHANGED <<tables, daemon, now, left>>

AcknowledgeIntent(h) ==
  /\ requests[h].at = "Published"
  /\ tables' = Acknowledge(tables, requests[h].job.key, requests[h].job.revision,
                           requests[h].command.observed).tables
  /\ Move(h, Idle)
  /\ UNCHANGED <<disk, daemon, now, left>>

-----------------------------------------------------------------------------
(* configured_managed_integrations: register the bundle, then recover.     *)

Start(bundle) ==
  /\ daemon.at = "Down"
  /\ \/ bundle = left.bundle /\ UNCHANGED left
     \/ /\ bundle # left.bundle /\ left.replacements > 0
        /\ left' = [left EXCEPT !.replacements = @ - 1, !.bundle = bundle]
  /\ LET verified == VerifyCatalogBound(Bundles[bundle])
     IN daemon' = IF IsError(verified) THEN Down
                  ELSE [at |-> "Recovering", verified |-> verified]
  /\ UNCHANGED <<tables, disk, requests, now>>

\* The pending publication as recovery would complete it.  The intent's
\* revision is that of the lifecycle: nothing is committed while it is pending.
RecoveryJob(entry) ==
  LET current == GetLifecycle(tables)
      verified == IF entry.mutation = "Rollback"
                    THEN FindPublished(disk, current.installed) ELSE daemon.verified
  IN IF daemon.verified.release # entry.candidate THEN Error("Unauthorized")
     ELSE IF current.revision # entry.revision THEN Error("Conflict")
     ELSE IF IsError(verified) THEN verified
     ELSE [key |-> entry.key, revision |-> entry.revision, verified |-> verified]

Recover ==
  /\ daemon.at = "Recovering"
  /\ LET pending == PendingPublications(tables)
     IN IF pending = {}
          THEN daemon' = [daemon EXCEPT !.at = "Serving"] /\ UNCHANGED disk
        ELSE LET job == RecoveryJob(CHOOSE entry \in pending : TRUE)
                 prepared == Prepare(disk, job)
             IN IF IsError(job) THEN daemon' = Down /\ UNCHANGED disk
                ELSE /\ disk' = prepared.disk
                     /\ daemon' = IF prepared.then = "Failed" THEN Down
                                  ELSE [at |-> prepared.then, job |-> job,
                                        verified |-> daemon.verified]
  /\ UNCHANGED <<tables, requests, now, left>>

RecoverCopy ==
  /\ daemon.at = "Copy"
  /\ disk' = Copied(disk, daemon.job)
  /\ daemon' = [daemon EXCEPT !.at = "Prepared"]
  /\ UNCHANGED <<tables, requests, now, left>>

RecoverPublish ==
  /\ daemon.at = "Prepared"
  /\ LET published == Publish(disk, daemon.job)
     IN /\ disk' = published.disk
        /\ daemon' = IF published.then = "Failed" THEN Down
                     ELSE [daemon EXCEPT !.at = "Published"]
  /\ UNCHANGED <<tables, requests, now, left>>

RecoverAcknowledge ==
  /\ daemon.at = "Published"
  /\ LET acknowledged == Acknowledge(tables, daemon.job.key, daemon.job.revision, now)
     IN /\ tables' = acknowledged.tables
        /\ daemon' = IF IsError(acknowledged.answer) THEN Down
                     ELSE [at |-> "Recovering", verified |-> daemon.verified]
  /\ UNCHANGED <<disk, requests, now, left>>

-----------------------------------------------------------------------------
Stops ==
  /\ daemon.at # "Down" /\ left.stops > 0
  /\ left' = [left EXCEPT !.stops = @ - 1]
  /\ daemon' = Down
  /\ requests' = [h \in Handlers |-> Idle]
  /\ UNCHANGED <<tables, now>>

Stop == Stops /\ UNCHANGED disk

\* The power fails.  A stage and its files are synced, but not the directory
\* that names the stage.
PowerFails == Stops /\ disk' = [disk EXCEPT !.stages = EmptyDisk.stages]

\* The wall clock; it may be set back.
Tick ==
  /\ now < left.clock
  /\ now' = now + 1
  /\ UNCHANGED <<tables, disk, daemon, requests, left>>

SetBack ==
  /\ left.setbacks > 0 /\ now > 1
  /\ left' = [left EXCEPT !.setbacks = @ - 1]
  /\ now' = now - 1
  /\ UNCHANGED <<tables, disk, daemon, requests>>

Init ==
  \E s \in Scenarios :
    /\ tables = EmptyTables /\ disk = EmptyDisk /\ daemon = Down
    /\ requests = [h \in Handlers |-> Idle]
    /\ now = 1 /\ left = s

Recovery == Recover \/ RecoverCopy \/ RecoverPublish \/ RecoverAcknowledge

Next ==
  \/ \E bundle \in DOMAIN Bundles : Start(bundle)
  \/ Recovery
  \/ \E h \in Handlers :
       \/ \E mutation \in {"Install", "Update", "Rollback"}, key \in Keys :
            \E expected \in 0..RevisionOf(tables.lifecycle) :
              Ask(h, mutation, key, expected)
       \/ PrepareStage(h) \/ CopyFiles(h) \/ CommitIntent(h)
       \/ PublishStage(h) \/ AcknowledgeIntent(h)
  \/ Stop \/ PowerFails \/ Tick \/ SetBack

\* The daemon is started again with the bundle it had, and runs; clocks go on.
Fairness ==
  /\ WF_vars(Start(left.bundle)) /\ WF_vars(Recovery) /\ WF_vars(Tick)

Spec == Init /\ [][Next]_vars /\ Fairness

-----------------------------------------------------------------------------
(* Properties. *)

Complete(snapshot, release) ==
  snapshot # None /\ snapshot.release = release /\ Required \subseteq snapshot.files


\* The bundle the daemon is started with is whole and is the one that every
\* pending publication was committed for.
Recoverable ==
  /\ left.replacements = 0
  /\ ~IsError(VerifyCatalogBound(Bundles[left.bundle]))
  /\ \A k \in Pending(tables) : tables.journal[k].candidate = Bundles[left.bundle].release

Serving == daemon.at = "Serving"
Restartable == daemon.at = "Down" /\ Recoverable

\* Stopped while it copied again what a power failure had lost: nothing
\* removes or completes such a stage.
Torn ==
  /\ daemon.at = "Down"
  /\ \E k \in Pending(tables) : \E r \in {tables.journal[k].revision} :
       /\ disk.targets[r] = None /\ disk.stages[<<r, k>>] # None
       /\ ~Complete(disk.stages[<<r, k>>], tables.journal[k].outcome.installed)

\* A daemon that is started again with the bundle it had comes to serve,
\* unless a stage was torn.
IntentsCompleted == Restartable ~> (Serving \/ Torn)
=============================================================================
