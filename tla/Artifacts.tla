----------------------------- MODULE Artifacts -----------------------------
(***************************************************************************)
(* Importing, opening and removing files: ArtifactService, the daemon's    *)
(* request handlers and removal recovery loop, and the startup recovery,   *)
(* over the artifact journal and the private file store.                   *)
(*                                                                         *)
(* Every await between two store or file operations is a step boundary.    *)
(* A crash may happen at any of them; it loses every task and worker, and  *)
(* the files come back as they were seen or as they were last synced.      *)
(***************************************************************************)
EXTENDS ArtifactJournal

-----------------------------------------------------------------------------
(* The private file store behind artifacts (the Linux content adapter).    *)
(*                                                                         *)
(* An artifact's bytes live under three names: the temporary copy and the  *)
(* prepared file of the staging directory, and the immutable object.  What *)
(* processes see and what the last directory sync made durable are kept    *)
(* apart: a power loss may bring back either.                              *)
(*                                                                         *)
(* Copies, publications and purges run on blocking workers that outlive    *)
(* the task awaiting them.  The worker owns the artifact's gate until it   *)
(* returns, so at most one runs per artifact.  Dropping the awaiting task  *)
(* cancels the worker only while it is COPYING; the compare-and-swap to    *)
(* FINALIZING is the point after which it finishes whatever it started.    *)

CONSTANT Damaged    \* bytes that no longer have their digest

VARIABLES disk,     \* artifact -> the names it has, as seen and as kept
          worker    \* artifact -> its blocking worker

contentVars == <<disk, worker>>

Bytes == Sizes \cup {Damaged, None}
Names == [copy : Bytes, staged : Bytes, object : Bytes]
NoNames == [copy |-> None, staged |-> None, object |-> None]

Idle == [op |-> "none", at |-> "none", live |-> FALSE, content |-> None,
         result |-> "none"]

Results == {"none", "ok", "SourceChanged", "FileTooLarge", "IntegrityFailure",
            "DeadlineExceeded", "ContentStoreUnavailable"}

Workers == [op : {"none", "prepare", "publish", "purge"},
            at : {"none", "copying", "copied", "finalizing", "done"},
            live : BOOLEAN,
            content : Sizes \cup {None},
            result : Results]

\* The mutations of one artifact's names, and a sync of its directories.
Write(a, names) == disk' = [disk EXCEPT ![a].seen = names]
WriteAndSync(a, names) == disk' = [disk EXCEPT ![a] = [seen |-> names,
                                                       kept |-> names]]
SyncStaging(a, names) ==
  disk' = [disk EXCEPT ![a].seen = names,
                       ![a].kept = [names EXCEPT !.object = disk[a].kept.object]]
SyncObject(a) == disk' = [disk EXCEPT ![a].kept.object = disk[a].seen.object]
Seen(a) == disk[a].seen

\* lock_owned on the artifact's gate, then spawn_blocking.
StartWorker(a, op, content) ==
  /\ worker[a] = Idle
  /\ worker' = [worker EXCEPT ![a] = [op |-> op, at |-> "copying",
                                      live |-> TRUE, content |-> content,
                                      result |-> "none"]]

\* The blocking closure returns and the gate opens.  A result nobody awaits is
\* dropped.
Return(a, result) ==
  worker' = [worker EXCEPT ![a] = IF @.live
                                    THEN [@ EXCEPT !.at = "done",
                                                   !.result = result]
                                    ELSE Idle]

Advance(a, at) == worker' = [worker EXCEPT ![a].at = at]

Running(a, op, at) == worker[a].op = op /\ worker[a].at = at

\* The awaiting task is dropped: PrepareCancellationGuard.  COPYING becomes
\* CANCELLED (live is cleared and the next checkpoint fails); a FINALIZING
\* worker goes on without an audience.
Abandon(a) == worker' = [worker EXCEPT ![a].live = FALSE]

\* check_prepare_copying of an abandoned worker, with its RAII cleanup.
Cancelled(a) ==
  /\ worker[a].at \in {"copying", "copied"} /\ ~worker[a].live
  /\ IF worker[a].op = "prepare"
       THEN Write(a, [Seen(a) EXCEPT !.copy = None])
       ELSE UNCHANGED disk
  /\ Return(a, "DeadlineExceeded")

-----------------------------------------------------------------------------
(* prepare_blocking *)

\* Open the selected source and copy it below a temporary name.
PrepareCopy(a) ==
  /\ Running(a, "prepare", "copying") /\ worker[a].live
  /\ \E size \in Sizes :
       IF size > MaxFile
         THEN Return(a, "FileTooLarge") /\ UNCHANGED disk
         ELSE /\ Write(a, [Seen(a) EXCEPT !.copy = size])
              /\ worker' = [worker EXCEPT ![a].at = "copied",
                                          ![a].content = size]

\* The copy fails, or the source is found changed after it; the guard removes
\* the temporary name.
PrepareFails(a) ==
  /\ Running(a, "prepare", "copied") /\ worker[a].live
  /\ Write(a, [Seen(a) EXCEPT !.copy = None])
  /\ \E why \in {"SourceChanged", "DeadlineExceeded"} : Return(a, why)

\* FINALIZING: rename the copy to the prepared name unless that exists.
PrepareRename(a) ==
  /\ Running(a, "prepare", "copied") /\ worker[a].live
  /\ LET kept == Seen(a).staged
         names == [Seen(a) EXCEPT !.copy = None, !.staged = worker[a].content]
     IN IF kept \in {None, worker[a].content}
          THEN Write(a, names) /\ Advance(a, "finalizing")
          ELSE /\ Write(a, [Seen(a) EXCEPT !.copy = None])
               /\ Return(a, "IntegrityFailure")

PrepareSync(a) ==
  /\ Running(a, "prepare", "finalizing")
  /\ SyncStaging(a, Seen(a))
  /\ Return(a, "ok")

\* The sync fails: the prepared file is removed again.
PrepareSyncFails(a) ==
  /\ Running(a, "prepare", "finalizing")
  /\ Write(a, [Seen(a) EXCEPT !.staged = None])
  /\ Return(a, "ContentStoreUnavailable")

-----------------------------------------------------------------------------
(* publish_blocking *)

Intact(a) == worker[a].content

\* The prepared file is missing or damaged: a prior publication is accepted
\* once its object is intact and every directory is synced.
PublishReplay(a) ==
  /\ Running(a, "publish", "copying") /\ worker[a].live
  /\ Seen(a).staged # Intact(a)
  /\ IF Seen(a).object = Intact(a)
       THEN /\ WriteAndSync(a, [Seen(a) EXCEPT !.staged = None])
            /\ Return(a, "ok")
       ELSE /\ Return(a, IF Seen(a).object = None /\ Seen(a).staged = None
                           THEN "ContentStoreUnavailable"
                           ELSE "IntegrityFailure")
            /\ UNCHANGED disk

\* FINALIZING: rename the prepared file into the object's shard.
PublishRename(a) ==
  /\ Running(a, "publish", "copying") /\ worker[a].live
  /\ Seen(a).staged = Intact(a)
  /\ IF Seen(a).object = Damaged
       THEN Return(a, "IntegrityFailure") /\ UNCHANGED disk
       ELSE /\ Write(a, [Seen(a) EXCEPT !.staged = None, !.object = Intact(a)])
            /\ Advance(a, "finalizing")

\* Mutant: visibility is taken for durability.
PublishUnsynced(a) ==
  /\ Running(a, "publish", "finalizing")
  /\ Return(a, "ok") /\ UNCHANGED disk

PublishSync(a) ==
  /\ Running(a, "publish", "finalizing")
  /\ WriteAndSync(a, Seen(a))
  /\ Return(a, "ok")

\* PublicationUncertain, or a deadline found passed after the sync.
PublishUncertain(a) ==
  /\ Running(a, "publish", "finalizing")
  /\ \/ UNCHANGED disk /\ Return(a, "ContentStoreUnavailable")
     \/ WriteAndSync(a, Seen(a)) /\ Return(a, "DeadlineExceeded")

-----------------------------------------------------------------------------
(* purge_blocking *)

\* Absence is reported only once it is durable.
PurgeAbsent(a) ==
  /\ Running(a, "purge", "copying") /\ worker[a].live
  /\ Seen(a).object = None
  /\ SyncObject(a)
  /\ Return(a, "ok")

\* FINALIZING: unlink.  Ownership is checked, the digest is not.
PurgeUnlink(a) ==
  /\ Running(a, "purge", "copying") /\ worker[a].live
  /\ Seen(a).object # None
  /\ Write(a, [Seen(a) EXCEPT !.object = None])
  /\ Advance(a, "finalizing")

PurgeSync(a) ==
  /\ Running(a, "purge", "finalizing")
  /\ SyncObject(a)
  /\ Return(a, "ok")

\* The sync fails, or the deadline is found passed after it.
PurgeUncertain(a) ==
  /\ Running(a, "purge", "finalizing")
  /\ \/ UNCHANGED disk /\ Return(a, "ContentStoreUnavailable")
     \/ SyncObject(a) /\ Return(a, "DeadlineExceeded")

-----------------------------------------------------------------------------
(* Calls without a worker of their own. *)

\* discard_version runs under the gate: both staging names, then the sync.
Discard(a) ==
  /\ worker[a] = Idle
  /\ SyncStaging(a, [Seen(a) EXCEPT !.copy = None, !.staged = None])
  /\ UNCHANGED worker

\* The sync after the unlink failed.
DiscardUnsynced(a) ==
  /\ worker[a] = Idle
  /\ Write(a, [Seen(a) EXCEPT !.copy = None, !.staged = None])
  /\ UNCHANGED worker

\* status_blocking takes no gate.
Status(a, content) ==
  IF Seen(a).object = content THEN "Published"
  ELSE IF Seen(a).object # None THEN "IntegrityFailure"
  ELSE IF Seen(a).staged = content THEN "Prepared"
  ELSE IF Seen(a).staged # None THEN "IntegrityFailure"
  ELSE "Missing"

\* A worker step that completes normally, and one that goes wrong.
WorkerStep(a) ==
  \/ Cancelled(a)
  \/ PrepareCopy(a) \/ PrepareRename(a) \/ PrepareSync(a)
  \/ PublishReplay(a) \/ PublishRename(a) \/ PublishSync(a)
  \/ PurgeAbsent(a) \/ PurgeUnlink(a) \/ PurgeSync(a)

WorkerFault(a) ==
  PrepareFails(a) \/ PrepareSyncFails(a) \/ PublishUncertain(a)
  \/ PurgeUncertain(a)

\* A power loss: the names are those seen, or those last made durable; the
\* workers are gone.
LosePower ==
  /\ \E lost \in SUBSET Imports :
       disk' = [a \in Imports |->
                  [disk[a] EXCEPT !.seen = IF a \in lost THEN disk[a].kept ELSE @,
                                  !.kept = IF a \in lost THEN @ ELSE disk[a].seen]]
  /\ worker' = [a \in Imports |-> Idle]

\* Mutant: temporary copies survive the opening of the store.
OpenKeepingCopies == UNCHANGED disk

\* LinuxArtifactContentStore::open purges abandoned copies and keeps prepared
\* files for recovery.
OpenContent ==
  disk' = [a \in Imports |-> [seen |-> [disk[a].seen EXCEPT !.copy = None],
                              kept |-> [disk[a].kept EXCEPT !.copy = None]]]

\* The environment damages stored bytes.
Damage(a) ==
  /\ \/ /\ Seen(a).object \in Sizes
        /\ WriteAndSync(a, [Seen(a) EXCEPT !.object = Damaged])
     \/ /\ Seen(a).staged \in Sizes
        /\ WriteAndSync(a, [Seen(a) EXCEPT !.staged = Damaged])
  /\ UNCHANGED worker

-----------------------------------------------------------------------------
(* The service and the daemon. *)

CONSTANTS OpenTarget,      \* Opens -> the artifact each open asks for
          RemovalTarget,   \* Removals -> the artifact each removal asks for
          Scenarios        \* what the environment may do, see ScenarioRecords

VARIABLES db,        \* the durable tables
          asking,    \* command -> requests past the checks, not yet reserved
          jobs,      \* artifact -> the import or recovery task working on it
          openers,   \* open command -> its task
          removers,  \* removal command -> its direct task
          purger,    \* the holder of removal_execution and its progress
          loop,      \* the background removal recovery
          daemon,    \* startup phase, and whether artifact content is usable
          sent,      \* open command -> how often the portal was called
          reads,     \* artifact -> how often its selected source was opened
          spent      \* the environment's budget and what is used of it

vars == <<disk, worker, db, asking, jobs, openers, removers, purger, loop, daemon,
          sent, reads, spent>>

ScenarioRecords ==
  [crashes : Nat, faults : Nat, damage : Nat, closures : Nat, asking : Nat,
   imports : SUBSET Imports, opens : SUBSET Opens, removals : SUBSET Removals,
   stored : SUBSET Imports]

JobPcs == {"idle", "prepare", "preparing", "ready", "publish",
           "publishing", "commit", "discard", "cleanup", "verify", "fail",
           "status"}
NoJob == [pc |-> "idle", boot |-> FALSE, revision |-> 0, content |-> None,
          failure |-> None]

PurgePcs == {"free", "list", "purge", "purging", "mark", "commit"}
Free == [pc |-> "free", by |-> "nobody", artifact |-> None, revision |-> 0]

\* The columns of the tables that matter; TypeOK bounds the revisions.
ArtifactRows == [state : {"Unavailable", "Available", "Deleted"}, revision : Nat]
ImportRows == [print : Prints, state : ImportStates, revision : Nat,
               content : Sizes \cup {None}, failure : Failures \cup Results \cup {None}]
RetentionRows == [state : RetentionStates, revision : Nat]
OpenRows == [artifact : Imports, state : OpenStates, revision : Nat,
             failure : {"IntegrityFailure", "InterruptedBeforeDispatch", None}]
RemovalRows == [artifact : Imports, state : {"Pending", "Committed"}, revision : Nat]

ASSUME ArtifactsAssumption ==
  /\ OpenTarget \in [Opens -> Imports] /\ RemovalTarget \in [Removals -> Imports]
  /\ Sizes \subseteq Nat /\ 1 \in Sizes /\ Prints # {}
  /\ None \notin Sizes /\ Damaged \notin Sizes /\ Damaged # None
  /\ None \notin ArtifactRows /\ None \notin ImportRows /\ None \notin RetentionRows
  /\ None \notin OpenRows /\ None \notin RemovalRows
  /\ \A by \in {"nobody", "loop", "boot"} : by \notin Removals

StoredTables(A, size) ==
  [EmptyTables EXCEPT
     !.artifacts = [a \in Imports |-> IF a \in A
                      THEN [state |-> "Available", revision |-> 1] ELSE None],
     !.imports = [a \in Imports |-> IF a \in A
                      THEN [print |-> CHOOSE p \in Prints : TRUE,
                            state |-> "Committed", revision |-> 2,
                            content |-> size, failure |-> None] ELSE None],
     !.versions = [a \in Imports |-> IF a \in A THEN size ELSE None],
     !.retention = [a \in Imports |-> IF a \in A
                      THEN [state |-> "Retained", revision |-> 0] ELSE None]]

Init ==
  /\ \E s \in Scenarios :
       /\ spent = [limit |-> s, crashes |-> 0, faults |-> 0, damage |-> 0]
       /\ db = StoredTables(s.stored, 1)
       /\ disk = [a \in Imports |->
                    LET names == IF a \in s.stored
                                   THEN [NoNames EXCEPT !.object = 1]
                                   ELSE NoNames
                    IN [seen |-> names, kept |-> names]]
  /\ worker = [a \in Imports |-> Idle]
  /\ asking = [c \in Imports \cup Opens |-> 0]
  /\ jobs = [a \in Imports |-> NoJob]
  /\ openers = [o \in Opens |-> "idle"]
  /\ removers = [x \in Removals |-> "idle"]
  /\ purger = Free
  /\ loop = [pc |-> "off", wake |-> FALSE]
  /\ daemon = [phase |-> "down", ready |-> FALSE]
  /\ sent = [o \in Opens |-> 0]
  /\ reads = [a \in Imports |-> 0]

\* One more fault of the environment: a deadline, an I/O or a store error.
Fault ==
  /\ spent.faults < spent.limit.faults
  /\ spent' = [spent EXCEPT !.faults = @ + 1]

Serving == daemon.phase = "serving"

\* Counted up to two, which is one too many already.
Once(n) == IF n < 2 THEN n + 1 ELSE n

-----------------------------------------------------------------------------
(* Imports. *)

MoveJob(a, pc) == jobs' = [jobs EXCEPT ![a].pc = pc]

\* What a store transaction leaves, when it answers without an error.
Store(result) == ~IsError(result.answer) /\ db' = result.tables

\* A task ends with its answer.  Startup goes on after a success, continues
\* without artifact content when the content or the database is unavailable,
\* and stops at any other error.
EndJob(a, outcome) ==
  /\ jobs' = [jobs EXCEPT ![a] = NoJob]
  /\ daemon' = IF ~jobs[a].boot \/ outcome = "ok" THEN daemon
               ELSE IF outcome = "content" THEN [daemon EXCEPT !.ready = FALSE]
               ELSE [daemon EXCEPT !.phase = "down"]

\* A request for an unknown import passes the project, thread and count
\* checks.  A known one is answered from its journal row.
ImportReceive(a) ==
  /\ Serving /\ daemon.ready /\ a \in spent.limit.imports
  /\ asking[a] < spent.limit.asking
  /\ db.imports[a] = None
  /\ OwnerActive(db, a)
  /\ QuotaUsage(db, ProjectOf[a]).count < MaxCount
  /\ asking' = [asking EXCEPT ![a] = @ + 1]
  /\ UNCHANGED <<disk, worker, db, jobs, openers, removers, purger, loop, daemon,
                 sent, reads, spent>>

\* Of two requests with one key that both found it unknown, one reserves it;
\* the other is answered from the row.
ImportReserve(a) ==
  /\ asking[a] > 0
  /\ asking' = [asking EXCEPT ![a] = @ - 1]
  /\ \E print \in Prints :
       LET r == ReserveImport(db, a, print)
       IN /\ db' = r.tables
          /\ IF IsError(r.answer) \/ r.answer.replay THEN UNCHANGED jobs
             ELSE MoveJob(a, "prepare")
  /\ UNCHANGED <<disk, worker, openers, removers, purger, loop, daemon, sent, reads, spent>>

ImportPrepare(a) ==
  /\ jobs[a].pc = "prepare"
  /\ StartWorker(a, "prepare", None)
  /\ reads' = [reads EXCEPT ![a] = Once(@)]
  /\ MoveJob(a, "preparing")
  /\ UNCHANGED <<asking, disk, db, openers, removers, purger, loop, daemon, sent, spent>>

\* A known failure of the copy is recorded after the staging names are gone.
ImportPrepared(a) ==
  /\ jobs[a].pc = "preparing" /\ worker[a].at = "done"
  /\ jobs' = [jobs EXCEPT
       ![a] = IF worker[a].result = "ok"
                THEN [@ EXCEPT !.pc = "ready", !.content = worker[a].content]
                ELSE [@ EXCEPT !.pc = "discard", !.failure = worker[a].result]]
  /\ worker' = [worker EXCEPT ![a] = Idle]
  /\ UNCHANGED <<asking, disk, db, openers, removers, purger, loop, daemon, sent, reads, spent>>

ImportReady(a) ==
  /\ jobs[a].pc = "ready"
  /\ LET r == MarkContentReady(db, a, jobs[a].revision, jobs[a].content)
     IN /\ db' = r.tables
        /\ IF IsError(r.answer) THEN EndJob(a, "store")
           ELSE /\ jobs' = [jobs EXCEPT
                     ![a] = IF "quota" \in DOMAIN r.answer
                              THEN [@ EXCEPT !.pc = "discard",
                                             !.content = None,
                                             !.failure = r.answer.quota]
                              ELSE [@ EXCEPT !.pc = "publish",
                                             !.revision = r.answer.revision]]
                /\ UNCHANGED daemon
  /\ UNCHANGED <<asking, disk, worker, openers, removers, purger, loop, sent, reads, spent>>

ImportPublish(a) ==
  /\ jobs[a].pc = "publish"
  /\ StartWorker(a, "publish", jobs[a].content)
  /\ MoveJob(a, "publishing")
  /\ UNCHANGED <<asking, disk, db, openers, removers, purger, loop, daemon, sent, reads, spent>>

\* An unavailable store or a deadline leaves the import to recovery; another
\* failure ends it once nothing is left of its bytes.
ImportPublished(a) ==
  /\ jobs[a].pc = "publishing" /\ worker[a].at = "done"
  /\ worker' = [worker EXCEPT ![a] = Idle]
  /\ IF worker[a].result = "ok"
       THEN MoveJob(a, "commit") /\ UNCHANGED daemon
     ELSE IF worker[a].result \in {"ContentStoreUnavailable", "DeadlineExceeded"}
       THEN EndJob(a, "content")
     ELSE /\ jobs' = [jobs EXCEPT ![a].pc = "cleanup",
                                  ![a].failure = worker[a].result]
          /\ UNCHANGED daemon
  /\ UNCHANGED <<asking, disk, db, openers, removers, purger, loop, sent, reads, spent>>

ImportCommit(a) ==
  /\ jobs[a].pc = "commit"
  /\ LET r == CommitImport(db, a, 0, jobs[a].revision, jobs[a].content)
     IN /\ db' = r.tables
        /\ EndJob(a, IF IsError(r.answer) THEN "store" ELSE "ok")
  /\ UNCHANGED <<asking, disk, worker, openers, removers, purger, loop, sent, reads, spent>>

\* discard_reserved_content and discard_prepared_content.
ImportDiscard(a) ==
  /\ jobs[a].pc \in {"discard", "cleanup"}
  /\ \/ /\ Discard(a)
        /\ MoveJob(a, IF jobs[a].pc = "discard" THEN "fail" ELSE "verify")
        /\ UNCHANGED <<daemon, spent>>
     \/ Fault /\ DiscardUnsynced(a) /\ EndJob(a, "content")
  /\ UNCHANGED <<asking, db, openers, removers, purger, loop, sent, reads>>

\* cleanup_content_ready_for_terminal: only absence releases the bytes.
ImportVerify(a) ==
  /\ jobs[a].pc = "verify"
  /\ IF Status(a, jobs[a].content) = "Missing"
       THEN MoveJob(a, "fail") /\ UNCHANGED daemon
       ELSE EndJob(a, "content")
  /\ UNCHANGED <<asking, disk, worker, db, openers, removers, purger, loop, sent, reads, spent>>

ImportFail(a) ==
  /\ jobs[a].pc = "fail"
  /\ LET r == FailImport(db, a, jobs[a].revision, jobs[a].failure)
     IN /\ db' = r.tables
        /\ EndJob(a, IF IsError(r.answer) THEN "store" ELSE "ok")
  /\ UNCHANGED <<asking, disk, worker, openers, removers, purger, loop, sent, reads, spent>>

\* recover_content_ready_import
RecoverContentReady(a) ==
  /\ jobs[a].pc = "status"
  /\ jobs' = [jobs EXCEPT
       ![a] = IF Status(a, jobs[a].content) \in {"Published", "Prepared"}
                THEN [@ EXCEPT !.pc = "publish"]
                ELSE [@ EXCEPT !.pc = "cleanup", !.failure = "IntegrityFailure"]]
  /\ UNCHANGED <<asking, disk, worker, db, openers, removers, purger, loop, daemon, sent, reads, spent>>

\* timeout_at drops the call the task awaits, whether it waits for the gate
\* or for its worker.  The journal row stays for recovery.
ImportTimeout(a) ==
  /\ \/ jobs[a].pc \in {"preparing", "publishing"} /\ worker[a].at # "done"
        /\ Abandon(a)
     \/ /\ \/ jobs[a].pc \in {"prepare", "publish", "cleanup", "verify", "status"}
           \/ jobs[a].pc = "discard" /\ ~jobs[a].boot
        /\ UNCHANGED worker
  /\ Fault
  /\ EndJob(a, "content")
  /\ UNCHANGED <<asking, disk, db, openers, removers, purger, loop, sent, reads>>

\* The store answers a transaction with an error: a busy database is
\* unavailable, as missing content is.
ImportStoreFails(a) ==
  /\ jobs[a].pc \in {"ready", "commit", "fail"}
  /\ Fault
  /\ \E outcome \in {"content", "store"} : EndJob(a, outcome)
  /\ UNCHANGED <<asking, disk, worker, db, openers, removers, purger, loop, sent, reads>>

ImportStep(a) ==
  \/ ImportReserve(a) \/ ImportPrepare(a) \/ ImportPrepared(a) \/ ImportReady(a)
  \/ ImportPublish(a) \/ ImportPublished(a) \/ ImportCommit(a)
  \/ ImportDiscard(a) \/ ImportVerify(a) \/ ImportFail(a)
  \/ RecoverContentReady(a)

-----------------------------------------------------------------------------
(* Opens. *)

MoveOpener(o, pc) == openers' = [openers EXCEPT ![o] = pc]

OpenReceive(o) ==
  LET a == OpenTarget[o]
  IN /\ Serving /\ daemon.ready /\ o \in spent.limit.opens
     /\ asking[o] < spent.limit.asking
     /\ db.versions[a] # None
     /\ db.opens[o] = None
     /\ db.artifacts[a].state = "Available"
     /\ asking' = [asking EXCEPT ![o] = @ + 1]
     /\ UNCHANGED <<disk, worker, db, jobs, openers, removers, purger, loop, daemon,
                    sent, reads, spent>>

OpenPrepare(o) ==
  /\ asking[o] > 0
  /\ asking' = [asking EXCEPT ![o] = @ - 1]
  /\ LET r == PrepareOpen(db, o, OpenTarget[o])
     IN /\ db' = r.tables
        /\ IF IsError(r.answer) \/ r.answer.replay THEN UNCHANGED openers
           ELSE MoveOpener(o, "dispatch")
  /\ UNCHANGED <<disk, worker, jobs, removers, purger, loop, daemon, sent, reads, spent>>

\* A transition of the open's row, then the next step of its task.
OpenMove(o, pc, revision, next, failure, then) ==
  /\ openers[o] = pc
  /\ LET r == TransitionOpen(db, OpenTarget[o], revision, next, failure)
     IN /\ db' = r.tables
        /\ MoveOpener(o, IF IsError(r.answer) THEN "idle" ELSE then)
  /\ UNCHANGED <<asking, disk, worker, jobs, removers, purger, loop, daemon, sent, reads, spent>>

OpenDispatch(o) == OpenMove(o, "dispatch", 0, "Dispatching", None, "call")

\* portal_open: the object is validated first; what fails before the send is
\* a known failure, what fails after it is not.
PortalOpen(o) ==
  LET a == OpenTarget[o]
  IN /\ openers[o] = "call"
     /\ IF Seen(a).object # db.versions[a]
          THEN MoveOpener(o, "fail") /\ UNCHANGED sent
          ELSE /\ sent' = [sent EXCEPT ![o] = Once(@)]
               /\ \E pc \in {"complete", "interrupt"} : MoveOpener(o, pc)
     /\ UNCHANGED <<asking, disk, worker, db, jobs, removers, purger, loop, daemon,
                    reads, spent>>

\* The whole call times out, before or after the send.
OpenTimeout(o) ==
  /\ openers[o] = "call"
  /\ Fault
  /\ \/ UNCHANGED sent
     \/ sent' = [sent EXCEPT ![o] = Once(@)]
  /\ MoveOpener(o, "interrupt")
  /\ UNCHANGED <<asking, disk, worker, db, jobs, removers, purger, loop, daemon, reads>>

OpenComplete(o) == OpenMove(o, "complete", 1, "Opened", None, "idle")
OpenFail(o) == OpenMove(o, "fail", 1, "Failed", "IntegrityFailure", "idle")
OpenInterrupt(o) ==
  OpenMove(o, "interrupt", 1, "InterruptedNeedsReview", None, "idle")

OpenStoreFails(o) ==
  /\ openers[o] \in {"dispatch", "complete", "fail", "interrupt"}
  /\ Fault
  /\ MoveOpener(o, "idle")
  /\ UNCHANGED <<asking, disk, worker, db, jobs, removers, purger, loop, daemon, sent, reads>>

OpenStep(o) ==
  OpenPrepare(o) \/ OpenDispatch(o) \/ PortalOpen(o) \/ OpenComplete(o)
  \/ OpenFail(o) \/ OpenInterrupt(o)

-----------------------------------------------------------------------------
(* Removals. *)

\* trigger_artifact_removal_recovery: remember the wake-up, start the loop
\* unless it runs.
Triggered == IF loop.pc = "off" THEN [pc |-> "scan", wake |-> TRUE]
             ELSE [loop EXCEPT !.wake = TRUE]

DirectSlotFree == \A x \in Removals : removers[x] = "idle"

RemoveReceive(x) ==
  LET plan == ResolveRemoval(db, x, RemovalTarget[x])
  IN /\ Serving /\ daemon.ready /\ x \in spent.limit.removals
     /\ db.versions[RemovalTarget[x]] # None
     /\ \/ IsError(plan) /\ plan.error = "Unknown"
           /\ removers' = IF DirectSlotFree
                            THEN [removers EXCEPT ![x] = "lock"] ELSE removers
        \/ ~IsError(plan) /\ plan.state = "Pending" /\ UNCHANGED removers
     /\ loop' = Triggered
     /\ UNCHANGED <<disk, worker, db, asking, jobs, openers, purger, daemon, sent,
                    reads, spent>>

\* The direct task takes removal_execution, resolves its command and checks
\* the artifact.
RemoveLock(x) ==
  LET a == RemovalTarget[x]
      plan == ResolveRemoval(db, x, a)
  IN /\ removers[x] = "lock" /\ purger = Free
     /\ IF \/ ~IsError(plan) /\ plan.state = "Pending"
           \/ /\ IsError(plan) /\ plan.error = "Unknown"
              /\ db.artifacts[a].state = "Available"
          THEN /\ purger' = [pc |-> IF IsError(plan) THEN "reserve" ELSE "list",
                             by |-> x, artifact |-> a, revision |-> 0]
               /\ removers' = [removers EXCEPT ![x] = "work"]
               /\ UNCHANGED loop
          ELSE /\ removers' = [removers EXCEPT ![x] = "idle"]
               /\ loop' = Triggered
               /\ UNCHANGED purger
     /\ UNCHANGED <<disk, worker, db, asking, jobs, openers, daemon, sent, reads, spent>>

\* Mutant: the recovery loop ends at the first error.
EndPurgeStopping(outcome) ==
  /\ purger' = Free
  /\ CASE purger.by = "loop" ->
            /\ loop' = [loop EXCEPT !.pc = IF outcome = "ok" THEN "scan" ELSE "off"]
            /\ UNCHANGED <<removers, daemon>>
       [] purger.by = "boot" ->
            /\ daemon' = IF outcome = "ok" THEN daemon
                         ELSE [daemon EXCEPT !.ready = FALSE]
            /\ UNCHANGED <<removers, loop>>
       [] OTHER ->
            /\ removers' = [removers EXCEPT ![purger.by] = "idle"]
            /\ loop' = Triggered
            /\ UNCHANGED daemon

\* The holder ends: a direct task frees its slot and triggers the loop, the
\* loop scans again after a success and sleeps after an error, startup goes on
\* or gives up artifact content.
EndPurge(outcome) ==
  /\ purger' = Free
  /\ CASE purger.by = "loop" ->
            /\ loop' = [loop EXCEPT !.pc = IF outcome = "ok" THEN "scan"
                                           ELSE "sleep"]
            /\ UNCHANGED <<removers, daemon>>
       [] purger.by = "boot" ->
            /\ daemon' = IF outcome = "ok" THEN daemon
                         ELSE IF outcome = "content"
                           THEN [daemon EXCEPT !.ready = FALSE]
                         ELSE [daemon EXCEPT !.phase = "down"]
            /\ UNCHANGED <<removers, loop>>
       [] OTHER ->
            /\ removers' = [removers EXCEPT ![purger.by] = "idle"]
            /\ loop' = Triggered
            /\ UNCHANGED daemon

MovePurger(pc) == purger' = [purger EXCEPT !.pc = pc]
              /\ UNCHANGED <<removers, loop, daemon>>

RemoveReserve ==
  /\ purger.pc = "reserve"
  /\ LET r == ReserveRemoval(db, purger.by, purger.artifact, 1)
     IN /\ db' = r.tables
        /\ IF IsError(r.answer) THEN EndPurge("store") ELSE MovePurger("list")
  /\ UNCHANGED <<asking, disk, worker, jobs, openers, sent, reads, spent>>

\* execute_pending_removal
PurgeList ==
  /\ purger.pc = "list"
  /\ LET pending == ListPendingRemovalVersions(db, purger.artifact)
     IN IF IsError(pending) THEN EndPurge("store")
        ELSE /\ purger' = IF pending.versions = {}
                            THEN [purger EXCEPT !.pc = "commit"]
                            ELSE [purger EXCEPT !.pc = "purge",
                                    !.revision = CHOOSE r \in pending.versions : TRUE]
             /\ UNCHANGED <<removers, loop, daemon>>
  /\ UNCHANGED <<disk, worker, db, asking, jobs, openers, sent, reads, spent>>

PurgeContent ==
  /\ purger.pc = "purge"
  /\ StartWorker(purger.artifact, "purge", None)
  /\ MovePurger("purging")
  /\ UNCHANGED <<asking, disk, db, jobs, openers, sent, reads, spent>>

PurgeDone ==
  /\ purger.pc = "purging" /\ worker[purger.artifact].at = "done"
  /\ worker' = [worker EXCEPT ![purger.artifact] = Idle]
  /\ IF worker[purger.artifact].result = "ok"
       THEN MovePurger("mark") ELSE EndPurge("content")
  /\ UNCHANGED <<asking, disk, db, jobs, openers, sent, reads, spent>>

PurgeMark ==
  /\ purger.pc = "mark"
  /\ LET r == MarkContentPurged(db, purger.artifact, purger.revision)
     IN /\ db' = r.tables
        /\ IF IsError(r.answer) THEN EndPurge("store") ELSE MovePurger("list")
  /\ UNCHANGED <<asking, disk, worker, jobs, openers, sent, reads, spent>>

PurgeCommit ==
  /\ purger.pc = "commit"
  /\ LET r == CommitRemoval(db, purger.artifact, 0)
     IN /\ db' = r.tables
        /\ EndPurge(IF IsError(r.answer) THEN "store" ELSE "ok")
  /\ UNCHANGED <<asking, disk, worker, jobs, openers, sent, reads, spent>>

PurgeTimeout ==
  /\ \/ purger.pc = "purging" /\ worker[purger.artifact].at # "done"
        /\ Abandon(purger.artifact)
     \/ purger.pc = "purge" /\ UNCHANGED worker
  /\ Fault
  /\ EndPurge("content")
  /\ UNCHANGED <<asking, disk, db, jobs, openers, sent, reads>>

PurgeStoreFails ==
  /\ purger.pc \in {"reserve", "list", "mark", "commit"}
  /\ Fault
  /\ \E outcome \in {"content", "store"} : EndPurge(outcome)
  /\ UNCHANGED <<disk, worker, db, asking, jobs, openers, sent, reads>>

PurgeStep ==
  RemoveReserve \/ PurgeList \/ PurgeContent \/ PurgeDone \/ PurgeMark
  \/ PurgeCommit

\* run_artifact_removal_recovery: one pass, or a wait until a wake-up or the
\* retry timer.
LoopScan ==
  /\ loop.pc = "scan" /\ purger = Free
  /\ IF PendingRemovals(db) = {}
       THEN loop' = [loop EXCEPT !.pc = "sleep"] /\ UNCHANGED purger
       ELSE /\ loop' = [loop EXCEPT !.pc = "work"]
            /\ \E x \in PendingRemovals(db) :
                 purger' = [pc |-> "list", by |-> "loop",
                            artifact |-> db.removals[x].artifact,
                            revision |-> 0]
  /\ UNCHANGED <<disk, worker, db, asking, jobs, openers, removers, daemon, sent,
                 reads, spent>>

LoopWakes ==
  /\ loop.pc = "sleep"
  /\ \E wake \in {FALSE, loop.wake} : loop' = [pc |-> "scan", wake |-> wake]
  /\ UNCHANGED <<disk, worker, db, asking, jobs, openers, removers, purger, daemon,
                 sent, reads, spent>>

-----------------------------------------------------------------------------
(* Startup, crashes and the environment. *)

BootOpen ==
  /\ daemon.phase = "down"
  /\ \/ /\ OpenContent /\ UNCHANGED spent
        /\ daemon' = [phase |-> "imports", ready |-> TRUE]
     \/ /\ Fault /\ UNCHANGED disk
        /\ daemon' = [phase |-> "imports", ready |-> FALSE]
  /\ UNCHANGED <<asking, worker, db, jobs, openers, removers, purger, loop, sent, reads>>

\* recover_incomplete_imports
BootImports ==
  /\ daemon.phase = "imports" /\ \A a \in Imports : jobs[a].pc = "idle"
  /\ IF daemon.ready /\ ActiveImports(db) # {}
       THEN /\ \E a \in ActiveImports(db) :
                 LET plan == db.imports[a]
                 IN jobs' = [jobs EXCEPT ![a] =
                      [pc |-> IF plan.state = "Prepared" THEN "discard"
                              ELSE "status",
                       boot |-> TRUE, revision |-> plan.revision,
                       content |-> plan.content,
                       failure |-> "InterruptedBeforeContentReady"]]
            /\ UNCHANGED daemon
       ELSE daemon' = [daemon EXCEPT !.phase = "opens"] /\ UNCHANGED jobs
  /\ UNCHANGED <<asking, disk, worker, db, openers, removers, purger, loop, sent, reads, spent>>

\* Mutant: an open that was being dispatched is recorded as never sent.
RecoverOpenAsFailed(t, o) ==
  LET row == t.opens[o]
  IN TransitionOpen(t, row.artifact, row.revision, "Failed",
                    "InterruptedBeforeDispatch")

\* recover_incomplete_opens, one command.
RecoverOpen(t, o) ==
  LET row == t.opens[o]
  IN IF row.state = "Prepared"
       THEN TransitionOpen(t, row.artifact, row.revision, "Failed",
                           "InterruptedBeforeDispatch")
       ELSE TransitionOpen(t, row.artifact, row.revision,
                           "InterruptedNeedsReview", None)

BootOpens ==
  /\ daemon.phase = "opens"
  /\ IF ActiveOpens(db) = {}
       THEN daemon' = [daemon EXCEPT !.phase = "removals"] /\ UNCHANGED db
       ELSE \E o \in ActiveOpens(db) :
              Store(RecoverOpen(db, o)) /\ UNCHANGED daemon
  /\ UNCHANGED <<asking, disk, worker, jobs, openers, removers, purger, loop, sent, reads, spent>>

BootRemovals ==
  /\ daemon.phase = "removals" /\ purger = Free
  /\ IF daemon.ready /\ PendingRemovals(db) # {}
       THEN /\ \E x \in PendingRemovals(db) :
                 purger' = [pc |-> "list", by |-> "boot",
                            artifact |-> db.removals[x].artifact,
                            revision |-> 0]
            /\ UNCHANGED daemon
       ELSE daemon' = [daemon EXCEPT !.phase = "serving"] /\ UNCHANGED purger
  /\ UNCHANGED <<disk, worker, db, asking, jobs, openers, removers, loop, sent, reads, spent>>

BootStep == BootOpen \/ BootImports \/ BootOpens \/ BootRemovals

Crash ==
  /\ spent.crashes < spent.limit.crashes /\ daemon.phase # "down"
  /\ spent' = [spent EXCEPT !.crashes = @ + 1]
  /\ LosePower
  /\ asking' = [c \in Imports \cup Opens |-> 0]
  /\ jobs' = [a \in Imports |-> NoJob]
  /\ openers' = [o \in Opens |-> "idle"]
  /\ removers' = [x \in Removals |-> "idle"]
  /\ purger' = Free
  /\ loop' = [pc |-> "off", wake |-> FALSE]
  /\ daemon' = [phase |-> "down", ready |-> FALSE]
  /\ UNCHANGED <<db, sent, reads>>

\* A project is archived or a thread is closed (the workspace's operations).
CloseOwner ==
  /\ Serving
  /\ Cardinality(db.closed) < spent.limit.closures
  /\ \E a \in Imports : \E owner \in OwnersOf[a] :
       db' = [db EXCEPT !.closed = @ \cup {owner}]
  /\ UNCHANGED <<asking, disk, worker, jobs, openers, removers, purger, loop, daemon,
                 sent, reads, spent>>

DamageBytes ==
  /\ spent.damage < spent.limit.damage
  /\ spent' = [spent EXCEPT !.damage = @ + 1]
  /\ \E a \in Imports : Damage(a)
  /\ UNCHANGED <<asking, db, jobs, openers, removers, purger, loop, daemon, sent, reads>>

WorkerRuns(a) ==
  /\ WorkerStep(a)
  /\ UNCHANGED <<asking, db, jobs, openers, removers, purger, loop, daemon, sent, reads, spent>>

WorkerFails(a) ==
  /\ WorkerFault(a) /\ Fault
  /\ UNCHANGED <<asking, db, jobs, openers, removers, purger, loop, daemon, sent, reads>>

\* What the daemon does by itself, and what is done to it.
DaemonNext ==
  \/ \E a \in Imports : ImportStep(a) \/ WorkerRuns(a)
  \/ \E o \in Opens : OpenStep(o)
  \/ \E x \in Removals : RemoveLock(x)
  \/ PurgeStep \/ LoopScan \/ LoopWakes \/ BootStep

EnvironmentNext ==
  \/ \E a \in Imports : ImportReceive(a) \/ ImportTimeout(a)
                        \/ ImportStoreFails(a) \/ WorkerFails(a)
  \/ \E o \in Opens : OpenReceive(o) \/ OpenTimeout(o) \/ OpenStoreFails(o)
  \/ \E x \in Removals : RemoveReceive(x)
  \/ PurgeTimeout \/ PurgeStoreFails
  \/ Crash \/ CloseOwner \/ DamageBytes

Next == DaemonNext \/ EnvironmentNext

Spec == Init /\ [][Next]_vars

\* The executor polls every task and worker and every timer fires.  A scan is
\* not starved of removal_execution by direct tasks: the mutex is queued.
Fairness ==
  /\ \A a \in Imports : WF_vars(ImportStep(a)) /\ WF_vars(WorkerRuns(a))
  /\ \A o \in Opens : WF_vars(OpenStep(o))
  /\ \A x \in Removals : SF_vars(RemoveLock(x))
  /\ WF_vars(PurgeStep) /\ SF_vars(LoopScan) /\ WF_vars(LoopWakes)
  /\ WF_vars(BootStep)

FairSpec == Spec /\ Fairness

-----------------------------------------------------------------------------
(* Properties. *)

Revisions == 0..2
TypeOK ==
  /\ disk \in [Imports -> [seen : Names, kept : Names]]
  /\ worker \in [Imports -> Workers]
  /\ db.closed \subseteq UNION {OwnersOf[a] : a \in Imports}
  /\ \A a \in Imports :
       /\ db.imports[a] # None =>
            db.imports[a] \in [print : Prints, state : ImportStates,
                               revision : Revisions,
                               content : Sizes \cup {None},
                               failure : Failures \cup {None}]
       /\ db.artifacts[a] # None =>
            db.artifacts[a] \in [state : {"Unavailable", "Available", "Deleted"},
                                 revision : Revisions]
       /\ db.versions[a] \in Sizes \cup {None}
       /\ db.retention[a] # None =>
            db.retention[a] \in [state : RetentionStates, revision : Revisions]
       /\ jobs[a].pc \in JobPcs
  /\ purger.pc \in PurgePcs \cup {"reserve"}
  /\ daemon \in [phase : {"down", "imports", "opens", "removals", "serving"},
                 ready : BOOLEAN]
  /\ \A o \in Opens :
       db.opens[o] # None =>
         /\ db.opens[o].state \in OpenStates /\ db.opens[o].revision \in Revisions
  /\ sent \in [Opens -> 0..2] /\ reads \in [Imports -> 0..2]

OnDisk(a, name) == disk[a].seen[name] # None \/ disk[a].kept[name] # None

\* No bytes are kept that the journal does not account for, whatever was
\* interrupted: an object has a reserved or unpurged row, a prepared file has
\* an unfinished import, a temporary copy has its worker or the next startup.
BytesAccounted ==
  \A a \in Imports :
    /\ OnDisk(a, "object") =>
         \/ db.imports[a] # None /\ db.imports[a].state = "ContentReady"
         \/ db.versions[a] # None /\ db.retention[a].state # "Purged"
    /\ OnDisk(a, "staged") => Unfinished(db, a)
    /\ disk[a].seen.copy # None =>
         worker[a].op = "prepare" \/ ~daemon.ready

\* The objects on disk never exceed the project's and the global byte quota,
\* including the objects of tombstoned artifacts that are not purged yet.
QuotaHolds ==
  LET Stored(A) == MapThenSumSet(LAMBDA a : db.imports[a].content,
                                 {a \in A : OnDisk(a, "object")})
  IN /\ Stored(Imports) <= MaxGlobal
     /\ \A a \in Imports :
          /\ Stored(InProject(ProjectOf[a])) <= MaxProject
          /\ ProjectArtifactCount(db, ProjectOf[a]) <= MaxCount

\* An artifact shown as available has its object durably on disk: no power
\* loss after the commit can lose it.
AvailableIsDurable ==
  \A a \in Imports :
    db.artifacts[a] # None /\ db.artifacts[a].state = "Available" =>
      /\ disk[a].seen.object \in {db.versions[a], Damaged}
      /\ disk[a].kept.object \in {db.versions[a], Damaged}

\* A version recorded as purged is gone and no power loss brings it back; a
\* committed removal purged every version.
PurgedIsGone ==
  /\ \A a \in Imports :
       db.retention[a] # None /\ db.retention[a].state = "Purged" =>
         ~OnDisk(a, "object")
  /\ \A x \in Removals :
       db.removals[x] # None /\ db.removals[x].state = "Committed" =>
         db.retention[db.removals[x].artifact].state = "Purged"

\* The journal answers for the bytes on disk, within the quotas.
StorageAccounted == TypeOK /\ BytesAccounted /\ QuotaHolds

\* What the journal shows as available or purged is so on disk.
ContentMatchesRecords == AvailableIsDurable /\ PurgedIsGone

\* The portal is called at most once per open command, across timeouts,
\* crashes and retries, and the recorded outcome never denies a call: an open
\* recorded as failed was not sent, one recorded as opened was.
OpenOutcomesTrue ==
  \A o \in Opens :
    /\ sent[o] <= 1
    /\ sent[o] = 1 => db.opens[o].state \notin {"Prepared", "Failed"}
    /\ db.opens[o] # None /\ db.opens[o].state = "Opened" => sent[o] = 1

\* A file is handed to the portal only while its artifact is available: never
\* after its removal was accepted.
OpenedWhileAvailable ==
  [][\A o \in Opens : sent'[o] # sent[o] =>
       db.artifacts[OpenTarget[o]].state = "Available"]_vars

\* The selected source is opened at most once per import command: no retry
\* and no recovery reads a path again.
SourceReadOnce == \A a \in Imports : reads[a] <= 1

\* No command has its outside effect twice, and its record tells the truth.
EffectsOnce == OpenOutcomesTrue /\ SourceReadOnce

\* Nothing is left hanging: an accepted removal is completed while the daemon
\* serves with its content store, whichever task or timeout it is interrupted
\* by, startup always gets to serve or stops, and every import task ends.
ArtifactsSettle ==
  /\ \A x \in Removals :
       (Serving /\ daemon.ready /\ x \in PendingRemovals(db))
         ~> (x \notin PendingRemovals(db) \/ ~daemon.ready)
  /\ (daemon.phase = "imports") ~> (daemon.phase \in {"serving", "down"})
  /\ \A a \in Imports : (jobs[a].pc # "idle") ~> (jobs[a].pc = "idle")
=============================================================================
