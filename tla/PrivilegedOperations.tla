------------------------ MODULE PrivilegedOperations ------------------------
(***************************************************************************)
(* Guest health checks through the privileged journal: the isolation       *)
(* runtime's refreshes, the gateway that journals each check around the    *)
(* call of the guest, and the recovery a daemon start makes before it      *)
(* serves.                                                                 *)
(*                                                                         *)
(* Refreshes run concurrently (capability requests, the scheduler's        *)
(* start and its loop).  Their keys are made of the wall clock, of a fixed *)
(* name or of a cycle number that starts again with the daemon, so two     *)
(* refreshes may use one key.  The wall clock may be set back.             *)
(***************************************************************************)
EXTENDS PrivilegedJournal

CONSTANTS Tasks,          \* concurrent refreshes
          Lifetime,       \* of the authority, from the refresh
          RecoveryLimit,  \* operations one start recovers
          Scenarios       \* bounds of an instance, chosen initially

VARIABLES journal,   \* the tables
          clock,     \* the wall clock
          tasks,     \* task -> where its refresh is
          facts,     \* the readiness facts last written
          daemon,    \* the phase of the process and its recovery batch
          sent,      \* key -> calls of the guest (history)
          spent      \* what the environment did, and its bounds

vars == <<journal, clock, tasks, facts, daemon, sent, spent>>

Pcs == {"idle", "resolve", "prepare", "get", "begin", "call", "complete"}

NoTask == [pc |-> "idle", intent |-> None, id |-> None, op |-> None,
           result |-> None]

NoFacts == [broker |-> FALSE, strong |-> FALSE]

Init ==
  /\ journal = EmptyTables
  /\ clock = 0
  /\ tasks = [k \in Tasks |-> NoTask]
  /\ facts = NoFacts
  /\ daemon = [phase |-> "serving", batch |-> <<>>, truncated |-> FALSE]
  /\ sent = [key \in Keys |-> 0]
  /\ spent \in {[crashes |-> 0, setbacks |-> 0, refreshes |-> 0, limit |-> limit] :
                limit \in Scenarios}

Serving == daemon.phase = "serving"

-----------------------------------------------------------------------------
(* IsolationRuntime::refresh *)

Step(k, task) == tasks' = [tasks EXCEPT ![k] = task]

\* The refresh ends and its facts replace the last ones.
End(k, strong) ==
  /\ Step(k, NoTask)
  /\ facts' = [broker |-> TRUE, strong |-> strong]

\* The broker is probed; the check is prepared once it qualifies.
Refresh(k) ==
  /\ Serving /\ tasks[k].pc = "idle"
  /\ spent.refreshes < spent.limit.refreshes
  /\ spent' = [spent EXCEPT !.refreshes = @ + 1]
  /\ \/ facts' = NoFacts /\ UNCHANGED tasks
     \/ /\ \E key \in Keys, print \in Prints :
             Step(k, [NoTask EXCEPT
                        !.pc = "resolve",
                        !.intent = [key |-> key, print |-> print,
                                    kind |-> "RunnerHealth",
                                    expires |-> clock + Lifetime]])
        /\ UNCHANGED facts
  /\ UNCHANGED <<journal, clock, daemon, sent>>

\* PrivilegedOperationService::prepare: a known key is answered from its row,
\* whatever its state, and never calls the guest.
Resolve(k) ==
  LET task == tasks[k]
      known == ResolvePreparation(journal, task.intent)
      op == Prepare(task.intent, clock)
  IN /\ task.pc = "resolve"
     /\ IF ~IsError(known) \/ known.error # "Unknown" \/ IsError(op)
          THEN End(k, FALSE)
          ELSE Step(k, [task EXCEPT !.pc = "prepare", !.op = op])
               /\ UNCHANGED facts
     /\ UNCHANGED <<journal, clock, daemon, sent, spent>>

\* The transaction resolves the key again: another refresh may have won.
PrepareStep(k) ==
  LET task == tasks[k]
  IN /\ task.pc = "prepare"
     /\ \E o \in Ids :
          /\ journal.ops[o] = None /\ \A p \in Ids : p < o => journal.ops[p] # None
          /\ LET r == PrepareWithPayload(journal, o, task.op)
             IN /\ journal' = r.tables
                /\ IF IsError(r.answer) \/ ~r.answer.created THEN End(k, FALSE)
                   ELSE Step(k, [task EXCEPT !.pc = "get", !.id = r.answer.id])
                        /\ UNCHANGED facts
     /\ UNCHANGED <<clock, daemon, sent, spent>>

\* begin_dispatch loads the row and makes the transition of it.
Get(k) ==
  LET task == tasks[k]
      current == LoadById(journal, task.id)
      op == Dispatch(current, clock)
  IN /\ task.pc = "get"
     /\ IF IsError(current) THEN End(k, FALSE)
        ELSE IF current.revision # task.op.revision \/ IsError(op) THEN End(k, FALSE)
        ELSE Step(k, [task EXCEPT !.pc = "begin", !.op = op]) /\ UNCHANGED facts
     /\ UNCHANGED <<journal, clock, daemon, sent, spent>>

\* The transport identity is derived from the journal identity.  A store
\* error ends the refresh.
Begin(k) ==
  LET task == tasks[k]
      r == BeginDispatch(journal, task.id, task.op, task.op.revision - 1,
                         [sequence |-> task.op.attempts, transport |-> task.id,
                          started |-> task.op.updated,
                          deadline |-> task.op.updated + MaxAttempt])
  IN /\ task.pc = "begin"
     /\ \/ /\ journal' = r.tables
           /\ IF IsError(r.answer) THEN End(k, FALSE)
              ELSE Step(k, [task EXCEPT !.pc = "call"]) /\ UNCHANGED facts
        \/ UNCHANGED journal /\ End(k, FALSE)
     /\ UNCHANGED <<clock, daemon, sent, spent>>

\* The transport answers, reports an uncertain outcome, or fails before the
\* guest was reached.
Call(k) ==
  LET task == tasks[k]
  IN /\ task.pc = "call"
     /\ sent' = [sent EXCEPT ![task.intent.key] = IF @ < 2 THEN @ + 1 ELSE @]
     /\ \E result \in {"ok", "failed", "lost"} :
          Step(k, [task EXCEPT !.pc = "complete", !.result = result])
     /\ UNCHANGED <<journal, clock, facts, daemon, spent>>

Outcome(op, result, now) ==
  CASE result = "ok" -> Succeed(op, now)
    [] result = "failed" -> Fail(op, now)
    [] result = "lost" -> Interrupt(op, now)

\* A clock that was set back makes the transition impossible, and a store
\* error loses the outcome; the row is then left to the next start.
Complete(k) ==
  LET task == tasks[k]
      op == Outcome(task.op, task.result, clock)
      r == CompleteDispatchOutcome(journal, task.id, op, task.op.revision,
                                   task.op.attempts, clock)
  IN /\ task.pc = "complete"
     /\ IF IsError(op) THEN End(k, FALSE) /\ UNCHANGED journal
        ELSE /\ journal' = r.tables
             /\ End(k, ~IsError(r.answer) /\ task.result = "ok")
     /\ UNCHANGED <<clock, daemon, sent, spent>>

TaskStep(k) ==
  \/ Resolve(k) \/ PrepareStep(k) \/ Get(k) \/ Begin(k) \/ Call(k)
  \/ Complete(k)

-----------------------------------------------------------------------------
(* recover_privileged_operations, before anything is served. *)

Older(o, p) ==
  LET a == journal.ops[o].op.updated
      b == journal.ops[p].op.updated
  IN a < b \/ (a = b /\ o < p)

Oldest(n) == {o \in Dispatching(journal) :
                Cardinality({p \in Dispatching(journal) : Older(p, o)}) < n}

\* Mutant: recovery takes the clock as it is.
RecoveredAtClock(candidate) == clock

\* The completion time is never before what the row already says.
RecoveredAt(candidate) ==
  CHOOSE t \in {clock, candidate.op.updated, candidate.started} :
    \A u \in {clock, candidate.op.updated, candidate.started} : u <= t

StartRecovery ==
  /\ daemon.phase = "down"
  /\ \E order \in [1..Cardinality(Oldest(RecoveryLimit)) -> Oldest(RecoveryLimit)] :
       /\ \A i, j \in DOMAIN order : i < j => Older(order[i], order[j])
       /\ daemon' = [phase |-> "recovering", batch |-> order,
                     truncated |-> Cardinality(Dispatching(journal)) > RecoveryLimit]
  /\ UNCHANGED <<journal, clock, tasks, facts, sent, spent>>

\* What recovering a candidate makes of the tables, and whether it failed.
Recovered(candidate) ==
  LET at == RecoveredAt(candidate)
      op == Interrupt(candidate.op, at)
  IN IF IsError(op) THEN Refuse(journal, op)
     ELSE RecoverInterruptedAttempt(journal, candidate.id, op,
                                    candidate.op.revision, candidate.sequence, at)

EndStart(phase) ==
  daemon' = [phase |-> phase, batch |-> <<>>, truncated |-> FALSE]

\* Each operation in its own transaction; any error ends the start.
RecoverNext ==
  /\ daemon.phase = "recovering" /\ daemon.batch # <<>>
  /\ \E candidate \in {Candidate(journal, Head(daemon.batch))} :
       IF IsError(candidate) THEN EndStart("down") /\ UNCHANGED journal
       ELSE \E r \in {Recovered(candidate)} :
              /\ journal' = r.tables
              /\ IF IsError(r.answer) THEN EndStart("down")
                 ELSE daemon' = [daemon EXCEPT !.batch = Tail(@)]
  /\ UNCHANGED <<clock, tasks, facts, sent, spent>>

\* Mutant: the daemon serves after a truncated pass.
RecoveryDoneTruncated ==
  /\ daemon.phase = "recovering" /\ daemon.batch = <<>>
  /\ EndStart("serving")
  /\ UNCHANGED <<journal, clock, tasks, facts, sent, spent>>

\* A backlog larger than one pass ends the start too, after the pass.
RecoveryDone ==
  /\ daemon.phase = "recovering" /\ daemon.batch = <<>>
  /\ EndStart(IF daemon.truncated THEN "down" ELSE "serving")
  /\ UNCHANGED <<journal, clock, tasks, facts, sent, spent>>

-----------------------------------------------------------------------------
(* The environment. *)

Crash ==
  /\ daemon.phase # "down"
  /\ spent.crashes < spent.limit.crashes
  /\ spent' = [spent EXCEPT !.crashes = @ + 1]
  /\ tasks' = [k \in Tasks |-> NoTask]
  /\ facts' = NoFacts
  /\ daemon' = [phase |-> "down", batch |-> <<>>, truncated |-> FALSE]
  /\ UNCHANGED <<journal, clock, sent>>

Tick ==
  /\ clock < spent.limit.time
  /\ clock' = clock + 1
  /\ UNCHANGED <<journal, tasks, facts, daemon, sent, spent>>

SetBack ==
  /\ clock > 0 /\ spent.setbacks < spent.limit.setbacks
  /\ clock' = clock - 1
  /\ spent' = [spent EXCEPT !.setbacks = @ + 1]
  /\ UNCHANGED <<journal, tasks, facts, daemon, sent>>

Next ==
  \/ \E k \in Tasks : Refresh(k) \/ TaskStep(k)
  \/ StartRecovery \/ RecoverNext \/ RecoveryDone
  \/ Crash \/ Tick \/ SetBack

Spec == Init /\ [][Next]_vars

\* The supervisor starts the daemon again, and a start goes on.
FairSpec == Spec /\ WF_vars(StartRecovery) /\ WF_vars(RecoverNext)
                 /\ WF_vars(RecoveryDone)

-----------------------------------------------------------------------------
(* Properties. *)

TypeOK ==
  /\ clock \in Time
  /\ facts \in [broker : BOOLEAN, strong : BOOLEAN]
  /\ \A k \in Tasks : tasks[k].pc \in Pcs
  /\ \A k \in Tasks : tasks[k].pc \notin {"idle", "resolve", "prepare"}
       => tasks[k].id \in Ids /\ journal.ops[tasks[k].id] # None
  /\ daemon.phase \in {"down", "recovering", "serving"}
  /\ daemon.batch \in Seq(Ids)
  /\ \A o \in Ids : Loadable(journal, o)
  /\ sent \in [Keys -> 0..2]

\* Whatever refreshes share a key, whatever crashes and restarts happen
\* between their steps, the guest is called at most once for a key.
CalledOncePerKey == TypeOK /\ \A key \in Keys : sent[key] <= 1

\* The guest is called only for an operation the journal shows as being
\* dispatched with an open attempt, and before its authority expired: a crash
\* at any moment leaves the call accounted for.
CallIsJournalled ==
  \A k \in Tasks : tasks[k].pc = "call" /\ tasks'[k].pc = "complete" =>
    LET o == tasks[k].id
        op == journal.ops[o].op
    IN /\ op = tasks[k].op /\ op.state = "Dispatching"
       /\ journal.attempts[o][op.attempts].certainty = 0
       /\ op.updated <= op.intent.expires

\* No operation is dispatching when the daemon starts to serve: none that was
\* interrupted by a crash is ever taken for a live one.
ServingIsRecovered ==
  daemon.phase = "recovering" /\ daemon'.phase = "serving" => Dispatching(journal) = {}

\* The journal precedes every call, and is settled before the first.
CallsAccounted == [][CallIsJournalled /\ ServingIsRecovered]_vars

Stopped == daemon.phase = "down"

\* A start ends serving, however large the backlog and wherever the clock was
\* set: a truncated pass ends the process but leaves less to the next one.
StartServes == Stopped ~> Serving

\* ADR 0003: what the guest is known to have answered becomes a durable
\* outcome of the operation when the refresh ends.
KnownOutcomeDurable ==
  \A k \in Tasks : Complete(k) /\ tasks[k].result \in {"ok", "failed"} =>
    journal'.ops[tasks[k].id].op.state \in {"Succeeded", "Failed"}
=============================================================================
