------------------------ MODULE AutomationScheduler ------------------------
(***************************************************************************)
(* The automation scheduler: first its durable journal, then the task of   *)
(* the daemon over it.                                                     *)
(*                                                                         *)
(* The journal holds the singleton lease, one evaluation cursor per        *)
(* definition, the occurrences and the runs bound to them, with the        *)
(* transactions of automation_scheduler_store.rs.                          *)
(*                                                                         *)
(* Time is counted in ticks.  A slot is the nominal local time of an       *)
(* occurrence, written as the tick at which it falls; a slot in Gaps does  *)
(* not exist on the local clock.  A definition cannot change once it has a *)
(* cursor, so an occurrence is named by its automation and its slot.  The  *)
(* transaction that claims an occurrence also creates its one run, so a    *)
(* run is named by its occurrence.                                         *)
(*                                                                         *)
(* The store can also claim without binding a run.  Nothing in the daemon  *)
(* calls that operation, so no occurrence is ever stored as Claimed.       *)
(*                                                                         *)
(* The task recovers at startup, dispatches bound runs to the isolated     *)
(* guest and evaluates due slots in a loop; it is shut down, crashes and   *)
(* is started again, under a wall clock that may be set back.              *)
(*                                                                         *)
(* One daemon runs at a time, since it holds an exclusive lock on its      *)
(* database.  Every start has a new owner identity; what matters of it is  *)
(* only that it differs from the owner of the stored lease.                *)
(***************************************************************************)
EXTENDS Lifecycles, FiniteSets, FiniteSetsExt

CONSTANTS Automations,    \* definition identifiers, a set of numbers
          Due,            \* Automations -> slots that exist
          Gaps,           \* Automations -> slots that fall into a gap
          MissedPolicy,   \* Automations -> {"RunOnce", "Skip"}
          OverlapPolicy,  \* Automations -> {"QueueOne", "Skip"}
          TTL,            \* lifetime of a lease and of a claim
          Window,         \* longest interval evaluated at once
          MaxDecisions,   \* occurrences one evaluation may propose
          None

VARIABLES lease,        \* None or the current generation
          definition,   \* Automations -> [revision, enabled, updatedAt]
          projectActive,
          cursor,       \* Automations -> None or [through, revision, ...]
          occurrence,   \* Occurrences -> None or the stored row
          run           \* Occurrences -> None or [state, revision, updatedAt]

journalVars == <<lease, definition, projectActive, cursor, occurrence, run>>

Slots(a) == Due[a] \cup Gaps[a]

Occurrences == {o \in Automations \X UNION {Slots(a) : a \in Automations} :
                  o[2] \in Slots(o[1])}

Automation(o) == o[1]

Slot(o) == o[2]

OccurrenceStates ==
  {"Pending", "QueuedOverlap", "RunLinked", "Succeeded", "Failed",
   "SkippedMissed", "SkippedOverlap", "SkippedInvalidLocalTime",
   "InterruptedNeedsReview", "Cancelled"}

ActiveStates == {"Pending", "RunLinked"}

Leases == [owner : Nat, fence : Nat, acquiredAt : Nat, renewedAt : Nat,
           expiresAt : Nat]

Definitions == [revision : Nat, enabled : BOOLEAN, updatedAt : Nat]

Cursors == [through : Nat, revision : Nat, updatedAt : Nat]

Rows == [state : OccurrenceStates, count : Nat \ {0}, revision : Nat,
         expiresAt : Nat \cup {None}, updatedAt : Nat]

Runs == [state : RunStates, revision : Nat, updatedAt : Nat]

ASSUME JournalAssumption ==
  /\ Automations \subseteq Nat /\ {TTL, Window, MaxDecisions} \subseteq Nat
  /\ Due \in [Automations -> SUBSET Nat] /\ Gaps \in [Automations -> SUBSET Nat]
  /\ \A a \in Automations : Due[a] \cap Gaps[a] = {}
  /\ None \notin Leases /\ None \notin Cursors /\ None \notin Rows
  /\ None \notin Runs

JournalInit ==
  /\ lease = None
  /\ definition \in [Automations -> [revision : {0}, enabled : BOOLEAN,
                                     updatedAt : {0}]]
  /\ projectActive = TRUE
  /\ cursor = [a \in Automations |-> None]
  /\ occurrence = [o \in Occurrences |-> None]
  /\ run = [o \in Occurrences |-> None]

JournalTypeOK ==
  /\ lease \in Leases \cup {None}
  /\ definition \in [Automations -> Definitions]
  /\ projectActive \in BOOLEAN
  /\ cursor \in [Automations -> Cursors \cup {None}]
  /\ occurrence \in [Occurrences -> Rows \cup {None}]
  /\ run \in [Occurrences -> Runs \cup {None}]

InState(o, states) == occurrence[o] # None /\ occurrence[o].state \in states

Of(a) == {o \in Occurrences : Automation(o) = a}

-----------------------------------------------------------------------------
(* The lease. *)

\* scheduler_durable_clock_floor
ClockFloor ==
  Max({0}
      \cup (IF lease = None THEN {} ELSE {lease.renewedAt})
      \cup {cursor[a].updatedAt : a \in {b \in Automations : cursor[b] # None}}
      \cup {occurrence[o].updatedAt :
              o \in {p \in Occurrences : occurrence[p] # None}})

Renews(owner, now) ==
  lease # None /\ lease.owner = owner /\ now < lease.expiresAt

\* acquire_lease
Acquisition(owner, now) ==
  IF now < ClockFloor THEN "ClockRegressed"
  ELSE IF lease # None /\ lease.owner # owner /\ now < lease.expiresAt THEN "Busy"
  ELSE "Acquired"

LeaseAfter(owner, now) ==
  CASE lease = None ->
         [owner |-> owner, fence |-> 1, acquiredAt |-> now,
          renewedAt |-> now, expiresAt |-> now + TTL]
    [] Renews(owner, now) ->
         [lease EXCEPT !.renewedAt = now, !.expiresAt = now + TTL]
    [] OTHER ->
         [owner |-> owner, fence |-> lease.fence + 1, acquiredAt |-> now,
          renewedAt |-> now, expiresAt |-> now + TTL]

ContinuityStartedAt(owner, now) ==
  IF Renews(owner, now) THEN lease.renewedAt ELSE now

\* ensure_live_lease
LiveLease(owner, fence, now) ==
  /\ lease # None
  /\ lease.owner = owner /\ lease.fence = fence
  /\ lease.acquiredAt <= now /\ now < lease.expiresAt

-----------------------------------------------------------------------------
(* Evaluation. *)

Candidates == {a \in Automations : definition[a].enabled /\ projectActive}

\* Mutant: both bounds are exclusive.
WithinOpen(slots, after, through) == {s \in slots : after < s /\ s < through}

\* decisions_between: the lower bound is exclusive, the upper inclusive.
Within(slots, after, through) == {s \in slots : after < s /\ s <= through}

Proposal(slot, state, count) == [slot |-> slot, state |-> state, count |-> count]

\* materialize_decisions: gaps are recorded, slots before the continuous
\* interval collapse into the latest of them, the rest are due now.
Proposed(a, after, through, since) ==
  LET missed  == {s \in Within(Due[a], after, through) : s < since}
      current == Within(Due[a], after, through) \ missed
  IN  {Proposal(s, "SkippedInvalidLocalTime", 1) :
         s \in Within(Gaps[a], after, through)}
        \cup {Proposal(s, IF MissedPolicy[a] = "Skip" THEN "SkippedMissed"
                                                       ELSE "Pending",
                       Cardinality(missed)) :
                s \in {t \in missed : \A u \in missed : u <= t}}
        \cup {Proposal(s, "Pending", 1) : s \in current}

Stored(a, states) == {Slot(o) : o \in {p \in Of(a) : InState(p, states)}}

Ahead(proposals, p) ==
  {q.slot : q \in {r \in proposals : r.state = "Pending" /\ r.slot < p.slot}}

\* Mutant: what the same evaluation inserts first is not seen.
AdjudicatedBefore(a, proposals, p) ==
  IF p.state # "Pending" THEN p.state
  ELSE IF Stored(a, ActiveStates) = {} THEN "Pending"
  ELSE IF OverlapPolicy[a] = "QueueOne" /\ Stored(a, {"QueuedOverlap"}) = {}
    THEN "QueuedOverlap"
  ELSE "SkippedOverlap"

\* adjudicate_overlap: proposals are inserted in the order of their slots, so
\* one meets what is stored and the pending proposals ahead of it.  The first
\* of those is active, the second queued.
Adjudicated(a, proposals, p) ==
  LET blocking == Stored(a, ActiveStates) \cup Ahead(proposals, p)
      room     == /\ OverlapPolicy[a] = "QueueOne"
                  /\ Stored(a, {"QueuedOverlap"}) = {}
                  /\ \E s \in blocking : blocking = {s}
  IN  IF p.state # "Pending" THEN p.state
      ELSE IF blocking = {} THEN "Pending"
      ELSE IF room THEN "QueuedOverlap"
      ELSE "SkippedOverlap"

NewRow(state, count, now) ==
  [state |-> state, count |-> count, expiresAt |-> None, updatedAt |-> now,
   revision |-> IF state \in {"Pending", "SkippedInvalidLocalTime"}
                  THEN 0 ELSE 1]

\* The insertions of commit_evaluation
Inserted(a, proposals, now) ==
  [o \in Occurrences |->
     IF Automation(o) = a /\ \E p \in proposals : p.slot = Slot(o)
       THEN LET p == CHOOSE q \in proposals : q.slot = Slot(o)
            IN  NewRow(Adjudicated(a, proposals, p), p.count, now)
       ELSE occurrence[o]]

\* commit_evaluation rechecks what the calculator saw before its await.
EvaluationAccepted(a, seen, owner, fence, now) ==
  /\ LiveLease(owner, fence, now)
  /\ a \in Candidates
  /\ definition[a].revision = seen.revision
  /\ cursor[a] = seen.cursor

InitializeCursor(a, activatedAt, now) ==
  /\ cursor' = [cursor EXCEPT ![a] =
                  [through |-> activatedAt, revision |-> 0,
                   updatedAt |-> now]]
  /\ UNCHANGED <<lease, definition, projectActive, occurrence, run>>

AdvanceCursor(a, through, proposals, now) ==
  /\ cursor' = [cursor EXCEPT ![a] =
                  [through |-> through, revision |-> @.revision + 1,
                   updatedAt |-> now]]
  /\ occurrence' = Inserted(a, proposals, now)
  /\ UNCHANGED <<lease, definition, projectActive, run>>

-----------------------------------------------------------------------------
(* Dispatch. *)

\* AutomationOccurrence::claim followed by link_run
Bound(row, now) ==
  [row EXCEPT !.state = "RunLinked", !.revision = @ + 2,
              !.expiresAt = now + TTL, !.updatedAt = now]

ClaimAccepted(o, revision, owner, fence, now) ==
  /\ LiveLease(owner, fence, now) /\ now + TTL <= lease.expiresAt
  /\ InState(o, {"Pending"}) /\ occurrence[o].revision = revision
  /\ projectActive
  /\ Slot(o) <= now /\ occurrence[o].updatedAt <= now

\* claim_and_bind_occurrence
ClaimAndBind(o, now) ==
  /\ occurrence' = [occurrence EXCEPT ![o] = Bound(@, now)]
  /\ run' = [run EXCEPT ![o] =
               [state |-> "Queued", revision |-> 0, updatedAt |-> now]]
  /\ UNCHANGED <<lease, definition, projectActive, cursor>>

\* list_resumable_dispatches
Resumable == {o \in Occurrences : InState(o, {"RunLinked"})
                                   /\ run[o].state = "Queued"}

\* Run::transition, which also refuses a clock behind the last change
RunMoved(row, next, now) ==
  [row EXCEPT !.state = next, !.revision = @ + 1, !.updatedAt = now]

RunCanMove(o, next, now) ==
  RunPermits(run[o].state, next) /\ run[o].updatedAt <= now

BeginAccepted(o, revision, runRevision, now) ==
  /\ InState(o, {"RunLinked"}) /\ occurrence[o].revision = revision
  /\ run[o].state = "Queued" /\ run[o].revision = runRevision
  /\ RunCanMove(o, "Planning", now)

\* begin_occurrence_run: Planning and Running are one transaction.
BeginRun(o, now) ==
  /\ run' = [run EXCEPT ![o] = RunMoved(RunMoved(@, "Planning", now),
                                        "Running", now)]
  /\ UNCHANGED <<lease, definition, projectActive, cursor, occurrence>>

Completions == {"Succeeded", "Failed", "InterruptedNeedsReview", "Cancelled"}

RunOutcome(completion) ==
  IF completion = "Succeeded" THEN "Completed" ELSE completion

\* finish_linked and cancel
Finished(row, state, now) ==
  [row EXCEPT !.state = state, !.revision = @ + 1, !.expiresAt = None,
              !.updatedAt = now]

\* Mutant: nothing is promoted.
PromotedNone(rows, freed, now) == rows

\* promote_queued, applied to every automation in freed
Promoted(rows, freed, now) ==
  [o \in Occurrences |->
     IF Automation(o) \in freed /\ rows[o] # None
          /\ rows[o].state = "QueuedOverlap"
       THEN [rows[o] EXCEPT !.state = "Pending", !.revision = @ + 1,
                            !.updatedAt = now]
       ELSE rows[o]]

PromotionAccepted(freed, now) ==
  \A o \in Occurrences :
    Automation(o) \in freed /\ InState(o, {"QueuedOverlap"})
      => occurrence[o].updatedAt <= now

CompleteAccepted(o, revision, completion, now) ==
  /\ run[o].state = "Running" /\ RunCanMove(o, RunOutcome(completion), now)
  /\ InState(o, {"RunLinked"})
  /\ occurrence[o].revision = revision /\ occurrence[o].updatedAt <= now
  /\ PromotionAccepted({Automation(o)}, now)

\* complete_occurrence_run
CompleteRun(o, completion, now) ==
  /\ run' = [run EXCEPT ![o] = RunMoved(@, RunOutcome(completion), now)]
  /\ occurrence' = Promoted([occurrence EXCEPT ![o] =
                               Finished(@, completion, now)],
                            {Automation(o)}, now)
  /\ UNCHANGED <<lease, definition, projectActive, cursor>>

-----------------------------------------------------------------------------
(* Recovery. *)

Expired(now) == {o \in Occurrences : InState(o, {"RunLinked"})
                                      /\ occurrence[o].expiresAt <= now}

\* The first claims in order of expiry; identifiers are random.
Batches(now, limit) ==
  {b \in SUBSET Expired(now) :
     /\ Cardinality(b) = Min({limit, Cardinality(Expired(now))})
     /\ \A o \in b, p \in Expired(now) \ b :
          occurrence[o].expiresAt <= occurrence[p].expiresAt}

\* A run that is still queued was never sent, so it stays resumable.
Stranded(batch) == batch \ Resumable

\* recover_claims: a stranded run is put under review with its occurrence.
RecoverAccepted(batch, now) ==
  /\ \A o \in Stranded(batch) :
       RunIsTerminal(run[o].state) \/ run[o].state = "InterruptedNeedsReview"
         \/ RunCanMove(o, "InterruptedNeedsReview", now)
  /\ \A o \in Stranded(batch) : occurrence[o].updatedAt <= now
  /\ PromotionAccepted({Automation(o) : o \in Stranded(batch)}, now)

ReviewedRun(row, now) ==
  IF RunIsTerminal(row.state) \/ row.state = "InterruptedNeedsReview"
    THEN row ELSE RunMoved(row, "InterruptedNeedsReview", now)

OccurrenceOutcome(runState) ==
  IF runState = "Completed" THEN "Succeeded"
  ELSE IF RunIsTerminal(runState) THEN runState
  ELSE "InterruptedNeedsReview"

\* Mutant: recovery settles the occurrence and leaves its run.
RecoverRows(batch, now) ==
  /\ occurrence' = [o \in Occurrences |->
                      IF o \in Stranded(batch)
                        THEN Finished(occurrence[o],
                                      OccurrenceOutcome(run[o].state), now)
                        ELSE occurrence[o]]
  /\ UNCHANGED <<lease, definition, projectActive, cursor, run>>

RecoverClaims(batch, now) ==
  /\ run' = [o \in Occurrences |->
               IF o \in Stranded(batch) THEN ReviewedRun(run[o], now)
                                        ELSE run[o]]
  /\ occurrence' =
       Promoted([o \in Occurrences |->
                   IF o \in Stranded(batch)
                     THEN Finished(occurrence[o],
                                   OccurrenceOutcome(run[o].state), now)
                     ELSE occurrence[o]],
                {Automation(o) : o \in Stranded(batch)}, now)
  /\ UNCHANGED <<lease, definition, projectActive, cursor>>

-----------------------------------------------------------------------------
(* The scheduler task. *)

CONSTANTS Page,           \* definitions one pass looks at
          ListLimit,      \* occurrences of a definition one pass looks at
          RecoveryBatch,  \* expired claims one recovery pass settles
          Limits          \* bounds: the scenarios explored

\* A scenario: the definitions that start enabled, the horizon of the clock, and
\* how many corrections of the clock, crashes or shutdowns, failing store calls
\* and edits it has
LimitRecords ==
  [enabled : SUBSET Automations, clock : Nat, regressions : Nat, crashes : Nat,
   faults : Nat, edits : Nat]

ASSUME BoundsAssumption ==
  /\ {Page, ListLimit, RecoveryBatch} \subseteq Nat
  /\ Limits \subseteq LimitRecords

VARIABLES clock,
          task,       \* the scheduler task of the running daemon
          spent,      \* the limits, and how much of each was used
          guestCalls  \* history: guest dispatches per occurrence

vars == <<journalVars, clock, task, spent, guestCalls>>

Owners == {1, 2}

\* What a pass read before an await and uses after it
Snapshots == [id : Occurrences, revision : Nat, runRevision : Nat]

Seen == [id : Automations, revision : Nat, updatedAt : Nat,
         cursor : Cursors \cup {None}]

Steps == {"down", "starting", "recovering", "recovered", "disabled", "loop",
          "sleep", "list", "begin", "dispatch", "guest", "complete", "tick",
          "retick", "candidates", "evaluate", "claiming", "owners", "pending"}

Tasks ==
  [pc : Steps, owner : Owners \cup {0}, stopping : BOOLEAN,
   second : BOOLEAN,                      \* the dispatch after execute_due
   bound : SUBSET Snapshots,              \* left of what the dispatch listed
   current : Snapshots \cup {None},       \* the run being dispatched
   completion : Completions \cup {None},
   fence : Nat, now : Nat, since : Nat,   \* lease held, its time, continuity
   first : BOOLEAN, initialized : BOOLEAN, materialized : BOOLEAN,
   seen : SUBSET Seen,                    \* left of the page evaluated
   owners : SUBSET Automations,           \* left of the page claimed for
   wanted : SUBSET Snapshots]             \* left of the pending ones listed

Down ==
  [pc |-> "down", owner |-> 0, stopping |-> FALSE, second |-> FALSE,
   bound |-> {}, current |-> None, completion |-> None, fence |-> 0, now |-> 0,
   since |-> 0, first |-> FALSE, initialized |-> FALSE, materialized |-> FALSE,
   seen |-> {}, owners |-> {}, wanted |-> {}]

Enter(pc) == [Down EXCEPT !.pc = pc, !.owner = task.owner,
                          !.stopping = task.stopping]

Init ==
  /\ JournalInit
  /\ clock = 0
  /\ task = Down
  /\ \E limit \in Limits :
       /\ spent = [limit |-> limit, regressions |-> 0, crashes |-> 0,
                   faults |-> 0, edits |-> 0]
       /\ limit.enabled = {a \in Automations : definition[a].enabled}
  /\ guestCalls = [o \in Occurrences |-> 0]

Left(bound) == spent[bound] < spent.limit[bound]

Spend(bound) == spent' = [spent EXCEPT ![bound] = @ + 1]

\* A store call answers, or fails although it committed.
Answers(ok, failed) ==
  \/ task' = ok /\ UNCHANGED spent
  \/ Left("faults") /\ task' = failed /\ Spend("faults")

Outside == UNCHANGED <<clock, guestCalls>>

-----------------------------------------------------------------------------
(* Startup. *)

\* main: a new instance identity, then one recovery pass
Boot ==
  /\ task.pc = "down"
  /\ \E owner \in Owners :
       /\ lease # None => lease.owner # owner
       /\ task' = [Down EXCEPT !.pc = "starting", !.owner = owner]
  /\ UNCHANGED <<journalVars, spent>> /\ Outside

SetLease(now) ==
  /\ lease' = LeaseAfter(task.owner, now)
  /\ UNCHANGED <<definition, projectActive, cursor, occurrence, run>>

\* What a pass holds once it has the lease
Holding(pc, now) ==
  [Enter(pc) EXCEPT !.fence = LeaseAfter(task.owner, now).fence, !.now = now,
                    !.since = ContinuityStartedAt(task.owner, now)]

\* recover_expired_claims: without the lease the task never starts.
RecoveryLease ==
  /\ task.pc = "starting"
  /\ IF Acquisition(task.owner, clock) = "Acquired"
       THEN /\ SetLease(clock)
            /\ Answers(Holding("recovering", clock), Enter("disabled"))
       ELSE /\ task' = Enter("disabled")
            /\ UNCHANGED <<journalVars, spent>>
  /\ Outside

Recover ==
  /\ task.pc = "recovering"
  /\ \E batch \in Batches(task.now, RecoveryBatch) :
       IF RecoverAccepted(batch, task.now)
         THEN /\ RecoverClaims(batch, task.now)
              /\ Answers(Enter(IF batch = Expired(task.now) THEN "recovered"
                                                            ELSE "disabled"),
                         Enter("disabled"))
         ELSE /\ task' = Enter("disabled")
              /\ UNCHANGED <<journalVars, spent>>
  /\ Outside

\* scheduler_runtime_eligible: a guest that is not ready now disables the
\* scheduler for the life of the daemon.
StartScheduler ==
  /\ task.pc = "recovered"
  /\ \E pc \in {"loop", "disabled"} : task' = Enter(pc)
  /\ UNCHANGED <<journalVars, spent>> /\ Outside

-----------------------------------------------------------------------------
(* The loop. *)

\* Nothing is done in a cycle that finds the isolated guest not ready.
LoopReady ==
  /\ task.pc = "loop" /\ ~task.stopping
  /\ task' = Enter("list")
  /\ UNCHANGED <<journalVars, spent>> /\ Outside

LoopNotReady ==
  /\ task.pc = "loop" /\ ~task.stopping
  /\ task' = Enter("sleep")
  /\ UNCHANGED <<journalVars, spent>> /\ Outside

LoopStops ==
  /\ task.pc \in {"loop", "sleep"} /\ task.stopping
  /\ task' = Down
  /\ UNCHANGED <<journalVars, spent>> /\ Outside

Sleep ==
  /\ task.pc = "sleep" /\ ~task.stopping
  /\ task' = Enter("loop")
  /\ UNCHANGED <<journalVars, spent>> /\ Outside

-----------------------------------------------------------------------------
(* dispatch_resumable *)

AfterDispatch == Enter(IF task.second \/ task.stopping THEN "sleep" ELSE "tick")

Dispatching(bound) ==
  [Enter("begin") EXCEPT !.second = task.second, !.bound = bound]

ListResumable ==
  /\ task.pc = "list"
  /\ \E listed \in SUBSET Resumable :
       /\ Cardinality(listed) = Min({Page, Cardinality(Resumable)})
       /\ task' = Dispatching({[id |-> o, revision |-> occurrence[o].revision,
                                runRevision |-> run[o].revision] : o \in listed})
  /\ UNCHANGED <<journalVars, spent>> /\ Outside

DispatchEnds ==
  /\ task.pc = "begin" /\ (task.bound = {} \/ task.stopping)
  /\ task' = AfterDispatch
  /\ UNCHANGED <<journalVars, spent>> /\ Outside

Begun(b) ==
  [Dispatching(task.bound \ {b}) EXCEPT !.pc = "dispatch", !.current = b]

\* Mutant: the run does not durably leave Queued before the guest is called.
BeginUnrecorded(b) ==
  UNCHANGED journalVars /\ Answers(Begun(b), AfterDispatch)

\* begin_automation_occurrence_run; a refused run is passed over.
Begin(b) ==
  IF BeginAccepted(b.id, b.revision, b.runRevision, clock)
    THEN BeginRun(b.id, clock) /\ Answers(Begun(b), AfterDispatch)
    ELSE /\ task' = Dispatching(task.bound \ {b})
         /\ UNCHANGED <<journalVars, spent>>

BeginNext ==
  /\ task.pc = "begin" /\ ~task.stopping
  /\ \E b \in task.bound : Begin(b)
  /\ Outside

Finishing(completion) ==
  [task EXCEPT !.pc = "complete", !.completion = completion]

CancelledBeforeGuest ==
  /\ task.pc = "dispatch" /\ task.stopping
  /\ task' = Finishing("Cancelled")
  /\ UNCHANGED <<journalVars, spent>> /\ Outside

CallGuest ==
  /\ task.pc = "dispatch" /\ ~task.stopping
  /\ task' = [task EXCEPT !.pc = "guest"]
  /\ guestCalls' = [guestCalls EXCEPT ![task.current.id] = @ + 1]
  /\ UNCHANGED <<journalVars, clock, spent>>

\* The guest answers, or its deadline or the shutdown ends the wait.
GuestReturns ==
  /\ task.pc = "guest"
  /\ \E completion \in {"Succeeded", "Failed", "InterruptedNeedsReview"} :
       task' = Finishing(completion)
  /\ UNCHANGED <<journalVars, spent>> /\ Outside

\* complete_automation_occurrence_run; an error abandons the pass.
Complete ==
  /\ task.pc = "complete"
  /\ LET o == task.current.id IN
     IF CompleteAccepted(o, task.current.revision, task.completion, clock)
       THEN /\ CompleteRun(o, task.completion, clock)
            /\ Answers(Dispatching(task.bound), AfterDispatch)
       ELSE /\ task' = AfterDispatch
            /\ UNCHANGED <<journalVars, spent>>
  /\ Outside

-----------------------------------------------------------------------------
(* execute_due *)

SecondDispatch == [Enter("list") EXCEPT !.second = TRUE]

FirstPage == {a \in Candidates :
                Cardinality({b \in Candidates : b < a}) < Page}

\* tick: the lease is acquired or renewed at the time observed here.
TickLease ==
  /\ task.pc \in {"tick", "retick"}
  /\ IF Acquisition(task.owner, clock) = "Acquired"
       THEN /\ SetLease(clock)
            /\ Answers([Holding("candidates", clock) EXCEPT !.first = task.pc = "tick"],
                       SecondDispatch)
       ELSE /\ task' = SecondDispatch
            /\ UNCHANGED <<journalVars, spent>>
  /\ Outside

\* list_automation_schedule_candidates: the page always starts at the first
\* definition.
ListCandidates ==
  /\ task.pc = "candidates"
  /\ task' = [task EXCEPT
                !.pc = "evaluate",
                !.seen = {[id |-> a, revision |-> definition[a].revision,
                           updatedAt |-> definition[a].updatedAt,
                           cursor |-> cursor[a]] : a \in FirstPage}]
  /\ UNCHANGED <<journalVars, spent>> /\ Outside

Evaluated(seen, initialized, materialized) ==
  [task EXCEPT !.seen = @ \ {seen}, !.initialized = @ \/ initialized,
               !.materialized = @ \/ materialized]

\* evaluate_candidate: any error ends execute_due.
EvaluateNew(seen) ==
  IF /\ seen.updatedAt <= task.now
     /\ EvaluationAccepted(seen.id, seen, task.owner, task.fence, task.now)
    THEN /\ InitializeCursor(seen.id, seen.updatedAt, task.now)
         /\ Answers(Evaluated(seen, TRUE, FALSE), SecondDispatch)
    ELSE task' = SecondDispatch /\ UNCHANGED <<journalVars, spent>>

EvaluateWindow(seen) ==
  LET through   == Min({seen.cursor.through + Window, task.now})
      proposals == Proposed(seen.id, seen.cursor.through, through, task.since)
  IN  IF /\ seen.cursor.through < task.now
         /\ Cardinality(proposals) <= MaxDecisions
         /\ EvaluationAccepted(seen.id, seen, task.owner, task.fence, task.now)
        THEN /\ AdvanceCursor(seen.id, through, proposals, task.now)
             /\ Answers(Evaluated(seen, FALSE, proposals # {}), SecondDispatch)
        ELSE task' = SecondDispatch /\ UNCHANGED <<journalVars, spent>>

EvaluateOne(seen) ==
  CASE seen.cursor = None -> EvaluateNew(seen)
    [] seen.cursor # None /\ seen.cursor.through = task.now ->
         /\ task' = Evaluated(seen, FALSE, FALSE)
         /\ UNCHANGED <<journalVars, spent>>
    [] OTHER -> EvaluateWindow(seen)

\* Definitions are evaluated in the order of their identifiers.
Evaluate ==
  /\ task.pc = "evaluate"
  /\ \E seen \in task.seen :
       (\A other \in task.seen : seen.id <= other.id) /\ EvaluateOne(seen)
  /\ Outside

\* A pass that only initialized cursors is repeated once.
TickEnds ==
  /\ task.pc = "evaluate" /\ task.seen = {}
  /\ task' = Enter(IF task.first /\ task.initialized /\ ~task.materialized
                     THEN "retick" ELSE "claiming")
  /\ UNCHANGED <<journalVars, spent>> /\ Outside

ClaimLease ==
  /\ task.pc = "claiming"
  /\ IF Acquisition(task.owner, clock) = "Acquired"
       THEN /\ SetLease(clock)
            /\ Answers(Holding("owners", clock), SecondDispatch)
       ELSE /\ task' = SecondDispatch
            /\ UNCHANGED <<journalVars, spent>>
  /\ Outside

ListOwners ==
  /\ task.pc = "owners"
  /\ task' = [task EXCEPT !.pc = "pending", !.owners = FirstPage]
  /\ UNCHANGED <<journalVars, spent>> /\ Outside

\* list_automation_occurrences: the oldest slots, whatever became of them
Listed(a) ==
  LET stored == {o \in Of(a) : occurrence[o] # None}
  IN  {o \in stored :
         Cardinality({p \in stored : Slot(p) < Slot(o)}) < ListLimit}

ListPending ==
  /\ task.pc = "pending" /\ task.wanted = {}
  /\ \E a \in task.owners :
       /\ \A b \in task.owners : a <= b
       /\ task' = [task EXCEPT
                     !.owners = @ \ {a},
                     !.wanted = {[id |-> o, revision |-> occurrence[o].revision,
                                  runRevision |-> 0] :
                                   o \in {p \in Listed(a) :
                                            InState(p, {"Pending"})}}]
  /\ UNCHANGED <<journalVars, spent>> /\ Outside

ClaimsEnd ==
  /\ task.pc = "pending" /\ task.wanted = {} /\ task.owners = {}
  /\ task' = SecondDispatch
  /\ UNCHANGED <<journalVars, spent>> /\ Outside

\* claim_and_bind_automation_occurrence; a refused claim is passed over.
Claim ==
  /\ task.pc = "pending"
  /\ \E w \in task.wanted :
       LET rest == [task EXCEPT !.wanted = @ \ {w}] IN
       IF ClaimAccepted(w.id, w.revision, task.owner, task.fence, task.now)
         THEN ClaimAndBind(w.id, task.now) /\ Answers(rest, SecondDispatch)
         ELSE task' = rest /\ UNCHANGED <<journalVars, spent>>
  /\ Outside

-----------------------------------------------------------------------------
(* The environment. *)

\* A store call fails without a commit.
ErrorContinuation ==
  CASE task.pc \in {"starting", "recovering"} -> Enter("disabled")
    [] task.pc \in {"list", "begin", "complete"} -> AfterDispatch
    [] OTHER -> SecondDispatch

StoreFails ==
  /\ task.pc \in {"starting", "recovering", "list", "begin", "complete",
                  "tick", "retick", "candidates", "evaluate", "claiming",
                  "owners", "pending"}
  /\ Left("faults")
  /\ task' = ErrorContinuation /\ Spend("faults")
  /\ UNCHANGED journalVars /\ Outside

Advance ==
  /\ clock < spent.limit.clock
  /\ clock' = clock + 1
  /\ UNCHANGED <<journalVars, task, spent, guestCalls>>

Regress ==
  /\ Left("regressions")
  /\ \E earlier \in 0..(clock - 1) : clock' = earlier
  /\ Spend("regressions")
  /\ UNCHANGED <<journalVars, task, guestCalls>>

Crash ==
  /\ task.pc # "down" /\ Left("crashes")
  /\ task' = Down /\ Spend("crashes")
  /\ UNCHANGED journalVars /\ Outside

\* AutomationSchedulerRuntime::shutdown
Shutdown ==
  /\ task.pc # "down" /\ ~task.stopping /\ Left("crashes")
  /\ task' = IF task.pc \in {"starting", "recovering", "recovered", "disabled"}
               THEN Down
             ELSE [task EXCEPT !.stopping = TRUE]
  /\ Spend("crashes")
  /\ UNCHANGED journalVars /\ Outside

\* save_automation: a definition with a cursor is immutable.
EditDefinition(a) ==
  /\ cursor[a] = None /\ Left("edits")
  /\ definition[a].updatedAt <= clock
  /\ \E enabled \in BOOLEAN :
       definition' = [definition EXCEPT ![a] =
                        [revision |-> @.revision + 1, enabled |-> enabled,
                         updatedAt |-> clock]]
  /\ Spend("edits")
  /\ UNCHANGED <<lease, projectActive, cursor, occurrence, run, task>> /\ Outside

ArchiveProject ==
  /\ projectActive /\ Left("edits")
  /\ projectActive' = FALSE
  /\ Spend("edits")
  /\ UNCHANGED <<lease, definition, cursor, occurrence, run, task>> /\ Outside

TaskStep ==
  \/ RecoveryLease \/ Recover \/ StartScheduler
  \/ LoopNotReady \/ LoopStops \/ Sleep
  \/ ListResumable \/ DispatchEnds \/ BeginNext \/ CancelledBeforeGuest
  \/ CallGuest \/ GuestReturns \/ Complete
  \/ TickLease \/ ListCandidates \/ Evaluate \/ TickEnds
  \/ ClaimLease \/ ListOwners \/ ListPending \/ ClaimsEnd \/ Claim

Environment ==
  \/ StoreFails \/ Advance \/ Regress \/ Crash \/ Shutdown \/ ArchiveProject
  \/ \E a \in Automations : EditDefinition(a)

Next == Boot \/ LoopReady \/ TaskStep \/ Environment

Spec == Init /\ [][Next]_vars

\* The runtime keeps polling the task, the supervisor starts the daemon again
\* and the isolated guest is found ready again and again.
FairSpec ==
  Spec /\ WF_vars(Boot) /\ WF_vars(TaskStep) /\ SF_vars(LoopReady)

-----------------------------------------------------------------------------
(* Properties. *)

\* Rows, runs and the clock have the shapes the schema allows.
TypeOK ==
  /\ JournalTypeOK
  /\ clock \in Nat
  /\ task \in Tasks
  /\ guestCalls \in [Occurrences -> Nat]

\* An automation has at most one active and one queued occurrence, and one is
\* queued only behind an active one that will free it.  So the unique indexes
\* of the schema never reject what adjudicate_overlap and promote_queued write.
OneActive ==
  \A a \in Automations :
    LET active == {o \in Of(a) : InState(o, ActiveStates)}
        queued == {o \in Of(a) : InState(o, {"QueuedOverlap"})}
    IN  /\ \A o, p \in active : o = p
        /\ \A o, p \in queued : o = p
        /\ queued # {} => active # {}

\* An occurrence reaches the guest at most once, across crashes, restarts,
\* store faults and clock corrections (dispatch_resumable).
GuestCalledOnce == \A o \in Occurrences : guestCalls[o] <= 1

\* The rows of an automation: slots in a gap, and slots that were due.
GapRows(a) == {o \in Of(a) : InState(o, {"SkippedInvalidLocalTime"})}

DueRows(a) == {o \in Of(a) : occurrence[o] # None} \ GapRows(a)

\* The slots its rows stand for: a row stands for as many as it counts.
Shares(a) == UNION {{o} \X (1..occurrence[o].count) : o \in DueRows(a)}

\* Every slot between activation and the cursor is accounted for exactly once:
\* by a row of its own, or in the count of the row its missed window collapsed
\* into; slots in a gap of the local clock have their own rows
\* (materialize_decisions, commit_evaluation).
SlotsAccounted ==
  \A a \in Automations :
    cursor[a] # None =>
      LET evaluated(slots) ==
            {s \in slots : definition[a].updatedAt < s /\ s <= cursor[a].through}
      IN /\ Cardinality(Shares(a)) = Cardinality(evaluated(Due[a]))
         /\ {Slot(o) : o \in GapRows(a)} = evaluated(Gaps[a])

\* A finished occurrence and its run tell the same outcome, and a linked one
\* has a live run (complete_occurrence_run, recover_claims).
RunAgrees ==
  \A o \in Occurrences :
    run[o] # None =>
      IF InState(o, {"RunLinked"}) THEN run[o].state \in {"Queued", "Running"}
      ELSE run[o].state = RunOutcome(occurrence[o].state)

Serving ==
  task.pc \notin {"down", "starting", "recovering", "recovered", "disabled"}

\* While the clock does not go back and the store answers, a scheduler that
\* serves has no run marked Running except the one it is dispatching: the
\* recovery pass before it settled what earlier daemons left behind.
NoneStranded ==
  Serving /\ spent.faults = 0 /\ spent.regressions = 0 => \A o \in Occurrences :
    run[o] # None /\ run[o].state = "Running" =>
      task.pc \in {"dispatch", "guest", "complete"} /\ task.current.id = o

\* Occurrences and runs agree while the scheduler serves and after it stopped.
RunsAccounted == TypeOK /\ RunAgrees /\ NoneStranded

Unsettled(o) == InState(o, {"Pending", "QueuedOverlap", "RunLinked"})

\* What the claiming pass can see of a definition: it never looks past the
\* first page of definitions, nor past the oldest rows of one, settled or not.
WithinReach(o) == Automation(o) \in FirstPage /\ o \in Listed(Automation(o))

\* The schedule is carried out as far as a pass reaches: a slot of a definition
\* on the first page is decided once its time has come, and an occurrence that
\* is linked, or due and among the oldest of such a definition, is settled,
\* unless the scheduler is disabled or the project archived.  What lies beyond
\* waits for ever: every pass starts again at the first definition and at the
\* oldest occurrence (execute_due, dispatch_resumable).
ScheduleProgresses ==
  /\ \A o \in Occurrences :
       (Unsettled(o) /\ (InState(o, {"RunLinked"}) \/ WithinReach(o))) ~>
         \/ ~Unsettled(o)
         \/ task.pc = "disabled" \/ Automation(o) \notin FirstPage
  /\ \A a \in Automations : \A s \in Due[a] :
       (a \in FirstPage /\ s > definition[a].updatedAt /\ clock >= s) ~>
         \/ cursor[a] # None /\ cursor[a].through >= s
         \/ task.pc = "disabled" \/ a \notin FirstPage
=============================================================================
