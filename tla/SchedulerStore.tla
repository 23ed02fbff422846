--------------------------- MODULE SchedulerStore ---------------------------
(***************************************************************************)
(* The scheduler's tables in the encrypted database, every call of the     *)
(* AutomationSchedulerStore port as a function of the tables, with the     *)
(* triggers, checks and unique indexes of the schema as guards.            *)
(*                                                                         *)
(* AutomationScheduler models what the daemon does with this journal; here *)
(* the port stands alone, command replays, claim attempts, claims without  *)
(* a run, edits of a definition and the skip history included.  A slot is  *)
(* the tick at which it falls; a slot in Gaps does not exist on the local  *)
(* clock.  The thread and the prompt of a dispatch are named by its run.   *)
(***************************************************************************)
EXTENDS Lifecycles, FiniteSets, SequencesExt

CONSTANTS Automations,    \* definitions, ordered by number
          Due, Gaps,      \* Automations -> slots
          MissedPolicy, OverlapPolicy,
          Keys,           \* idempotency keys of commands
          Runs,
          TTL,            \* longest lease and longest claim
          MaxAttempts,    \* claims of one occurrence
          None

Error(kind) == [error |-> kind]
IsError(x) == "error" \in DOMAIN x
Refuse(t, answer) == [tables |-> t, answer |-> answer]
Commit(t, answer) == [tables |-> t, answer |-> answer]

\* The steps of a transaction: the first that fails rolls it back.
Then(x, F(_)) == IF IsError(x) THEN x ELSE F(x)

Occurrences ==
  {o \in Automations \X UNION {Due[a] \cup Gaps[a] : a \in Automations} :
     o[2] \in Due[o[1]] \cup Gaps[o[1]]}
Automation(o) == o[1]
Slot(o) == o[2]
IsGap(o) == Slot(o) \in Gaps[Automation(o)]

ActiveStates == {"Pending", "Claimed", "RunLinked"}
FinalStates == {"Succeeded", "Failed", "SkippedMissed", "SkippedOverlap",
                "SkippedInvalidLocalTime", "InterruptedNeedsReview", "Cancelled"}

EmptyTables ==
  [lease |-> None,
   definitions |-> [a \in Automations |-> [revision |-> 0, updated |-> 0]],
   active |-> TRUE,
   cursors |-> [a \in Automations |-> None],
   commands |-> [k \in Keys |-> None],
   occurrences |-> [o \in Occurrences |-> None],
   origins |-> [o \in Occurrences |-> None],   \* evaluation and initial columns
   attempts |-> [o \in Occurrences |-> <<>>],
   dispatches |-> [o \in Occurrences |-> None],
   runs |-> [r \in Runs |-> None],
   history |-> [a \in Automations |-> <<>>]]

Stored(t, states) ==
  {o \in Occurrences : t.occurrences[o] # None /\ t.occurrences[o].state \in states}
StoredOf(t, a, states) == {o \in Stored(t, states) : Automation(o) = a}

-----------------------------------------------------------------------------
(* The occurrence aggregate. *)

\* reachable_shape
ReachableShape(o, row) ==
  LET claims == 2 * row.attempts
      odd == row.revision % 2 = 1
  IN /\ IsGap(o) <=> row.state = "SkippedInvalidLocalTime"
     /\ (row.claim # None) <=> row.state \in {"Claimed", "RunLinked"}
     /\ row.claim # None =>
          /\ row.claim.at < row.claim.expires
          /\ row.claim.expires - row.claim.at <= TTL
          /\ row.created <= row.claim.at /\ row.claim.at <= row.updated
     /\ row.run # None => row.state \in {"RunLinked", "Succeeded", "Failed",
                                         "InterruptedNeedsReview", "Cancelled"}
     /\ row.run = None => row.state \notin {"RunLinked", "Succeeded", "Failed"}
     /\ row.attempts = 0 =>
          row.run = None /\ row.state \notin {"Claimed", "InterruptedNeedsReview"}
     /\ row.state = "InterruptedNeedsReview" /\ row.run = None
          => row.attempts = MaxAttempts
     /\ CASE row.state \in {"Pending", "RunLinked"} -> row.revision >= claims /\ ~odd
          [] row.state = "Claimed" -> row.revision >= claims - 1 /\ odd
          [] row.state \in {"QueuedOverlap", "SkippedMissed", "SkippedOverlap"} ->
               row.revision > claims
          [] row.state \in {"Succeeded", "Failed", "InterruptedNeedsReview"} ->
               row.revision > claims /\ odd
          [] row.state = "Cancelled" ->
               row.revision >= IF row.run # None \/ row.attempts = 0
                                 THEN claims + 1 ELSE claims
          [] OTHER -> row.attempts = 0 /\ row.revision = 0

\* AutomationOccurrence::restore
Restorable(o, row) ==
  /\ row.count > 0 /\ row.attempts <= MaxAttempts /\ row.created <= row.updated
  /\ ReachableShape(o, row)

\* Every transition refuses a clock behind the row's and leaves no claim; a
\* claim and a link set theirs.
MovedTo(row, state, now) ==
  [row EXCEPT !.state = state, !.revision = @ + 1, !.claim = None, !.updated = now]
Move(row, from, state, now) ==
  IF row.state \notin from \/ now < row.updated THEN Error("Conflict")
  ELSE MovedTo(row, state, now)

\* AutomationOccurrence::claim
Claimed(o, row, token, at, expires) ==
  IF \/ row.state # "Pending" \/ at < Slot(o)
     \/ expires <= at \/ expires - at > TTL
     \/ row.attempts >= MaxAttempts \/ at < row.updated
    THEN Error("Conflict")
  ELSE [MovedTo(row, "Claimed", at) EXCEPT
          !.attempts = @ + 1,
          !.claim = [owner |-> token.owner, fence |-> token.fence,
                     at |-> at, expires |-> expires]]

\* AutomationOccurrence::link_run
Linked(row, token, run, now) ==
  IF \/ row.state # "Claimed"
     \/ row.claim.owner # token.owner \/ row.claim.fence # token.fence
     \/ now >= row.claim.expires \/ now < row.updated
    THEN Error("Conflict")
  ELSE [MovedTo(row, "RunLinked", now) EXCEPT !.claim = row.claim, !.run = run]

\* release_expired_claim
Released(row, now) ==
  IF row.state # "Claimed" \/ now < row.claim.expires THEN Error("Conflict")
  ELSE Move(row, {"Claimed"}, "Pending", now)

\* finish_linked and cancel, by the outcome of the run
Finished(row, state, now) ==
  IF state = "Cancelled" THEN Move(row, ActiveStates \cup {"QueuedOverlap"}, state, now)
  ELSE Move(row, {"RunLinked"}, state, now)

\* Run::transition
RunMoved(run, next, now) ==
  IF ~RunPermits(run.state, next) \/ now < run.updated THEN Error("Conflict")
  ELSE [state |-> next, revision |-> run.revision + 1, updated |-> now]

-----------------------------------------------------------------------------
(* The schema. *)

Edges ==
  {<<"Pending", s>> : s \in {"QueuedOverlap", "Claimed", "SkippedMissed",
                             "SkippedOverlap", "InterruptedNeedsReview", "Cancelled"}}
  \cup {<<"QueuedOverlap", s>> : s \in {"Pending", "SkippedOverlap", "Cancelled"}}
  \cup {<<"Claimed", s>> : s \in {"Pending", "RunLinked", "Cancelled"}}
  \cup {<<"RunLinked", s>> : s \in {"Succeeded", "Failed", "Cancelled",
                                    "InterruptedNeedsReview"}}

\* The checks of the table automation_occurrences.
RowAllowed(o, row) ==
  /\ IsGap(o) <=> row.state = "SkippedInvalidLocalTime"
  /\ IsGap(o) => row.count = 1 /\ row.revision = 0 /\ row.attempts = 0
  /\ (row.claim # None) <=> row.state \in {"Claimed", "RunLinked"}
  /\ row.claim # None => row.claim.expires - row.claim.at \in 1..TTL
  /\ row.state \in {"RunLinked", "Succeeded", "Failed"} => row.run # None
  /\ row.run # None => row.state \in {"RunLinked", "Succeeded", "Failed",
                                      "InterruptedNeedsReview", "Cancelled"}
  /\ row.state \in {"Claimed", "RunLinked", "Succeeded", "Failed"} => row.attempts > 0
  /\ row.state = "InterruptedNeedsReview" =>
       IF row.run = None THEN row.attempts = MaxAttempts ELSE row.attempts > 0
  /\ row.state \notin {"Pending", "SkippedInvalidLocalTime"} => row.revision > 0
  /\ row.state = "RunLinked" => row.revision >= 2
  /\ row.state \in {"Succeeded", "Failed"} => row.revision >= 3

\* automation_occurrences_validate_update
UpdateAllowed(t, old, new) ==
  /\ new.revision = old.revision + 1 /\ new.updated >= old.updated
  /\ <<old.state, new.state>> \in Edges
  /\ new.attempts = old.attempts + (IF new.state = "Claimed" THEN 1 ELSE 0)
  /\ IF new.state = "RunLinked" THEN old.run = None /\ new.run # None
     ELSE new.run = old.run
  /\ new.state = "Claimed" =>
       /\ t.lease # None
       /\ t.lease.owner = new.claim.owner /\ t.lease.fence = new.claim.fence
       /\ t.lease.acquired <= new.claim.at /\ new.claim.at < t.lease.expires
       /\ new.claim.expires <= t.lease.expires
  /\ old.state = "Claimed" /\ new.state = "Pending" => new.updated >= old.claim.expires

\* The unique indexes one_active and one_queued.
OneOf(t, o, state) ==
  LET others == {p \in Occurrences \ {o} :
                   Automation(p) = Automation(o) /\ t.occurrences[p] # None}
  IN /\ state \in ActiveStates =>
          \A p \in others : t.occurrences[p].state \notin ActiveStates
     /\ state = "QueuedOverlap" =>
          \A p \in others : t.occurrences[p].state # "QueuedOverlap"

\* update_occurrence
UpdateOccurrence(t, o, row) ==
  IF IsError(row) THEN row
  ELSE IF /\ UpdateAllowed(t, t.occurrences[o], row)
          /\ RowAllowed(o, row) /\ OneOf(t, o, row.state)
    THEN [t EXCEPT !.occurrences[o] = row]
  ELSE Error("Constraint")

\* insert_occurrence, with automation_occurrences_validate_insert
InsertOccurrence(t, o, row, key) ==
  IF /\ t.occurrences[o] = None
     /\ row.state \in {"Pending", "QueuedOverlap", "SkippedMissed",
                       "SkippedOverlap", "SkippedInvalidLocalTime"}
     /\ row.revision = IF row.state \in {"Pending", "SkippedInvalidLocalTime"}
                         THEN 0 ELSE 1
     /\ t.commands[key] # None /\ t.commands[key].a = Automation(o)
     /\ t.commands[key].cursor.updated = row.created
     /\ RowAllowed(o, row) /\ OneOf(t, o, row.state)
    THEN [t EXCEPT !.occurrences[o] = row,
                   !.origins[o] = [key |-> key, state |-> row.state,
                                   revision |-> row.revision]]
  ELSE Error("Constraint")

\* The insertion of a claim attempt, with its trigger.
InsertAttempt(t, o, c) ==
  LET row == t.occurrences[o]
      list == t.attempts[o]
  IN IF /\ \A i \in DOMAIN list : list[i].completed # None
        /\ row.state = "Claimed" /\ row.attempts = Len(list) + 1
        /\ \A p \in Occurrences : \A i \in DOMAIN t.attempts[p] :
             t.attempts[p][i].key # c.key
       THEN [t EXCEPT !.attempts[o] = Append(@,
               [key |-> c.key, print |-> c.print, claim |-> row.claim,
                completed |-> None, outcome |-> None, revision |-> row.revision])]
     ELSE Error("Constraint")

\* complete_open_attempt, with its trigger
CompleteOpenAttempt(t, o, now, outcome) ==
  LET row == t.occurrences[o]
      n == row.attempts
      list == t.attempts[o]
  IN IF n \notin DOMAIN list \/ list[n].completed # None THEN Error("Conflict")
     ELSE IF /\ now >= list[n].claim.at
             /\ outcome = "ExpiredUnlinked" =>
                  now >= list[n].claim.expires /\ row.state = "Pending"
             /\ outcome = "RunLinked" => row.state = "RunLinked"
             /\ outcome = "AttemptsExhausted" =>
                  row.state \in {"InterruptedNeedsReview", "Cancelled"}
       THEN [t EXCEPT !.attempts[o][n].completed = now, !.attempts[o][n].outcome = outcome]
     ELSE Error("Constraint")

-----------------------------------------------------------------------------
(* The lease. *)

\* scheduler_durable_clock_floor
ClockFloor(t) ==
  Max({0} \cup (IF t.lease = None THEN {} ELSE {t.lease.renewed})
      \cup UNION {{t.cursors[a].through, t.cursors[a].updated} :
                    a \in {b \in Automations : t.cursors[b] # None}}
      \cup {t.occurrences[o].updated : o \in {p \in Occurrences : t.occurrences[p] # None}}
      \cup UNION {{t.attempts[o][i].claim.at} \cup ({t.attempts[o][i].completed} \ {None}) :
                    <<o, i>> \in {x \in Occurrences \X (1..MaxAttempts) :
                                    x[2] \in DOMAIN t.attempts[x[1]]}})

\* AutomationSchedulerLease::acquire and take_over, and renew
NewLease(owner, fence, now, ttl) ==
  [owner |-> owner, fence |-> fence, acquired |-> now, renewed |-> now,
   expires |-> now + ttl]
Renewed(lease, now, ttl) == [lease EXCEPT !.renewed = now, !.expires = now + ttl]

\* automation_scheduler_lease_validate_insert and _update
LeaseAllowed(old, new) ==
  IF old = None THEN new.fence = 1 /\ new.acquired = new.renewed
  ELSE \/ /\ new.owner = old.owner /\ new.fence = old.fence
          /\ new.acquired = old.acquired
          /\ old.renewed <= new.renewed /\ new.renewed < old.expires
       \/ /\ new.fence > old.fence
          /\ new.acquired >= old.expires /\ new.renewed = new.acquired

SaveLease(t, lease, continuous, since) ==
  IF ~LeaseAllowed(t.lease, lease) THEN Refuse(t, Error("Constraint"))
  ELSE Commit([t EXCEPT !.lease = lease],
              [lease |-> lease, continuous |-> continuous, since |-> since])

AcquireLease(t, owner, now, ttl) ==
  IF ttl = 0 \/ ttl > TTL THEN Refuse(t, Error("Conflict"))
  ELSE IF now < ClockFloor(t) THEN Refuse(t, [regressed |-> ClockFloor(t)])
  ELSE IF t.lease = None THEN SaveLease(t, NewLease(owner, 1, now, ttl), FALSE, now)
  ELSE IF now >= t.lease.expires
    THEN SaveLease(t, NewLease(owner, t.lease.fence + 1, now, ttl), FALSE, now)
  ELSE IF t.lease.owner = owner
    THEN SaveLease(t, Renewed(t.lease, now, ttl), TRUE, t.lease.renewed)
  ELSE Refuse(t, [busy |-> t.lease])

\* ensure_live_lease
LiveLease(t, token, now) ==
  /\ t.lease # None
  /\ t.lease.owner = token.owner /\ t.lease.fence = token.fence
  /\ t.lease.acquired <= now /\ now < t.lease.expires

-----------------------------------------------------------------------------
(* Evaluation. *)

\* validate_occurrence_cardinality
CardinalityHolds(t) ==
  \A a \in Automations :
    /\ Cardinality(StoredOf(t, a, ActiveStates)) <= 1
    /\ Cardinality(StoredOf(t, a, {"QueuedOverlap"})) <=
         Cardinality(StoredOf(t, a, ActiveStates))

\* list_candidates, with validate_cursor_binding
ListCandidates(t, after, limit) ==
  IF limit = 0 THEN Error("Conflict")
  ELSE IF \E a \in Automations :
            t.cursors[a] # None /\ t.cursors[a].definition # t.definitions[a].revision
    THEN Error("Internal")
  ELSE LET due == {a \in Automations : t.active /\ a > after}
       IN [found |-> {<<a, t.definitions[a], t.cursors[a]>> :
             a \in {b \in due : Cardinality({c \in due : c < b}) < limit}}]

\* An occurrence as the calculator proposes it.
ProposedRow(p, observed) ==
  [state |-> p.state, count |-> p.count, claim |-> None, run |-> None,
   attempts |-> 0, revision |-> IF p.state = "SkippedMissed" THEN 1 ELSE 0,
   created |-> observed, updated |-> observed]

\* The checks of one proposal, which both stores make.
ProposalValid(a, p, through) ==
  /\ Restorable(<<a, p.slot>>, ProposedRow(p, 0))
  /\ p.state \in {"Pending", "SkippedMissed", "SkippedInvalidLocalTime"}
  /\ p.state = "SkippedMissed" => MissedPolicy[a] = "Skip"
  /\ p.count > 1 /\ MissedPolicy[a] = "Skip" => p.state = "SkippedMissed"
  /\ p.slot \notin Gaps[a] => p.slot <= through

\* validate_proposed_occurrences
ProposalsValid(a, proposals, prior, through) ==
  LET allowed == IF prior = None THEN {}
                 ELSE {s \in Due[a] \cup Gaps[a] : prior.through < s /\ s <= through}
  IN \A i \in DOMAIN proposals :
       /\ ProposalValid(a, proposals[i], through)
       /\ proposals[i].slot \in allowed
       /\ i > 1 => proposals[i - 1].slot < proposals[i].slot

\* The cursor a caller proposes, and the checks both stores make of it.
ProposedCursor(c) ==
  [definition |-> c.definition, through |-> c.through,
   revision |-> IF c.expected = None THEN 0 ELSE c.expected + 1,
   created |-> c.created, updated |-> c.observed]
CursorValid(t, c, prior) ==
  /\ c.created <= c.observed /\ c.through <= c.observed
  /\ c.expected = None <=> prior = None
  /\ IF prior = None
       THEN /\ c.created = c.observed /\ c.proposals = <<>>
            /\ c.through = t.definitions[c.a].updated
       ELSE /\ c.expected = prior.revision /\ c.created = prior.created
            /\ c.through >= prior.through /\ c.observed >= prior.updated

\* adjudicate_overlap
Adjudicate(t, a, row) ==
  IF row.state # "Pending" \/ StoredOf(t, a, ActiveStates) = {} THEN row
  ELSE IF OverlapPolicy[a] = "QueueOne" /\ StoredOf(t, a, {"QueuedOverlap"}) = {}
    THEN Move(row, {"Pending"}, "QueuedOverlap", row.updated)
  ELSE Move(row, {"Pending", "QueuedOverlap"}, "SkippedOverlap", row.updated)

\* append_skip_history
AppendSkipHistory(t, o, row) ==
  LET a == Automation(o)
      entry == [slot |-> Slot(o), recorded |-> row.created, status |-> row.state]
      same == {i \in DOMAIN t.history[a] : t.history[a][i].slot = Slot(o)}
  IN IF row.state \notin {"SkippedMissed", "SkippedOverlap"} THEN t
     ELSE IF same = {} THEN [t EXCEPT !.history[a] = Append(@, entry)]
     ELSE IF \A i \in same : t.history[a][i] = entry THEN t
     ELSE Error("Conflict")

\* automation_schedule_evaluation_commands_validate_insert
InsertEvaluation(t, c, row) ==
  LET prior == t.cursors[c.a]
  IN IF /\ LiveLease(t, c.token, c.observed)
        /\ t.active /\ t.definitions[c.a].revision = c.definition
        /\ IF c.expected = None THEN prior = None
           ELSE /\ prior # None
                /\ prior.definition = c.definition /\ prior.revision = c.expected
                /\ prior.through <= c.through /\ prior.updated <= c.observed
       THEN [t EXCEPT !.commands[c.key] = row]
     ELSE Error("Constraint")

\* persist_cursor, with the triggers of the cursor table
PersistCursor(t, c, cursor) ==
  LET old == t.cursors[c.a]
  IN IF /\ t.commands[c.key].cursor = cursor
        /\ old # None => /\ cursor.created = old.created
                         /\ cursor.revision = old.revision + 1
                         /\ cursor.through >= old.through
                         /\ cursor.updated >= old.updated
       THEN [t EXCEPT !.cursors[c.a] = cursor]
     ELSE Error("Constraint")

\* One turn of the loop over the proposals.
CommitProposal(t, c, p) ==
  LET o == <<c.a, p.slot>>
      row == Adjudicate(t, c.a, ProposedRow(p, c.observed))
      Log(u) == AppendSkipHistory(u, o, row)
  IN IF IsError(row) THEN row ELSE Then(InsertOccurrence(t, o, row, c.key), Log)

\* The row an evaluation inserted, which its replay answers.
InitialRow(t, o) ==
  LET row == t.occurrences[o]
  IN [row EXCEPT !.state = t.origins[o].state, !.revision = t.origins[o].revision,
                 !.claim = None, !.run = None, !.attempts = 0, !.updated = row.created]

\* query_evaluation_result
EvaluationResult(t, key) ==
  [cursor |-> [t.commands[key].cursor EXCEPT
                 !.created = t.cursors[t.commands[key].a].created],
   occurrences |-> [o \in {p \in Occurrences : t.origins[p] # None
                                  /\ t.origins[p].key = key} |-> InitialRow(t, o)]]

\* commit_evaluation
CommitEvaluation(t, c) ==
  LET known == t.commands[c.key]
      prior == t.cursors[c.a]
      cursor == ProposedCursor(c)
      Persist(u) == PersistCursor(u, c, cursor)
      One(u, p) == IF IsError(u) THEN u ELSE CommitProposal(u, c, p)
      All(u) == FoldLeft(One, u, c.proposals)
      committed == Then(Then(InsertEvaluation(t, c, [print |-> c.print, a |-> c.a,
                                                     cursor |-> cursor]),
                             Persist), All)
  IN IF known # None
       THEN Refuse(t, IF known.print = c.print /\ known.a = c.a
                        THEN EvaluationResult(t, c.key) ELSE Error("Conflict"))
     ELSE IF ~LiveLease(t, c.token, c.observed) THEN Refuse(t, Error("Conflict"))
     ELSE IF t.definitions[c.a].revision # c.definition \/ ~t.active
       THEN Refuse(t, Error("Conflict"))
     ELSE IF ~CardinalityHolds(t) THEN Refuse(t, Error("Internal"))
     ELSE IF prior # None /\ prior.definition # c.definition
       THEN Refuse(t, Error("Internal"))
     ELSE IF ~CursorValid(t, c, prior) \/ ~ProposalsValid(c.a, c.proposals, prior, c.through)
       THEN Refuse(t, Error("Conflict"))
     ELSE IF IsError(committed) THEN Refuse(t, committed)
     ELSE Commit(committed, EvaluationResult(committed, c.key))

-----------------------------------------------------------------------------
(* Claims and runs. *)

AttemptsOf(t, key) ==
  {x \in Occurrences \X (1..MaxAttempts) :
     x[2] \in DOMAIN t.attempts[x[1]] /\ t.attempts[x[1]][x[2]].key = key}

\* query_claim_result: the claimed row, rebuilt from its attempt
ClaimResult(t, o, n) ==
  LET attempt == t.attempts[o][n]
  IN [t.occurrences[o] EXCEPT
        !.state = "Claimed", !.claim = attempt.claim, !.run = None, !.attempts = n,
        !.revision = attempt.revision, !.updated = attempt.claim.at]

\* The part of both claims that writes the claim and its attempt.
WriteClaim(t, c) ==
  LET row == t.occurrences[c.o]
      Record(u) == InsertAttempt(u, c.o, c)
  IN IF ~LiveLease(t, c.token, c.at) \/ c.expires > t.lease.expires
       THEN Error("Conflict")
     ELSE IF row = None THEN Error("NotFound")
     ELSE IF row.revision # c.revision THEN Error("Conflict")
     ELSE Then(UpdateOccurrence(t, c.o, Claimed(c.o, row, c.token, c.at, c.expires)),
               Record)

\* claim_occurrence
ClaimOccurrence(t, c) ==
  LET known == AttemptsOf(t, c.key)
      claimed == WriteClaim(t, c)
  IN IF c.expires <= c.at \/ c.expires - c.at > TTL THEN Refuse(t, Error("Conflict"))
     ELSE IF known # {}
       THEN LET x == CHOOSE y \in known : TRUE
            IN Refuse(t, IF t.attempts[x[1]][x[2]].print = c.print /\ x[1] = c.o
                           THEN ClaimResult(t, x[1], x[2]) ELSE Error("Conflict"))
     ELSE IF IsError(claimed) THEN Refuse(t, claimed)
     ELSE Commit(claimed, claimed.occurrences[c.o])

\* query_dispatch_result
DispatchResult(t, o) ==
  LET run == t.dispatches[o].run
  IN [occurrence |-> t.occurrences[o], run |-> run, state |-> t.runs[run]]

\* link_run with its attempt closed
LinkRun(t, o, token, run, now) ==
  LET Close(u) == CompleteOpenAttempt(u, o, now, "RunLinked")
  IN Then(UpdateOccurrence(t, o, Linked(t.occurrences[o], token, run, now)), Close)

InsertRun(t, run, now) ==
  IF t.runs[run] # None THEN Error("Conflict")
  ELSE [t EXCEPT !.runs[run] = [state |-> "Queued", revision |-> 0, updated |-> now]]

\* The dispatch row, with automation_occurrence_dispatches_validate_insert.
InsertDispatch(t, c) ==
  LET row == t.occurrences[c.o]
      attempt == t.attempts[c.o][row.attempts]
  IN IF /\ t.dispatches[c.o] = None
        /\ row.state = "RunLinked" /\ row.run = c.run
        /\ attempt.outcome = "RunLinked" /\ attempt.print = c.print
        /\ t.runs[c.run].state = "Queued" /\ t.runs[c.run].revision = 0
       THEN [t EXCEPT !.dispatches[c.o] = [run |-> c.run, claim |-> row.attempts]]
     ELSE Error("Constraint")

\* claim_and_bind_occurrence
ClaimAndBind(t, c) ==
  LET known == AttemptsOf(t, c.key)
      Run(u) == InsertRun(u, c.run, c.at)
      Link(u) == LinkRun(u, c.o, c.token, c.run, c.at)
      Bind(u) == InsertDispatch(u, c)
      bound == Then(Then(Then(WriteClaim(t, c), Run), Link), Bind)
  IN IF c.expires <= c.at \/ c.expires - c.at > TTL THEN Refuse(t, Error("Conflict"))
     ELSE IF known # {}
       THEN LET x == CHOOSE y \in known : TRUE
            IN Refuse(t, IF /\ t.dispatches[x[1]] # None
                            /\ t.dispatches[x[1]].claim = x[2]
                            /\ t.attempts[x[1]][x[2]].print = c.print
                            /\ x[1] = c.o /\ t.dispatches[x[1]].run = c.run
                           THEN DispatchResult(t, c.o) ELSE Error("Conflict"))
     ELSE IF t.occurrences[c.o] # None
             /\ (t.occurrences[c.o].state # "Pending" \/ ~t.active)
       THEN Refuse(t, Error("Conflict"))
     ELSE IF IsError(bound) THEN Refuse(t, bound)
     ELSE Commit(bound, DispatchResult(bound, c.o))

\* link_occurrence_run
LinkOccurrenceRun(t, c) ==
  LET row == t.occurrences[c.o]
      linked == LinkRun(t, c.o, c.token, c.run, c.now)
  IN IF ~LiveLease(t, c.token, c.now) THEN Refuse(t, Error("Conflict"))
     ELSE IF row = None THEN Refuse(t, Error("NotFound"))
     ELSE IF row.revision # c.revision \/ t.runs[c.run] = None
       THEN Refuse(t, Error("Conflict"))
     ELSE IF IsError(linked) THEN Refuse(t, linked)
     ELSE Commit(linked, linked.occurrences[c.o])

\* Queued, Planning, Running in one transaction
BegunRun(run, now) ==
  IF IsError(RunMoved(run, "Planning", now)) THEN Error("Conflict")
  ELSE RunMoved(RunMoved(run, "Planning", now), "Running", now)

\* begin_occurrence_run
BeginOccurrenceRun(t, c) ==
  LET row == t.occurrences[c.o]
      begun == [t EXCEPT !.runs[c.run] = BegunRun(t.runs[c.run], c.now)]
  IN IF t.dispatches[c.o] = None THEN Refuse(t, Error("NotFound"))
     ELSE IF \/ t.dispatches[c.o].run # c.run
             \/ row.state # "RunLinked" \/ row.revision # c.revision \/ row.run # c.run
             \/ t.runs[c.run].state # "Queued" \/ t.runs[c.run].revision # c.runRevision
             \/ IsError(BegunRun(t.runs[c.run], c.now))
       THEN Refuse(t, Error("Conflict"))
     ELSE Commit(begun, DispatchResult(begun, c.o))

\* promote_queued
PromoteQueued(t, a, now) ==
  LET queued == StoredOf(t, a, {"QueuedOverlap"})
      o == CHOOSE p \in queued : TRUE
  IN IF queued = {} THEN t
     ELSE UpdateOccurrence(t, o, Move(t.occurrences[o], {"QueuedOverlap"}, "Pending", now))

OccurrenceOutcome(run) ==
  CASE run = "Completed" -> "Succeeded" [] OTHER -> run

\* complete_occurrence_run
CompleteOccurrenceRun(t, c) ==
  LET row == t.occurrences[c.o]
      moved == RunMoved(t.runs[c.run], c.outcome, c.now)
      Promote(u) == PromoteQueued(u, Automation(c.o), c.now)
      settled == Then(UpdateOccurrence([t EXCEPT !.runs[c.run] = moved], c.o,
                        Finished(row, OccurrenceOutcome(c.outcome), c.now)), Promote)
  IN IF t.dispatches[c.o] = None \/ t.dispatches[c.o].run # c.run
       THEN Refuse(t, Error("Conflict"))
     ELSE IF \/ t.runs[c.run].state # "Running" \/ row.revision # c.revision
             \/ row.run # c.run \/ IsError(moved)
       THEN Refuse(t, Error("Conflict"))
     ELSE IF IsError(settled) THEN Refuse(t, settled)
     ELSE Commit(settled, settled.occurrences[c.o])

-----------------------------------------------------------------------------
(* Recovery and inspection. *)

Resumable(t, o) ==
  /\ t.dispatches[o] # None /\ t.dispatches[o].run = t.occurrences[o].run
  /\ t.runs[t.occurrences[o].run].state = "Queued"

\* ensure_linked_attempt_evidence
LinkEvidence(t, o, now) ==
  LET n == t.occurrences[o].attempts
  IN IF /\ n \in DOMAIN t.attempts[o]
        /\ t.attempts[o][n].outcome = "RunLinked" /\ t.attempts[o][n].completed <= now
       THEN t ELSE Error("Internal")

\* A claim that expired before its run was linked.
RecoverClaimed(t, o, now) ==
  LET released == UpdateOccurrence(t, o, Released(t.occurrences[o], now))
      Exhaust(u) == UpdateOccurrence(u, o, Move(u.occurrences[o], {"Pending"},
                                                "InterruptedNeedsReview", now))
      CloseWith(u, outcome) == CompleteOpenAttempt(u, o, now, outcome)
      CloseExhausted(u) == CloseWith(u, "AttemptsExhausted")
      CloseReleased(u) == CloseWith(u, "ExpiredUnlinked")
      Promote(u) == PromoteQueued(u, Automation(o), now)
  IN IF t.occurrences[o].attempts >= MaxAttempts
       THEN Then(Then(Then(released, Exhaust), CloseExhausted), Promote)
     ELSE Then(released, CloseReleased)

\* A run whose owner is gone.
RecoverLinked(t, o, now) ==
  LET run == t.occurrences[o].run
      settled == RunIsTerminal(t.runs[run].state)
                   \/ t.runs[run].state = "InterruptedNeedsReview"
      moved == RunMoved(t.runs[run], "InterruptedNeedsReview", now)
      interrupted == IF settled THEN t
                     ELSE IF IsError(moved) THEN moved
                     ELSE [t EXCEPT !.runs[run] = moved]
      Finish(u) == UpdateOccurrence(u, o,
                     Finished(u.occurrences[o], OccurrenceOutcome(u.runs[run].state), now))
      Evidence(u) == LinkEvidence(u, o, now)
      Promote(u) == PromoteQueued(u, Automation(o), now)
  IN Then(Then(Then(interrupted, Finish), Evidence), Promote)

Expired(t, now) ==
  {o \in Stored(t, {"Claimed", "RunLinked"}) : t.occurrences[o].claim.expires <= now}

\* ORDER BY claim_expires_at, id LIMIT limit
RecoveryBatch(t, now, limit) ==
  LET Before(o, p) ==
        LET x == t.occurrences[o].claim.expires
            y == t.occurrences[p].claim.expires
        IN x < y \/ (x = y /\ (o[1] < p[1] \/ (o[1] = p[1] /\ o[2] < p[2])))
      list == SetToSortSeq(Expired(t, now), Before)
  IN SubSeq(list, 1, IF Len(list) < limit THEN Len(list) ELSE limit)

\* recover_claims
RecoverClaims(t, token, now, limit) ==
  LET batch == RecoveryBatch(t, now, limit)
      One(u, o) == IF IsError(u) THEN u
                   ELSE IF u.occurrences[o].state = "Claimed" THEN RecoverClaimed(u, o, now)
                   ELSE IF Resumable(u, o) THEN u
                   ELSE RecoverLinked(u, o, now)
      recovered == FoldLeft(One, t, batch)
      In(state, attempts) ==
        Cardinality({i \in DOMAIN batch :
          /\ t.occurrences[batch[i]].state = state
          /\ recovered.occurrences[batch[i]].state \in attempts})
  IN IF limit = 0 \/ ~LiveLease(t, token, now) THEN Refuse(t, Error("Conflict"))
     ELSE IF ~CardinalityHolds(t) THEN Refuse(t, Error("Internal"))
     ELSE IF IsError(recovered) THEN Refuse(t, recovered)
     ELSE Commit(recovered,
            [released |-> In("Claimed", {"Pending"}),
             exhausted |-> In("Claimed", {"InterruptedNeedsReview"}),
             resumable |-> In("RunLinked", {"RunLinked"}),
             interrupted |-> In("RunLinked", {"InterruptedNeedsReview"}),
             truncated |-> Cardinality(Expired(t, now)) > limit])

\* The first of a set of occurrences by slot, after one of them.
PageOf(set, after, limit) ==
  {o \in set : /\ after # None => Slot(after) < Slot(o)
               /\ Cardinality({p \in set : /\ after # None => Slot(after) < Slot(p)
                                           /\ Slot(p) < Slot(o)}) < limit}

\* list_occurrences
ListOccurrences(t, a, after, limit) ==
  IF ~CardinalityHolds(t) THEN Error("Internal")
  ELSE IF after # None /\ (t.occurrences[after] = None \/ Automation(after) # a)
    THEN Error("NotFound")
  ELSE IF limit = 0 THEN Error("Conflict")
  ELSE [page |-> [o \in PageOf(StoredOf(t, a, ActiveStates \cup FinalStates
                                               \cup {"QueuedOverlap"}), after, limit) |->
                    t.occurrences[o]]]

\* list_resumable_dispatches
ListResumable(t) ==
  [dispatches |-> [o \in {p \in Stored(t, {"RunLinked"}) : Resumable(t, p)} |->
                     DispatchResult(t, o)]]

\* journal_status
JournalStatus(t) ==
  IF ~CardinalityHolds(t) THEN Error("Internal")
  ELSE [lease |-> t.lease,
        cursors |-> Cardinality({a \in Automations : t.cursors[a] # None}),
        counts |-> [s \in ActiveStates \cup {"QueuedOverlap", "InterruptedNeedsReview"} |->
                      Cardinality(Stored(t, {s}))]]

\* automations_require_scheduler_rebase
EditDefinition(t, a, now) ==
  IF t.cursors[a] # None THEN Refuse(t, Error("Constraint"))
  ELSE Commit([t EXCEPT !.definitions[a] = [revision |-> @.revision + 1, updated |-> now]],
              [revision |-> t.definitions[a].revision + 1])

-----------------------------------------------------------------------------
(* The in-memory store's scheduler journal: the same port over maps, one   *)
(* lock held for a whole call, every write staged before the first is      *)
(* applied.  A command keeps the result it answered, a dispatch the thread *)
(* and the run it bound.                                                   *)

EmptyMaps ==
  [lease |-> None,
   definitions |-> [a \in Automations |-> [revision |-> 0, updated |-> 0]],
   active |-> TRUE,
   cursors |-> [a \in Automations |-> None],
   evaluations |-> [k \in Keys |-> None],
   claims |-> [k \in Keys |-> None],
   occurrences |-> [o \in Occurrences |-> None],
   attempts |-> [o \in Occurrences |-> <<>>],
   dispatches |-> [o \in Occurrences |-> None],
   runs |-> [r \in Runs |-> None],
   history |-> [a \in Automations |-> <<>>]]

MemAcquireLease(m, owner, now, ttl) ==
  LET Save(lease, continuous, since) ==
        Commit([m EXCEPT !.lease = lease],
               [lease |-> lease, continuous |-> continuous, since |-> since])
  IN IF ttl = 0 \/ ttl > TTL THEN Refuse(m, Error("Conflict"))
     ELSE IF now < ClockFloor(m) THEN Refuse(m, [regressed |-> ClockFloor(m)])
     ELSE IF m.lease = None THEN Save(NewLease(owner, 1, now, ttl), FALSE, now)
     ELSE IF now < m.lease.expires
       THEN IF m.lease.owner # owner THEN Refuse(m, [busy |-> m.lease])
            ELSE Save(Renewed(m.lease, now, ttl), TRUE, m.lease.renewed)
     ELSE Save(NewLease(owner, m.lease.fence + 1, now, ttl), FALSE, now)

\* require_automation_scheduler_lease: also refuses a clock behind the renewal
MemLiveLease(m, token, now) ==
  /\ m.lease # None
  /\ m.lease.owner = token.owner /\ m.lease.fence = token.fence
  /\ m.lease.renewed <= now /\ now < m.lease.expires

\* matching_automation_schedule_cursor
CursorMatches(m, a) ==
  m.cursors[a] # None => m.cursors[a].definition = m.definitions[a].revision

MemListCandidates(m, after, limit) ==
  LET due == {a \in Automations : m.active /\ a > after}
      page == {a \in due : Cardinality({b \in due : b < a}) < limit}
  IN IF limit = 0 THEN Error("Conflict")
     ELSE IF \E a \in page : ~CursorMatches(m, a) THEN Error("Internal")
     ELSE [found |-> {<<a, m.definitions[a], m.cursors[a]>> : a \in page}]

\* The cursor the store expects, AutomationScheduleCursor::new or advance.
ExpectedCursor(m, c) ==
  LET prior == m.cursors[c.a]
  IN IF prior = None
       THEN IF c.through > c.observed THEN Error("Conflict")
            ELSE [definition |-> m.definitions[c.a].revision, through |-> c.through,
                  revision |-> 0, created |-> c.observed, updated |-> c.observed]
     ELSE IF c.through < prior.through \/ c.through > c.observed
             \/ c.observed < prior.updated
       THEN Error("Conflict")
     ELSE [prior EXCEPT !.through = c.through, !.revision = @ + 1, !.updated = c.observed]

CountOf(m, a, states) == Cardinality(StoredOf(m, a, states))

\* One turn of the loop that stages the proposals: the counts of active and
\* queued occurrences are carried along.
StageProposal(m, c, s, p) ==
  LET o == <<c.a, p.slot>>
      row == ProposedRow(p, c.observed)
      prior == m.cursors[c.a]
      outside == \/ prior = None \/ p.slot \notin Due[c.a] \cup Gaps[c.a]
                 \/ p.slot <= prior.through \/ p.slot > c.through
      queue == OverlapPolicy[c.a] = "QueueOne" /\ s.queued = 0
      Staged(actual, active, queued) ==
        [s EXCEPT !.rows = Append(@, <<o, actual>>), !.last = p.slot,
                  !.active = active, !.queued = queued]
  IN IF IsError(s) THEN s
     ELSE IF \/ ~ProposalValid(c.a, p, c.through) \/ s.last >= p.slot
             \/ outside \/ m.occurrences[o] # None
       THEN Error("Conflict")
     ELSE IF row.state # "Pending" THEN Staged(row, s.active, s.queued)
     ELSE IF s.active = 0 THEN Staged(row, 1, s.queued)
     ELSE IF queue THEN Staged(MovedTo(row, "QueuedOverlap", c.observed), s.active, 1)
     ELSE Staged(MovedTo(row, "SkippedOverlap", c.observed), s.active, s.queued)

\* stage_scheduler_history
StageHistory(h, o, row) ==
  LET entry == [slot |-> Slot(o), recorded |-> row.created, status |-> row.state]
      same == {i \in DOMAIN h : h[i].slot = Slot(o)}
  IN IF row.state \notin {"SkippedMissed", "SkippedOverlap"} THEN h
     ELSE IF same = {} THEN Append(h, entry)
     ELSE h

\* The history refuses a slot recorded otherwise.
HistoryAgrees(h, rows) ==
  \A j \in DOMAIN rows : \A i \in DOMAIN h :
    h[i].slot = Slot(rows[j][1])
      /\ rows[j][2].state \in {"SkippedMissed", "SkippedOverlap"}
      => h[i].recorded = rows[j][2].created /\ h[i].status = rows[j][2].state

MemCommitEvaluation(m, c) ==
  LET known == m.evaluations[c.key]
      cursor == ExpectedCursor(m, c)
      active == CountOf(m, c.a, ActiveStates)
      queued == CountOf(m, c.a, {"QueuedOverlap"})
      Stage(s, p) == StageProposal(m, c, s, p)
      staged == FoldLeft(Stage, [rows |-> <<>>, last |-> 0 - 1,
                                 active |-> active, queued |-> queued], c.proposals)
      Log(h, x) == StageHistory(h, x[1], x[2])
      rows == staged.rows
      RowOf(o) == rows[CHOOSE i \in DOMAIN rows : rows[i][1] = o][2]
      new == {rows[i][1] : i \in DOMAIN rows}
      result == [cursor |-> cursor, occurrences |-> [o \in new |-> RowOf(o)]]
  IN IF known # None
       THEN Refuse(m, IF known.print = c.print /\ known.a = c.a
                        THEN known.result ELSE Error("Conflict"))
     ELSE IF ~MemLiveLease(m, c.token, c.observed) THEN Refuse(m, Error("Conflict"))
     ELSE IF m.definitions[c.a].revision # c.definition \/ ~m.active
       THEN Refuse(m, Error("Conflict"))
     ELSE IF ~CursorMatches(m, c.a) THEN Refuse(m, Error("Internal"))
     ELSE IF c.expected # (IF m.cursors[c.a] = None THEN None
                           ELSE m.cursors[c.a].revision)
       THEN Refuse(m, Error("Conflict"))
     ELSE IF m.cursors[c.a] = None
             /\ (c.through # m.definitions[c.a].updated \/ c.proposals # <<>>)
       THEN Refuse(m, Error("Conflict"))
     ELSE IF IsError(cursor) \/ cursor # ProposedCursor(c)
       THEN Refuse(m, Error("Conflict"))
     ELSE IF active > 1 \/ queued > 1 \/ (active = 0 /\ queued # 0)
       THEN Refuse(m, Error("Internal"))
     ELSE IF IsError(staged) \/ ~HistoryAgrees(m.history[c.a], rows)
       THEN Refuse(m, Error("Conflict"))
     ELSE Commit([m EXCEPT !.cursors[c.a] = cursor,
                           !.occurrences = [o \in Occurrences |->
                              IF o \in new THEN RowOf(o) ELSE @[o]],
                           !.history[c.a] = FoldLeft(Log, @, rows),
                           !.evaluations[c.key] = [print |-> c.print, a |-> c.a,
                                                   result |-> result]],
                 result)

-----------------------------------------------------------------------------

\* validate_claim_attempt_sequence
AttemptsValid(m, o) ==
  LET row == m.occurrences[o]
      list == m.attempts[o]
      open == {i \in DOMAIN list : list[i].completed = None}
      sealed == open = {} /\ list # <<>> /\ list[Len(list)].outcome = "RunLinked"
  IN /\ Len(list) = row.attempts
     /\ \A i \in open : i = row.attempts /\ row.claim = list[i].claim
     /\ CASE row.state = "Claimed" -> Cardinality(open) = 1
          [] row.state = "RunLinked" -> Cardinality(open) = 1 \/ sealed
          [] OTHER -> open = {}

\* complete_claim_attempt, of the occurrence as it was
MemCompleteAttempt(m, o, completed, outcome) ==
  LET n == Len(m.attempts[o])
  IN IF ~AttemptsValid(m, o) \/ n = 0 \/ m.attempts[o][n].completed # None
       THEN Error("Internal")
     ELSE [m EXCEPT !.attempts[o][n].completed = completed,
                    !.attempts[o][n].outcome = outcome]

NewAttempt(c, row, completed, outcome) ==
  [print |-> c.print, claim |-> row.claim, completed |-> completed, outcome |-> outcome]

\* The checks of both claims.
MemClaimRefused(m, c) ==
  LET row == m.occurrences[c.o]
  IN IF ~MemLiveLease(m, c.token, c.at) THEN "Conflict"
     ELSE IF c.expires <= c.at \/ c.expires - c.at > TTL \/ c.expires > m.lease.expires
       THEN "Conflict"
     ELSE IF row = None THEN "NotFound"
     ELSE IF row.revision # c.revision \/ row.state # "Pending" THEN "Conflict"
     ELSE IF ~AttemptsValid(m, c.o) THEN "Internal"
     ELSE IF IsError(Claimed(c.o, row, c.token, c.at, c.expires)) THEN "Conflict"
     ELSE "Allowed"

MemClaimOccurrence(m, c) ==
  LET known == m.claims[c.key]
      refused == MemClaimRefused(m, c)
      row == Claimed(c.o, m.occurrences[c.o], c.token, c.at, c.expires)
  IN IF known # None
       THEN Refuse(m, IF known.print = c.print /\ known.o = c.o
                        THEN known.result ELSE Error("Conflict"))
     ELSE IF refused # "Allowed" THEN Refuse(m, Error(refused))
     ELSE Commit([m EXCEPT !.occurrences[c.o] = row,
                           !.attempts[c.o] = Append(@, NewAttempt(c, row, None, None)),
                           !.claims[c.key] = [print |-> c.print, o |-> c.o, result |-> row]],
                 row)

MemClaimAndBind(m, c) ==
  LET known == m.claims[c.key]
      refused == MemClaimRefused(m, c)
      claimed == Claimed(c.o, m.occurrences[c.o], c.token, c.at, c.expires)
      row == Linked(claimed, c.token, c.run, c.at)
      run == [state |-> "Queued", revision |-> 0, updated |-> c.at]
      result == [occurrence |-> row, run |-> c.run, state |-> run]
  IN IF known # None
       THEN Refuse(m, IF known.print # c.print \/ known.o # c.o THEN Error("Conflict")
                      ELSE IF m.dispatches[c.o] = None THEN Error("Internal")
                      ELSE m.dispatches[c.o])
     ELSE IF refused # "Allowed" THEN Refuse(m, Error(refused))
     ELSE IF ~m.active \/ m.runs[c.run] # None \/ m.dispatches[c.o] # None
       THEN Refuse(m, Error("Conflict"))
     ELSE Commit([m EXCEPT !.runs[c.run] = run, !.occurrences[c.o] = row,
                           !.attempts[c.o] = Append(@, NewAttempt(c, row, c.at, "RunLinked")),
                           !.claims[c.key] = [print |-> c.print, o |-> c.o,
                                              result |-> claimed],
                           !.dispatches[c.o] = result],
                 result)

MemLinkOccurrenceRun(m, c) ==
  LET old == m.occurrences[c.o]
      row == Linked(old, c.token, c.run, c.now)
      closed == MemCompleteAttempt(m, c.o, c.now, "RunLinked")
  IN IF ~MemLiveLease(m, c.token, c.now) THEN Refuse(m, Error("Conflict"))
     ELSE IF old = None THEN Refuse(m, Error("NotFound"))
     ELSE IF old.revision # c.revision \/ m.runs[c.run] = None \/ IsError(row)
       THEN Refuse(m, Error("Conflict"))
     ELSE IF IsError(closed) THEN Refuse(m, closed)
     ELSE Commit([closed EXCEPT !.occurrences[c.o] = row], row)

MemBeginOccurrenceRun(m, c) ==
  LET row == m.occurrences[c.o]
      run == BegunRun(m.runs[c.run], c.now)
  IN IF m.dispatches[c.o] = None \/ m.runs[c.run] = None THEN Refuse(m, Error("NotFound"))
     ELSE IF \/ m.dispatches[c.o].run # c.run
             \/ row.state # "RunLinked" \/ row.revision # c.revision \/ row.run # c.run
             \/ m.runs[c.run].state # "Queued" \/ m.runs[c.run].revision # c.runRevision
             \/ IsError(run)
       THEN Refuse(m, Error("Conflict"))
     ELSE Commit([m EXCEPT !.runs[c.run] = run, !.dispatches[c.o].state = run],
                 [occurrence |-> row, run |-> c.run, state |-> run])

\* The queued occurrence of an automation, promoted.
MemPromoted(m, a, now) ==
  LET queued == StoredOf(m, a, {"QueuedOverlap"})
      o == CHOOSE p \in queued : TRUE
      row == Move(m.occurrences[o], {"QueuedOverlap"}, "Pending", now)
  IN IF queued = {} THEN m
     ELSE IF Cardinality(queued) > 1 \/ IsError(row) THEN Error("Conflict")
     ELSE [m EXCEPT !.occurrences[o] = row]

MemCompleteOccurrenceRun(m, c) ==
  LET old == m.occurrences[c.o]
      run == RunMoved(m.runs[c.run], c.outcome, c.now)
      row == Finished(old, OccurrenceOutcome(c.outcome), c.now)
      promoted == MemPromoted(m, Automation(c.o), c.now)
  IN IF m.runs[c.run] = None \/ old = None THEN Refuse(m, Error("NotFound"))
     ELSE IF \/ m.runs[c.run].state # "Running" \/ old.revision # c.revision
             \/ old.run # c.run \/ IsError(run)
       THEN Refuse(m, Error("Conflict"))
     ELSE IF IsError(row) \/ IsError(promoted) THEN Refuse(m, Error("Conflict"))
     ELSE IF m.dispatches[c.o] = None THEN Refuse(m, Error("Internal"))
     ELSE Commit([promoted EXCEPT !.occurrences[c.o] = row, !.runs[c.run] = run,
                                  !.dispatches[c.o].occurrence = row,
                                  !.dispatches[c.o].state = run],
                 row)

\* A binding follows its occurrence and its run.
Rebound(m, o) ==
  IF m.dispatches[o] = None THEN m
  ELSE [m EXCEPT !.dispatches[o].occurrence = m.occurrences[o],
                 !.dispatches[o].state = m.runs[m.dispatches[o].run]]

\* Mutant: the queued occurrence stays behind an occurrence that needs review.
MemSettleAlone(m, o, row, now) == Rebound([m EXCEPT !.occurrences[o] = row], o)

\* The next occurrence is promoted only when this one needs review.
MemSettle(m, o, row, now) ==
  LET promoted == IF row.state = "InterruptedNeedsReview"
                    THEN MemPromoted(m, Automation(o), now) ELSE m
  IN IF IsError(promoted) THEN promoted
     ELSE Rebound([promoted EXCEPT !.occurrences[o] = row], o)

MemRecoverClaimed(m, o, now) ==
  LET released == Released(m.occurrences[o], now)
      exhausted == released.attempts = MaxAttempts
      row == IF exhausted THEN Move(released, {"Pending"}, "InterruptedNeedsReview", now)
             ELSE released
      closed == MemCompleteAttempt(m, o, now,
                  IF exhausted THEN "AttemptsExhausted" ELSE "ExpiredUnlinked")
  IN IF IsError(released) \/ IsError(row) THEN Error("Internal")
     ELSE IF IsError(closed) THEN closed
     ELSE MemSettle(closed, o, row, now)

MemRecoverLinked(m, o, now) ==
  LET run == m.occurrences[o].run
      settled == RunIsTerminal(m.runs[run].state)
                   \/ m.runs[run].state = "InterruptedNeedsReview"
      moved == IF settled THEN m.runs[run]
               ELSE RunMoved(m.runs[run], "InterruptedNeedsReview", now)
      row == Finished(m.occurrences[o], OccurrenceOutcome(moved.state), now)
      list == m.attempts[o]
      sealed == list # <<>> /\ list[Len(list)].outcome = "RunLinked"
      closed == IF sealed THEN m ELSE MemCompleteAttempt(m, o, now, "RunLinked")
  IN IF IsError(moved) \/ IsError(row) THEN Error("Internal")
     ELSE IF IsError(closed) THEN closed
     ELSE MemSettle([closed EXCEPT !.runs[run] = moved], o, row, now)

MemRecoverClaims(m, token, now, limit) ==
  LET batch == RecoveryBatch(m, now, limit)
      One(u, o) == IF IsError(u) THEN u
                   ELSE IF u.occurrences[o].state = "Claimed"
                     THEN MemRecoverClaimed(u, o, now)
                   ELSE IF Resumable(u, o) THEN u
                   ELSE MemRecoverLinked(u, o, now)
      recovered == FoldLeft(One, m, batch)
      In(state, states) ==
        Cardinality({i \in DOMAIN batch :
          /\ m.occurrences[batch[i]].state = state
          /\ recovered.occurrences[batch[i]].state \in states})
  IN IF limit = 0 \/ ~MemLiveLease(m, token, now) THEN Refuse(m, Error("Conflict"))
     ELSE IF IsError(recovered) THEN Refuse(m, recovered)
     ELSE Commit(recovered,
            [released |-> In("Claimed", {"Pending"}),
             exhausted |-> In("Claimed", {"InterruptedNeedsReview"}),
             resumable |-> In("RunLinked", {"RunLinked"}),
             interrupted |-> In("RunLinked", {"InterruptedNeedsReview"}),
             truncated |-> Cardinality(Expired(m, now)) > limit])

-----------------------------------------------------------------------------

MemListOccurrences(m, a, after, limit) ==
  LET all == StoredOf(m, a, ActiveStates \cup FinalStates \cup {"QueuedOverlap"})
  IN IF limit = 0 THEN Error("Conflict")
     ELSE IF \E o \in all : ~Restorable(o, m.occurrences[o]) THEN Error("Internal")
     ELSE IF after # None /\ after \notin all THEN Error("NotFound")
     ELSE [page |-> [o \in PageOf(all, after, limit) |-> m.occurrences[o]]]

MemListResumable(m) ==
  [dispatches |-> [o \in {p \in Stored(m, {"RunLinked"}) : Resumable(m, p)} |->
                     [occurrence |-> m.occurrences[o], run |-> m.dispatches[o].run,
                      state |-> m.runs[m.dispatches[o].run]]]]

MemJournalStatus(m) ==
  IF \E o \in Occurrences : m.occurrences[o] # None
       /\ (~Restorable(o, m.occurrences[o]) \/ ~AttemptsValid(m, o))
    THEN Error("Internal")
  ELSE [lease |-> m.lease,
        cursors |-> Cardinality({a \in Automations : m.cursors[a] # None}),
        counts |-> [s \in ActiveStates \cup {"QueuedOverlap", "InterruptedNeedsReview"} |->
                      Cardinality(Stored(m, {s}))]]

\* save_automation: a definition with a cursor is not edited
MemEditDefinition(m, a, now) ==
  IF m.cursors[a] # None THEN Refuse(m, Error("Conflict"))
  ELSE Commit([m EXCEPT !.definitions[a] = [revision |-> @.revision + 1, updated |-> now]],
              [revision |-> m.definitions[a].revision + 1])

-----------------------------------------------------------------------------
(* The same calls of the AutomationSchedulerStore port, legal or not, in   *)
(* every order on the encrypted database and on the in-memory store.       *)
(*                                                                         *)
(* Left out, since the two stores differ there: a lease used at a time     *)
(* before its renewal (the database compares with the acquisition only),   *)
(* a run that another port finished before recovery finds it (only the     *)
(* database then promotes the queued occurrence), and a claim repeated     *)
(* under its key with another run or as a claim of the other kind.         *)

CONSTANTS Owners,
          LeaseTimes, ClaimTimes, RunTimes, RecoveryTimes,   \* when calls are made
          Evaluations,    \* the key, the times and the proposals of evaluations
          RunOf,          \* Keys -> Runs, the run a claim command binds
          OtherRun        \* a run created through another port

Outcomes == {"Completed", "Failed", "Cancelled", "InterruptedNeedsReview"}

Calls ==
  [op : {"acquire"}, owner : Owners, now : LeaseTimes, ttl : {0, TTL}]
  \cup [op : {"candidates"}, after : {0, 1}, limit : {0, 1}]
  \cup [op : {"evaluate"}, a : Automations, stale : BOOLEAN, is : Evaluations]
  \cup [op : {"claim", "bind"}, key : Keys, o : Occurrences, stale : BOOLEAN,
        at : ClaimTimes, lasts : {1}]
  \cup [op : {"link", "begin"}, o : Occurrences, stale : BOOLEAN, now : RunTimes]
  \cup [op : {"complete"}, o : Occurrences, stale : BOOLEAN, now : RunTimes,
        outcome : Outcomes]
  \cup [op : {"recover"}, stale : BOOLEAN, now : RecoveryTimes, limit : {1}]
  \cup [op : {"list"}, a : Automations, after : Occurrences \cup {None}]
  \cup [op : {"create", "resumable", "status", "archive"}]
  \cup [op : {"edit"}, a : Automations, now : LeaseTimes]

\* What the caller loaded before it calls: the fence, the revisions and the
\* bound run, or one behind.
Behind(n, stale) == IF stale THEN n + 1 ELSE n
TokenOf(s, stale) ==
  IF s.lease = None THEN [owner |-> CHOOSE w \in Owners : TRUE, fence |-> 1]
  ELSE [owner |-> s.lease.owner, fence |-> Behind(s.lease.fence, stale)]
RevisionOf(s, o, stale) ==
  IF s.occurrences[o] = None THEN 0 ELSE Behind(s.occurrences[o].revision, stale)
BoundRun(s, o) ==
  IF s.occurrences[o] = None \/ s.occurrences[o].run = None THEN OtherRun
  ELSE s.occurrences[o].run
RunRevision(s, o) ==
  IF s.runs[BoundRun(s, o)] = None THEN 0 ELSE s.runs[BoundRun(s, o)].revision

Evaluation(s, c) ==
  [key |-> c.is.key, a |-> c.a, token |-> TokenOf(s, FALSE), print |-> <<c.a, c.is>>,
   observed |-> c.is.observed, through |-> c.is.through, proposals |-> c.is.proposals,
   definition |-> Behind(s.definitions[c.a].revision, c.stale),
   expected |-> IF s.cursors[c.a] = None THEN None ELSE s.cursors[c.a].revision,
   created |-> IF s.cursors[c.a] = None THEN c.is.observed
               ELSE s.cursors[c.a].created]
Claim(s, c) ==
  [key |-> c.key, print |-> <<c.op, c.o>>, o |-> c.o, token |-> TokenOf(s, c.stale),
   revision |-> RevisionOf(s, c.o, FALSE), at |-> c.at, expires |-> c.at + c.lasts,
   run |-> RunOf[c.key]]
Run(s, c) ==
  [o |-> c.o, token |-> TokenOf(s, FALSE), revision |-> RevisionOf(s, c.o, c.stale),
   run |-> IF c.op = "link" THEN OtherRun ELSE BoundRun(s, c.o),
   runRevision |-> RunRevision(s, c.o), now |-> c.now,
   outcome |-> IF c.op = "complete" THEN c.outcome ELSE None]

\* A lease is used only from its renewal on.
BeforeRenewal(s, c) ==
  /\ s.lease # None
  /\ CASE c.op = "evaluate" -> c.is.observed < s.lease.renewed
       [] c.op \in {"claim", "bind"} -> c.at < s.lease.renewed
       [] c.op \in {"link", "recover"} -> c.now < s.lease.renewed
       [] OTHER -> FALSE

CreateRun(s) ==
  LET created == InsertRun(s, OtherRun, 0)
  IN IF IsError(created) THEN Refuse(s, created) ELSE Commit(created, [created |-> TRUE])
Archive(s) == Commit([s EXCEPT !.active = FALSE], [archived |-> TRUE])

OnTables(t, c) ==
  IF BeforeRenewal(t, c) THEN Refuse(t, Error("Unsent"))
  ELSE CASE c.op = "acquire" -> AcquireLease(t, c.owner, c.now, c.ttl)
         [] c.op = "candidates" -> Refuse(t, ListCandidates(t, c.after, c.limit))
         [] c.op = "evaluate" -> CommitEvaluation(t, Evaluation(t, c))
         [] c.op = "claim" -> ClaimOccurrence(t, Claim(t, c))
         [] c.op = "bind" -> ClaimAndBind(t, Claim(t, c))
         [] c.op = "link" -> LinkOccurrenceRun(t, Run(t, c))
         [] c.op = "create" -> CreateRun(t)
         [] c.op = "begin" -> BeginOccurrenceRun(t, Run(t, c))
         [] c.op = "complete" -> CompleteOccurrenceRun(t, Run(t, c))
         [] c.op = "recover" -> RecoverClaims(t, TokenOf(t, c.stale), c.now, c.limit)
         [] c.op = "list" -> Refuse(t, ListOccurrences(t, c.a, c.after, 1))
         [] c.op = "resumable" -> Refuse(t, ListResumable(t))
         [] c.op = "status" -> Refuse(t, JournalStatus(t))
         [] c.op = "archive" -> Archive(t)
         [] c.op = "edit" -> EditDefinition(t, c.a, c.now)

OnMaps(m, c) ==
  IF BeforeRenewal(m, c) THEN Refuse(m, Error("Unsent"))
  ELSE CASE c.op = "acquire" -> MemAcquireLease(m, c.owner, c.now, c.ttl)
         [] c.op = "candidates" -> Refuse(m, MemListCandidates(m, c.after, c.limit))
         [] c.op = "evaluate" -> MemCommitEvaluation(m, Evaluation(m, c))
         [] c.op = "claim" -> MemClaimOccurrence(m, Claim(m, c))
         [] c.op = "bind" -> MemClaimAndBind(m, Claim(m, c))
         [] c.op = "link" -> MemLinkOccurrenceRun(m, Run(m, c))
         [] c.op = "create" -> CreateRun(m)
         [] c.op = "begin" -> MemBeginOccurrenceRun(m, Run(m, c))
         [] c.op = "complete" -> MemCompleteOccurrenceRun(m, Run(m, c))
         [] c.op = "recover" -> MemRecoverClaims(m, TokenOf(m, c.stale), c.now, c.limit)
         [] c.op = "list" -> Refuse(m, MemListOccurrences(m, c.a, c.after, 1))
         [] c.op = "resumable" -> Refuse(m, MemListResumable(m))
         [] c.op = "status" -> Refuse(m, MemJournalStatus(m))
         [] c.op = "archive" -> Archive(m)
         [] c.op = "edit" -> MemEditDefinition(m, c.a, c.now)

\* The edit of a definition is tried once.
Bounded(s) == \A a \in Automations : s.definitions[a].revision <= 1

Same(x, y) == IF IsError(x) \/ IsError(y) THEN IsError(x) /\ IsError(y) ELSE x = y

\* What both stores keep.
SharedAttempt(x) ==
  [print |-> x.print, claim |-> x.claim, completed |-> x.completed, outcome |-> x.outcome]
Shared(s) ==
  [lease |-> s.lease, cursors |-> s.cursors, occurrences |-> s.occurrences,
   attempts |-> [o \in Occurrences |->
                   [i \in DOMAIN s.attempts[o] |-> SharedAttempt(s.attempts[o][i])]],
   bound |-> {o \in Occurrences : s.dispatches[o] # None},
   runs |-> s.runs, history |-> s.history, definitions |-> s.definitions]

\* Whatever sequence of calls was made, the two journals hold the same lease,
\* cursors, occurrences, attempts, runs and history and give the next call
\* the same answer.
Agree(t, m) == Shared(t) = Shared(m)

\* Whatever is called in whatever order: every row can be loaded again, the
\* attempts account for every claim and only a claimed occurrence has an open
\* one, an active occurrence is alone and a queued one waits behind it, and
\* each dispatch binds the run its occurrence was linked to.
JournalSound(t) ==
  /\ CardinalityHolds(t)
  /\ \A o \in Occurrences : t.occurrences[o] # None =>
       /\ Restorable(o, t.occurrences[o])
       /\ Len(t.attempts[o]) = t.occurrences[o].attempts
       /\ \A i \in DOMAIN t.attempts[o] :
            t.attempts[o][i].completed = None
              <=> t.occurrences[o].state = "Claimed" /\ i = Len(t.attempts[o])
  /\ \A o \in Occurrences : t.dispatches[o] # None =>
       t.dispatches[o].run = t.occurrences[o].run
=============================================================================
