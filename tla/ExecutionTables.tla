--------------------------- MODULE ExecutionTables ---------------------------
(***************************************************************************)
(* The ExecutionStore port as the encrypted database implements it: runs   *)
(* with their event streams, approvals, side effects and the command       *)
(* journal.  Each operation is one transaction, an operator from the       *)
(* tables and its arguments to the tables it leaves and its answer.        *)
(*                                                                         *)
(* A run is [thread, host, state, revision, created, updated], where host  *)
(* says that it is Work bound to the host-direct backend; an approval      *)
(* [run, status, revision, created]; an effect [run, kind, state,          *)
(* revision, created].  Identifiers are integers, so that lists have their *)
(* order.                                                                  *)
(***************************************************************************)
EXTENDS Lifecycles, Integers, Sequences, SequencesExt, FiniteSetsExt

CONSTANTS Runs, Approvals, Effects, Keys, None

Refuse(t, answer) == [tables |-> t, answer |-> answer]
Commit(t, answer) == [tables |-> t, answer |-> answer]
Error(e) == [error |-> e]
IsError(a) == "error" \in DOMAIN a

EmptyTables ==
  [runs |-> [r \in Runs |-> None], events |-> [r \in Runs |-> <<>>],
   approvals |-> [a \in Approvals |-> None], effects |-> [e \in Effects |-> None],
   commands |-> [k \in Keys |-> None]]

\* A transaction that failed leaves nothing behind.
Transacted(t, new, answer) == IF IsError(new) THEN Refuse(t, new) ELSE Commit(new, answer)

-----------------------------------------------------------------------------
(* The journal. *)

ResolveExecution(t, c) ==
  IF t.commands[c.key] = None THEN [is |-> "Unknown"]
  ELSE IF t.commands[c.key].print # c.print THEN Error("Conflict")
  ELSE t.commands[c.key].outcome

\* A replay answers the recorded outcome, if it is of the kind asked for.
Replayed(t, c, is) ==
  LET found == ResolveExecution(t, c)
  IN IF IsError(found) \/ found.is = is THEN found ELSE Error("Internal")

IsReplay(t, c) == t.commands[c.key] # None

Recorded(t, c, outcome) ==
  IF IsError(t) THEN t
  ELSE [t EXCEPT !.commands[c.key] = [print |-> c.print, outcome |-> outcome]]

-----------------------------------------------------------------------------
(* Rows. *)

InsertRun(t, r, row) ==
  IF t.runs[r] # None THEN Error("Conflict") ELSE [t EXCEPT !.runs[r] = row]

UpdateRun(t, r, row, expected) ==
  IF IsError(t) THEN t
  ELSE IF t.runs[r] = None \/ row.revision # expected + 1 THEN Error("Conflict")
  ELSE IF t.runs[r].revision # expected THEN Error("Conflict")
  ELSE [t EXCEPT !.runs[r] = row]

InsertApproval(t, a, row) ==
  IF IsError(t) THEN t
  ELSE IF t.approvals[a] # None \/ t.runs[row.run] = None THEN Error("Conflict")
  ELSE [t EXCEPT !.approvals[a] = row]

UpdateApproval(t, a, row, expected) ==
  IF t.approvals[a] = None \/ row.revision # expected + 1 THEN Error("Conflict")
  ELSE IF t.approvals[a].revision # expected THEN Error("Conflict")
  ELSE [t EXCEPT !.approvals[a] = row]

InsertEffect(t, e, row) ==
  IF t.effects[e] # None \/ t.runs[row.run] = None THEN Error("Conflict")
  ELSE [t EXCEPT !.effects[e] = row]

UpdateEffect(t, e, row, expected) ==
  IF t.effects[e] = None \/ row.revision # expected + 1 THEN Error("Conflict")
  ELSE IF t.effects[e].revision # expected THEN Error("Conflict")
  ELSE [t EXCEPT !.effects[e] = row]

\* Events take the next sequence numbers of their run.
AppendEvents(t, r, kinds) ==
  IF IsError(t) THEN t
  ELSE LET base == Len(t.events[r]) IN
       [t EXCEPT !.events[r] =
          @ \o [i \in 1..Len(kinds) |-> [sequence |-> base + i, kind |-> kinds[i]]]]

-----------------------------------------------------------------------------
(* Operations. *)

RunIs(row) == [is |-> "Run", row |-> row]
ApprovalIs(row) == [is |-> "Approval", row |-> row]

CreateRun(t, r, row, c) ==
  IF IsReplay(t, c) THEN Refuse(t, Replayed(t, c, "Run"))
  ELSE Transacted(t,
         Recorded(AppendEvents(InsertRun(t, r, row), r, <<"created">>), c, RunIs(row)),
         RunIs(row))

SaveRun(t, r, row, expected, c) ==
  IF IsReplay(t, c) THEN Refuse(t, Replayed(t, c, "Run"))
  ELSE Transacted(t,
         Recorded(AppendEvents(UpdateRun(t, r, row, expected), r, <<row.state>>), c, RunIs(row)),
         RunIs(row))

CreateApproval(t, a, row, r, run, expected, c) ==
  IF IsReplay(t, c) THEN Refuse(t, Replayed(t, c, "Approval"))
  ELSE LET moved == UpdateRun(t, r, run, expected)
           asked == IF IsError(moved) THEN moved
                    ELSE IF row.run # r THEN Error("Conflict")
                    ELSE InsertApproval(moved, a, row)
       IN Transacted(t,
            Recorded(AppendEvents(asked, r, <<"asked", run.state>>), c, ApprovalIs(row)),
            ApprovalIs(row))

\* run is None when the decision leaves the run alone.
DecideApproval(t, a, row, expected, r, run, runExpected, c) ==
  IF IsReplay(t, c) THEN Refuse(t, Replayed(t, c, "Approval"))
  ELSE LET decided == UpdateApproval(t, a, row, expected)
           moved == IF run = None \/ IsError(decided) THEN decided
                    ELSE IF r # row.run THEN Error("Conflict")
                    ELSE AppendEvents(UpdateRun(decided, r, run, runExpected), r, <<run.state>>)
       IN Transacted(t, Recorded(moved, c, ApprovalIs(row)), ApprovalIs(row))

Done == [is |-> "Done"]

CreateEffect(t, e, row) ==
  Transacted(t, AppendEvents(InsertEffect(t, e, row), row.run, <<"prepared">>), Done)

SaveEffect(t, e, row, expected) == Transacted(t, UpdateEffect(t, e, row, expected), Done)

InterruptEffect(t, e, row, expected, r, run, runExpected) ==
  IF row.run # r THEN Refuse(t, Error("Conflict"))
  ELSE LET moved == UpdateRun(UpdateEffect(t, e, row, expected), r, run, runExpected)
       IN Transacted(t, AppendEvents(moved, r, <<"interrupted", run.state>>), Done)

-----------------------------------------------------------------------------
(* Reads. *)

Present(rows) == {i \in DOMAIN rows : rows[i] # None}
FirstOf(s, limit) == SubSeq(s, 1, Min({limit, Len(s)}))

\* ORDER BY a key and then the identifier
Oldest(rows, ids, limit) ==
  FirstOf(SetToSortSeq(ids, LAMBDA x, y :
            \/ rows[x].created < rows[y].created
            \/ rows[x].created = rows[y].created /\ x < y), limit)
Latest(rows, ids, limit) ==
  FirstOf(SetToSortSeq(ids, LAMBDA x, y :
            \/ rows[x].updated > rows[y].updated
            \/ rows[x].updated = rows[y].updated /\ x < y), limit)

RecoveryLimit == 1..1000
ListLimit == 1..100

ListRecoverableHostEffects(t, limit) ==
  IF limit \notin RecoveryLimit THEN Error("Internal")
  ELSE [list |-> Oldest(t.effects,
     {e \in Present(t.effects) : /\ t.effects[e].kind \in {"FileWrite", "ProcessExecution"}
                                 /\ t.effects[e].state \in {"Prepared", "Executing"}
                                 /\ t.runs[t.effects[e].run].host}, limit)]

ListRecoverableHostRuns(t, limit) ==
  IF limit \notin RecoveryLimit THEN Error("Internal")
  ELSE [list |-> Oldest(t.runs,
     {r \in Present(t.runs) : t.runs[r].host /\ ~RunIsTerminal(t.runs[r].state)}, limit)]

\* thread is None to list all of them.
ListHostWorkRuns(t, limit, thread) ==
  IF limit \notin ListLimit THEN Error("Internal")
  ELSE [list |-> Latest(t.runs,
     {r \in Present(t.runs) : t.runs[r].host /\ thread \in {None, t.runs[r].thread}}, limit)]

\* The newest of the pending ones, the lowest identifier first.
PendingApproval(t, r) ==
  IF t.runs[r] = None THEN Error("NotFound")
  ELSE LET pending == {a \in Present(t.approvals) :
                         t.approvals[a].run = r /\ t.approvals[a].status = "Pending"}
           newest == {a \in pending : \A b \in pending :
                        t.approvals[b].created <= t.approvals[a].created}
       IN [pending |-> IF pending = {} THEN {} ELSE {Min(newest)}]

EventsSince(t, r, after, limit) ==
  IF t.runs[r] = None THEN Error("NotFound")
  ELSE [list |-> FirstOf(SelectSeq(t.events[r], LAMBDA x : x.sequence > after), limit)]

-----------------------------------------------------------------------------
(* The ExecutionStore port as the in-memory store implements it, over maps *)
(* under one lock: every check comes before the first insertion, since     *)
(* nothing rolls back.                                                     *)

PriorExecution(m, c) ==
  IF m.commands[c.key] = None THEN [is |-> "Unknown"]
  ELSE IF m.commands[c.key].print = c.print THEN m.commands[c.key].outcome
  ELSE Error("Conflict")

\* run_outcome and approval_outcome
Outcome(found, is) ==
  IF IsError(found) \/ found.is = is THEN found ELSE Error("Internal")

Streamed(events, r, kinds) ==
  [events EXCEPT ![r] =
     @ \o [i \in 1..Len(kinds) |-> [sequence |-> Len(events[r]) + i, kind |-> kinds[i]]]]

Kept(m, c, outcome) ==
  [m EXCEPT !.commands[c.key] = [print |-> c.print, outcome |-> outcome]]

\* Whether new follows the row now stored.
Follows(row, expected, new) == row.revision = expected /\ new.revision = expected + 1

MemCreateRun(m, r, row, c) ==
  IF PriorExecution(m, c) # [is |-> "Unknown"]
    THEN Refuse(m, Outcome(PriorExecution(m, c), "Run"))
  ELSE IF m.runs[r] # None THEN Refuse(m, Error("Conflict"))
  ELSE Commit(Kept([m EXCEPT !.runs[r] = row, !.events = Streamed(@, r, <<"created">>)],
                   c, RunIs(row)), RunIs(row))

MemSaveRun(m, r, row, expected, c) ==
  IF PriorExecution(m, c) # [is |-> "Unknown"]
    THEN Refuse(m, Outcome(PriorExecution(m, c), "Run"))
  ELSE IF m.runs[r] = None THEN Refuse(m, Error("NotFound"))
  ELSE IF ~Follows(m.runs[r], expected, row) THEN Refuse(m, Error("Conflict"))
  ELSE Commit(Kept([m EXCEPT !.runs[r] = row, !.events = Streamed(@, r, <<row.state>>)],
                   c, RunIs(row)), RunIs(row))

MemCreateApproval(m, a, row, r, run, expected, c) ==
  IF PriorExecution(m, c) # [is |-> "Unknown"]
    THEN Refuse(m, Outcome(PriorExecution(m, c), "Approval"))
  ELSE IF m.runs[r] = None THEN Refuse(m, Error("NotFound"))
  ELSE IF \/ ~Follows(m.runs[r], expected, run)
          \/ m.approvals[a] # None
          \/ row.run # r
    THEN Refuse(m, Error("Conflict"))
  ELSE Commit(Kept([m EXCEPT !.runs[r] = run, !.approvals[a] = row,
                             !.events = Streamed(@, r, <<"asked", run.state>>)],
                   c, ApprovalIs(row)), ApprovalIs(row))

MemDecideApproval(m, a, row, expected, r, run, runExpected, c) ==
  IF PriorExecution(m, c) # [is |-> "Unknown"]
    THEN Refuse(m, Outcome(PriorExecution(m, c), "Approval"))
  ELSE IF m.approvals[a] = None THEN Refuse(m, Error("NotFound"))
  ELSE IF ~Follows(m.approvals[a], expected, row) THEN Refuse(m, Error("Conflict"))
  ELSE IF run = None
    THEN Commit(Kept([m EXCEPT !.approvals[a] = row], c, ApprovalIs(row)), ApprovalIs(row))
  ELSE IF m.runs[r] = None THEN Refuse(m, Error("NotFound"))
  ELSE IF ~Follows(m.runs[r], runExpected, run) \/ r # row.run
    THEN Refuse(m, Error("Conflict"))
  ELSE Commit(Kept([m EXCEPT !.approvals[a] = row, !.runs[r] = run,
                             !.events = Streamed(@, r, <<run.state>>)],
                   c, ApprovalIs(row)), ApprovalIs(row))

MemCreateEffect(m, e, row) ==
  IF m.effects[e] # None THEN Refuse(m, Error("Conflict"))
  ELSE IF m.runs[row.run] = None THEN Refuse(m, Error("NotFound"))
  ELSE Commit([m EXCEPT !.effects[e] = row, !.events = Streamed(@, row.run, <<"prepared">>)],
              Done)

MemSaveEffect(m, e, row, expected) ==
  IF m.effects[e] = None THEN Refuse(m, Error("NotFound"))
  ELSE IF ~Follows(m.effects[e], expected, row) THEN Refuse(m, Error("Conflict"))
  ELSE Commit([m EXCEPT !.effects[e] = row], Done)

MemInterruptEffect(m, e, row, expected, r, run, runExpected) ==
  IF m.effects[e] = None \/ m.runs[r] = None THEN Refuse(m, Error("NotFound"))
  ELSE IF \/ ~Follows(m.effects[e], expected, row)
          \/ ~Follows(m.runs[r], runExpected, run)
          \/ row.run # r
    THEN Refuse(m, Error("Conflict"))
  ELSE Commit([m EXCEPT !.effects[e] = row, !.runs[r] = run,
                        !.events = Streamed(@, r, <<"interrupted", run.state>>)], Done)

-----------------------------------------------------------------------------
(* Reads: filter, sort and truncate the map's values. *)

MemListRecoverableHostEffects(m, limit) ==
  IF limit \notin RecoveryLimit THEN Error("Internal")
  ELSE [list |-> Oldest(m.effects,
     {e \in Present(m.effects) :
        /\ m.effects[e].kind \in {"FileWrite", "ProcessExecution"}
        /\ m.effects[e].state \in {"Prepared", "Executing"}
        /\ m.runs[m.effects[e].run] # None
        /\ m.runs[m.effects[e].run].host}, limit)]

MemListRecoverableHostRuns(m, limit) ==
  IF limit \notin RecoveryLimit THEN Error("Internal")
  ELSE [list |-> Oldest(m.runs,
     {r \in Present(m.runs) : m.runs[r].host /\ ~RunIsTerminal(m.runs[r].state)}, limit)]

MemListHostWorkRuns(m, limit, thread) ==
  IF limit \notin ListLimit THEN Error("Internal")
  ELSE [list |-> Latest(m.runs,
     {r \in Present(m.runs) : m.runs[r].host /\ (thread = None \/ m.runs[r].thread = thread)},
     limit)]

\* The newest, and of equally new ones the highest identifier.
MemPendingApproval(m, r) ==
  IF m.runs[r] = None THEN Error("NotFound")
  ELSE LET pending == {a \in Present(m.approvals) :
                         m.approvals[a].run = r /\ m.approvals[a].status = "Pending"}
           newest == {a \in pending : \A b \in pending :
                        m.approvals[b].created <= m.approvals[a].created}
       IN [pending |-> IF pending = {} THEN {} ELSE {Max(newest)}]

MemEventsSince(m, r, after, limit) ==
  IF m.runs[r] = None THEN Error("NotFound")
  ELSE [list |-> FirstOf(SelectSeq(m.events[r], LAMBDA x : x.sequence > after), limit)]

-----------------------------------------------------------------------------
(* The same calls of the ExecutionStore port, legal or not, in every order *)
(* on the encrypted database and on the in-memory store.                   *)
(*                                                                         *)
(* Left out, since the two stores differ there: which of two approvals     *)
(* requested for a run in the same instant is the pending one.             *)

CONSTANTS Times,      \* the clock of the callers
          MaxEvents   \* events of a run

\* A call names the rows it loaded as they are, or a revision that is not
\* there yet (ahead); of is the run the rows claim to belong to.
Calls ==
  [op : {"create_run"}, r : Runs, key : Keys, host : BOOLEAN, at : Times]
  \cup [op : {"save_run"}, r : Runs, key : Keys, ahead : BOOLEAN, at : Times,
        state : {"Planning", "Cancelled"}]
  \cup [op : {"create_approval"}, a : Approvals, r : Runs, of : Runs, key : Keys,
        ahead : BOOLEAN, at : Times]
  \cup [op : {"decide_approval"}, a : Approvals, r : Runs \cup {None}, key : Keys,
        ahead : {"none", "approval", "run"}]
  \cup [op : {"create_effect"}, e : Effects, r : Runs, at : Times,
        kind : {"FileWrite", "ProviderTurn"}]
  \cup [op : {"save_effect"}, e : Effects, ahead : BOOLEAN,
        state : {"Executing", "Succeeded"}]
  \cup [op : {"interrupt_effect"}, e : Effects, r : Runs, ahead : {"none", "effect", "run"}]
  \cup [op : {"recoverable_effects", "recoverable_runs"}, limit : 0..2]
  \cup [op : {"host_runs"}, limit : {0, 1}, thread : {None, 1, 2}]
  \cup [op : {"pending", "resolve"}, r : Runs, key : Keys]
  \cup [op : {"events"}, r : Runs, after : 0..1, limit : {1}]

Ahead(n, ahead) == IF ahead THEN n + 1 ELSE n

Command(c, print) == [key |-> c.key, print |-> print]

NewRun(c) == [thread |-> c.r, host |-> c.host, state |-> "Queued", revision |-> 0,
              created |-> c.at, updated |-> c.at]
NewApproval(c) == [run |-> c.of, status |-> "Pending", revision |-> 0, created |-> c.at]
NewEffect(c) == [run |-> c.r, kind |-> c.kind, state |-> "Prepared", revision |-> 0,
                 created |-> c.at]

\* The row a caller writes; a caller that found none writes a row of its own.
NoRun == [thread |-> 1, host |-> TRUE, state |-> "Queued", revision |-> 0,
          created |-> 0, updated |-> 0]
Moved(s, r, state, expected) ==
  [IF s.runs[r] = None THEN NoRun ELSE s.runs[r]
     EXCEPT !.state = state, !.revision = expected + 1]
Decided(s, a, expected) ==
  [IF s.approvals[a] = None
     THEN [run |-> 1, status |-> "Pending", revision |-> 0, created |-> 0]
     ELSE s.approvals[a] EXCEPT !.status = "Granted", !.revision = expected + 1]
Stepped(s, e, state, expected) ==
  [IF s.effects[e] = None
     THEN [run |-> 1, kind |-> "FileWrite", state |-> "Prepared", revision |-> 0, created |-> 0]
     ELSE s.effects[e] EXCEPT !.state = state, !.revision = expected + 1]

Rev(rows, i, ahead) == Ahead(IF rows[i] = None THEN 0 ELSE rows[i].revision, ahead)

OnTables(t, c) ==
  CASE c.op = "create_run" -> CreateRun(t, c.r, NewRun(c), Command(c, <<"create", c.r>>))
    [] c.op = "save_run" ->
         LET n == Rev(t.runs, c.r, c.ahead)
         IN SaveRun(t, c.r, [Moved(t, c.r, c.state, n) EXCEPT !.updated = c.at], n,
                    Command(c, <<"save", c.r>>))
    [] c.op = "create_approval" ->
         LET n == Rev(t.runs, c.r, c.ahead)
         IN CreateApproval(t, c.a, NewApproval(c), c.r,
                           Moved(t, c.r, "AwaitingApproval", n), n,
                           Command(c, <<"ask", c.a>>))
    [] c.op = "decide_approval" ->
         LET n == Rev(t.approvals, c.a, c.ahead = "approval")
             m == IF c.r = None THEN 0 ELSE Rev(t.runs, c.r, c.ahead = "run")
         IN DecideApproval(t, c.a, Decided(t, c.a, n), n, c.r,
                           IF c.r = None THEN None ELSE Moved(t, c.r, "Running", m), m,
                           Command(c, <<"decide", c.a>>))
    [] c.op = "create_effect" -> CreateEffect(t, c.e, NewEffect(c))
    [] c.op = "save_effect" ->
         LET n == Rev(t.effects, c.e, c.ahead)
         IN SaveEffect(t, c.e, Stepped(t, c.e, c.state, n), n)
    [] c.op = "interrupt_effect" ->
         LET n == Rev(t.effects, c.e, c.ahead = "effect")
             m == Rev(t.runs, c.r, c.ahead = "run")
         IN InterruptEffect(t, c.e, Stepped(t, c.e, "NeedsReview", n), n, c.r,
                            Moved(t, c.r, "InterruptedNeedsReview", m), m)
    [] c.op = "recoverable_effects" -> Refuse(t, ListRecoverableHostEffects(t, c.limit))
    [] c.op = "recoverable_runs" -> Refuse(t, ListRecoverableHostRuns(t, c.limit))
    [] c.op = "host_runs" -> Refuse(t, ListHostWorkRuns(t, c.limit, c.thread))
    [] c.op = "pending" -> Refuse(t, PendingApproval(t, c.r))
    [] c.op = "resolve" -> Refuse(t, ResolveExecution(t, Command(c, <<"create", c.r>>)))
    [] c.op = "events" -> Refuse(t, EventsSince(t, c.r, c.after, c.limit))

OnMaps(m, c) ==
  CASE c.op = "create_run" -> MemCreateRun(m, c.r, NewRun(c), Command(c, <<"create", c.r>>))
    [] c.op = "save_run" ->
         LET n == Rev(m.runs, c.r, c.ahead)
         IN MemSaveRun(m, c.r, [Moved(m, c.r, c.state, n) EXCEPT !.updated = c.at], n,
                       Command(c, <<"save", c.r>>))
    [] c.op = "create_approval" ->
         LET n == Rev(m.runs, c.r, c.ahead)
         IN MemCreateApproval(m, c.a, NewApproval(c), c.r,
                              Moved(m, c.r, "AwaitingApproval", n), n,
                              Command(c, <<"ask", c.a>>))
    [] c.op = "decide_approval" ->
         LET n == Rev(m.approvals, c.a, c.ahead = "approval")
             k == IF c.r = None THEN 0 ELSE Rev(m.runs, c.r, c.ahead = "run")
         IN MemDecideApproval(m, c.a, Decided(m, c.a, n), n, c.r,
                              IF c.r = None THEN None ELSE Moved(m, c.r, "Running", k), k,
                              Command(c, <<"decide", c.a>>))
    [] c.op = "create_effect" -> MemCreateEffect(m, c.e, NewEffect(c))
    [] c.op = "save_effect" ->
         LET n == Rev(m.effects, c.e, c.ahead)
         IN MemSaveEffect(m, c.e, Stepped(m, c.e, c.state, n), n)
    [] c.op = "interrupt_effect" ->
         LET n == Rev(m.effects, c.e, c.ahead = "effect")
             k == Rev(m.runs, c.r, c.ahead = "run")
         IN MemInterruptEffect(m, c.e, Stepped(m, c.e, "NeedsReview", n), n, c.r,
                               Moved(m, c.r, "InterruptedNeedsReview", k), k)
    [] c.op = "recoverable_effects" -> Refuse(m, MemListRecoverableHostEffects(m, c.limit))
    [] c.op = "recoverable_runs" -> Refuse(m, MemListRecoverableHostRuns(m, c.limit))
    [] c.op = "host_runs" -> Refuse(m, MemListHostWorkRuns(m, c.limit, c.thread))
    [] c.op = "pending" -> Refuse(m, MemPendingApproval(m, c.r))
    [] c.op = "resolve" -> Refuse(m, PriorExecution(m, Command(c, <<"create", c.r>>)))
    [] c.op = "events" -> Refuse(m, MemEventsSince(m, c.r, c.after, c.limit))

\* Rows change a few times, and no two approvals of a run are pending since
\* the same instant.
Bounded(s) ==
  /\ \A r \in Runs : Len(s.events[r]) <= MaxEvents
  /\ \A e \in Present(s.effects) : s.effects[e].revision <= 1
  /\ \A a, b \in Present(s.approvals) :
       a # b => s.approvals[a].run # s.approvals[b].run
                \/ s.approvals[a].created # s.approvals[b].created

Same(x, y) == IF IsError(x) \/ IsError(y) THEN IsError(x) /\ IsError(y) ELSE x = y

\* Whatever is called in whatever order: each run's events are numbered
\* without a gap, every write of a run left one of its events, and approvals
\* and effects belong to runs that exist.
EventsSound(t) ==
  \A r \in Runs :
    /\ \A i \in DOMAIN t.events[r] : t.events[r][i].sequence = i
    /\ t.runs[r] # None <=> t.events[r] # <<>>
    /\ t.runs[r] # None => Len(t.events[r]) > t.runs[r].revision
    /\ t.runs[r] = None =>
         /\ \A a \in Present(t.approvals) : t.approvals[a].run # r
         /\ \A e \in Present(t.effects) : t.effects[e].run # r
=============================================================================
