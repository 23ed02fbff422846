-------------------------- MODULE ConversationForks --------------------------
(***************************************************************************)
(* The daemon's conversation forks: Branch, Edit and Regenerate requests   *)
(* from the renderer, each a handler task that calls the store several     *)
(* times while other handlers, turns, workspace edits, acknowledgements    *)
(* and daemon restarts go on.  The store is ThreadStore.                   *)
(*                                                                         *)
(* Dispatch permits and cancellation signals are DirectChat's.             *)
(* Ordinary turns are here only to make sources, contexts and busy         *)
(* threads: starting or retrying one reserves and registers it in a step   *)
(* (DirectChat has their handlers in full).  Messages that belong to no    *)
(* turn, of Host Work, of the scheduler and of the workspace, are written  *)
(* in a step too.                                                          *)
(***************************************************************************)
EXTENDS ThreadStore

CONSTANTS
  Tasks,      \* concurrent fork handlers
  Keys,       \* idempotency keys the renderer may use for forks
  Edits,      \* texts an edit may ask for
  AckKeys,    \* idempotency keys of acknowledgements
  Scenarios   \* initial tables, bounds and requests: [tables, limits, kinds]

VARIABLES
  tables,     \* the durable rows
  now,        \* the clock, in abstract units
  installed,  \* the credential generation the threads are bound to is current
  task,       \* task[h]: a handler in progress
  live,       \* turns with a registered dispatch in this daemon process
  dropped,    \* turns whose handler was dropped before it registered them
  calls,      \* calls[k]: provider calls made for turn k
  budget,     \* how often each environment event may still happen
  kinds       \* the forks this scenario asks for

vars == <<tables, now, installed, task, live, dropped, calls, budget, kinds>>

\* Named bounds of a scenario: how often each event may happen, and how many
\* handlers run at a time ("width").
Limits == {"ask", "start", "retry", "cancel", "ack", "crash", "rename", "archive",
           "close", "tick", "rotate", "drop", "say", "width"}

Idle == [at |-> "Idle", ask |-> None, view |-> None, plan |-> None, turn |-> None, error |-> None]

\* A request that has been answered; of the answer only an error is kept, and
\* the turn it was about where the store found its rows inconsistent.
Failed(why)  == [Idle EXCEPT !.error = why]
Done(h, answer) ==
  IF ~IsError(answer) THEN Idle
  ELSE IF answer.error = "Internal"
    THEN [Failed("Internal") EXCEPT !.turn = task[h].ask.source]
  ELSE Failed(answer.error)

Init ==
  /\ \E s \in Scenarios : tables = s.tables /\ budget = s.limits /\ kinds = s.kinds
  /\ now = 0
  /\ installed = TRUE
  /\ task = [h \in Tasks |-> Idle]
  /\ live = {} /\ dropped = {}
  /\ calls = [k \in Turns |-> 0]

Spend(event) ==
  /\ budget[event] > 0
  /\ budget' = [budget EXCEPT ![event] = @ - 1]
  /\ UNCHANGED kinds

-----------------------------------------------------------------------------
(* a fork request *)

\* Mutant: the idempotency key is hashed with the request.
FingerprintWithKey(ask, source) ==
  [source |-> ask.source, expected |-> ask.expected, state |-> source.state,
   edited |-> ask.edited, key |-> ask.key]

\* fork_command: what the fingerprint covers, of the request and of the
\* source as it was loaded.  Request, context, model and binding digests are
\* functions of the source.
Fingerprint(ask, source) ==
  [source |-> ask.source, expected |-> ask.expected, state |-> source.state,
   edited |-> ask.edited]

Command(ask, source) ==
  [kind |-> ask.kind, key |-> ask.key, print |-> Fingerprint(ask, source)]

\* A source the renderer shows, at the revision it shows.
Asks ==
  {[kind |-> kind, key |-> key, source |-> k, edited |-> edited,
    expected |-> Revision(tables.turns[k].state)] :
     kind \in kinds, key \in Keys, k \in Rows(tables.turns), edited \in Edits}

CanonicalAsk(ask) == ask.kind = "EditAndBranch" \/ ask.edited = CHOOSE e \in Edits : TRUE

\* The handler's first look for a replay: the source it loads.
Request(h) ==
  /\ task[h].at = "Idle"
  /\ Cardinality({g \in Tasks : task[g].at # "Idle"}) < budget["width"]
  /\ Spend("ask")
  /\ \E ask \in Asks :
       /\ CanonicalAsk(ask)
       /\ task' = [task EXCEPT ![h] = [Idle EXCEPT !.at = "Replay", !.ask = ask,
                                       !.view = tables.turns[ask.source]]]
  /\ UNCHANGED <<tables, now, installed, live, dropped, calls>>

\* conversation_fork_replay_result: everything but a reserved turn nobody
\* owns ends the request; so does any Branch replay.
ReplayEnds(answer) ==
  \/ answer.turn = None
  \/ answer.state # "Reserved"
  \/ answer.turn \in live

Replay(h) ==
  /\ task[h].at = "Replay"
  /\ LET result == ResolveFork(tables, Command(task[h].ask, task[h].view))
         answer == result.answer
     IN  /\ tables' = result.tables
         /\ task' = [task EXCEPT ![h] =
              IF IsError(answer) \/ (answer.child # None /\ ReplayEnds(answer))
                THEN Done(h, answer) ELSE [@ EXCEPT !.at = "Load"]]
  /\ UNCHANGED <<now, installed, live, dropped, calls, budget, kinds>>

\* prepare_fork loads the source and its frozen context again.
Load(h) ==
  /\ task[h].at = "Load"
  /\ task' = [task EXCEPT ![h].at = "Resolve",
                          ![h].view = tables.turns[task[h].ask.source]]
  /\ UNCHANGED <<tables, now, installed, live, dropped, calls, budget, kinds>>

Resolve(h) ==
  /\ task[h].at = "Resolve"
  /\ LET result == ResolveFork(tables, Command(task[h].ask, task[h].view))
         answer == result.answer
     IN  /\ tables' = result.tables
         /\ task' = [task EXCEPT ![h] =
              IF IsError(answer) THEN Done(h, answer)
              ELSE IF answer.child # None /\ (answer.reconciled \/ answer.state # "Reserved")
                THEN Done(h, answer)
              ELSE [@ EXCEPT !.at = "Plan"]]
  /\ UNCHANGED <<now, installed, live, dropped, calls, budget, kinds>>

\* build_fork_plan, from the source the handler loaded and the parent thread
\* as it is now.
BuildPlan(ask, source, parent) ==
  LET stamp   == IF now >= parent.at THEN now ELSE parent.at
      message == IF ask.kind = "EditAndBranch" THEN source.user ELSE source.answer
      command == Command(ask, source)
  IN  [kind |-> ask.kind, key |-> ask.key, print |-> command.print,
       source |-> ask.source, expected |-> ask.expected,
       thread |-> ForkThread(parent, source.thread, ask.source, message, ask.kind, stamp),
       copies |-> Copies(ask.source, source, AnswerText(tables, source), ask.kind, ask.edited),
       starts |-> ask.kind # "Branch"]

\* The checks between the replay and the reservation, and the plan.
PlanFork(h) ==
  /\ task[h].at = "Plan"
  /\ LET ask    == task[h].ask
         source == task[h].view
         parent == tables.threads[source.thread]
     IN  task' = [task EXCEPT ![h] =
           IF Revision(source.state) # ask.expected THEN Failed("Conflict")
           ELSE IF ~ForkEligible(ask.kind, source.state) THEN Failed("InvalidState")
           ELSE IF tables.project # "Active" THEN Failed("InvalidState")
           ELSE IF parent.depth >= MaxForkDepth THEN Failed("InvalidInput")
           ELSE IF /\ ask.kind = "EditAndBranch"
                   /\ ask.edited = source.ctx[Len(source.ctx)].text
             THEN Failed("InvalidInput")
           ELSE [@ EXCEPT !.at = IF ask.kind = "Branch" THEN "Reserve" ELSE "Preflight",
                          !.plan = BuildPlan(ask, source, parent)]]
  /\ UNCHANGED <<tables, now, installed, live, dropped, calls, budget, kinds>>

\* preflight_model: the generation the source is bound to must be installed.
Preflight(h) ==
  /\ task[h].at = "Preflight"
  /\ task' = [task EXCEPT ![h] = IF installed THEN [@ EXCEPT !.at = "Reserve"]
                                 ELSE Failed("InvalidState")]
  /\ UNCHANGED <<tables, now, installed, live, dropped, calls, budget, kinds>>

Reserve(h) ==
  /\ task[h].at = "Reserve"
  /\ LET result == ReserveFork(tables, task[h].plan)
         answer == result.answer
     IN  /\ tables' = result.tables
         /\ task' = [task EXCEPT ![h] =
              IF IsError(answer) THEN Done(h, answer)
              ELSE IF answer.reconciled \/ answer.state # "Reserved" THEN Done(h, answer)
              ELSE [Idle EXCEPT !.at = "Launch", !.turn = answer.turn]]
  /\ UNCHANGED <<now, installed, live, dropped, calls, budget, kinds>>

\* launch_conversation_turn: a turn that already has a registered task keeps it.
Launch(h) ==
  /\ task[h].at = "Launch"
  /\ live' = live \cup {task[h].turn}
  /\ task' = [task EXCEPT ![h] = Idle]
  /\ UNCHANGED <<tables, now, installed, dropped, calls, budget, kinds>>

\* The request's deadline drops the handler wherever it waits; a store call it
\* had made goes on by itself, so that the drop counts from the call's end.
Drop(h) ==
  /\ task[h].at # "Idle"
  /\ Spend("drop")
  /\ dropped' = IF task[h].at = "Launch" THEN dropped \cup {task[h].turn} ELSE dropped
  /\ task' = [task EXCEPT ![h] = Idle]
  /\ UNCHANGED <<tables, now, installed, live, calls>>

-----------------------------------------------------------------------------
(* the registered dispatches *)

\* A dispatch carries the reservation, at revision 0; the provider is called
\* only once the start is committed.
Dispatch(k) ==
  /\ k \in live
  /\ tables.turns[k].state = "Reserved"
  /\ LET result == Advance(tables, k, 0, "ProviderStarted", FALSE, None)
     IN  /\ tables' = result.tables
         /\ calls' = [calls EXCEPT ![k] = IF IsError(result.answer) THEN @ ELSE @ + 1]
  /\ UNCHANGED <<now, installed, task, live, dropped, budget, kinds>>

\* A dispatch whose turn was settled by somebody else ends.
Exit(k) ==
  /\ k \in live
  /\ tables.turns[k].state \notin {"Reserved", "ProviderStarted"}
  /\ live' = live \ {k}
  /\ UNCHANGED <<tables, now, installed, task, dropped, calls, budget, kinds>>

\* The provider's answer names the turn it answers.
Reply(k) == 10 + k

Settle(k) ==
  /\ k \in live
  /\ tables.turns[k].state = "ProviderStarted"
  /\ \E to \in {"Completed", "Failed"}, retryable \in BOOLEAN :
       /\ to = "Completed" => ~retryable
       /\ Fresh(tables.messages) \in Messages
       /\ tables' = Advance(tables, k, 1, to, retryable, Reply(k)).tables
  /\ live' = live \ {k}
  /\ UNCHANGED <<now, installed, task, dropped, calls, budget, kinds>>

\* A client's cancellation, at the revision the turn has.
CancelTo(state) == IF state = "Reserved" THEN "Cancelled" ELSE "InterruptedNeedsReview"

Cancel(k) ==
  /\ tables.turns[k].state \in {"Reserved", "ProviderStarted"}
  /\ Spend("cancel")
  /\ LET state == tables.turns[k].state
     IN  tables' = Advance(tables, k, Revision(state), CancelTo(state), FALSE, None).tables
  /\ UNCHANGED <<now, installed, task, live, dropped, calls>>

-----------------------------------------------------------------------------
(* ordinary turns, workspace edits, acknowledgements, restarts *)

ReserveOrdinary(c) ==
  LET result == ReserveTurn(tables, c)
  IN  /\ ~IsError(result.answer)
      /\ tables' = result.tables
      /\ live' = live \cup {result.answer.turn}

\* The key is the renderer's; a fresh one each time.
StartTurn(th) ==
  /\ installed
  /\ Spend("start")
  /\ Fresh(tables.turns) \in Turns /\ Fresh(tables.messages) \in Messages
  /\ LET text == 1 + Cardinality(Rows(tables.turns))
     IN  ReserveOrdinary([thread |-> th, key |-> <<"Start", text>>, text |-> text,
                          print |-> [thread |-> th, text |-> text],
                          source |-> None, expected |-> 0])
  /\ UNCHANGED <<now, installed, task, dropped, calls>>

RetryTurn(k) ==
  /\ installed
  /\ Spend("retry")
  /\ Fresh(tables.turns) \in Turns /\ Fresh(tables.messages) \in Messages
  /\ LET u == tables.turns[k]
     IN  ReserveOrdinary([thread |-> u.thread, key |-> <<"Retry", k>>,
                          text |-> tables.messages[u.user].text,
                          print |-> [source |-> k, expected |-> Revision(u.state)],
                          source |-> k, expected |-> Revision(u.state)])
  /\ UNCHANGED <<now, installed, task, dropped, calls>>

\* The text of a message that belongs to no turn.
Aside == 20

\* Mutant: a message is put between a turn's prompt and its answer.
CreateMessageWhileBusy(th, role) ==
  /\ tables.project = "Active" /\ tables.threads[th].state = "Open"
  /\ Spend("say")
  /\ Fresh(tables.messages) \in Messages
  /\ tables' = WithMessage(tables, th, role, Aside, None)
  /\ UNCHANGED <<now, installed, task, live, dropped, calls>>

\* create_message: Host Work's prompts and answers, the renderer's notes.  The
\* scheduler writes its prompt as the first message of a new thread.
CreateMessage(th, role) ==
  /\ tables.project = "Active" /\ tables.threads[th].state = "Open"
  /\ ~Busy(tables, th)
  /\ Spend("say")
  /\ Fresh(tables.messages) \in Messages
  /\ tables' = WithMessage(tables, th, role, Aside, None)
  /\ UNCHANGED <<now, installed, task, live, dropped, calls>>

Rename(th) ==
  /\ tables.project = "Active" /\ tables.threads[th].state = "Open"
  /\ Spend("rename")
  /\ tables' = SaveThread(tables, th, 1 - tables.threads[th].title, "Open", now)
  /\ UNCHANGED <<now, installed, task, live, dropped, calls>>

Archive(th) ==
  /\ tables.threads[th].state = "Open"
  /\ Spend("archive")
  /\ tables' = SaveThread(tables, th, tables.threads[th].title, "Archived", now)
  /\ UNCHANGED <<now, installed, task, live, dropped, calls>>

CloseProject ==
  /\ tables.project = "Active"
  /\ Spend("close")
  /\ tables' = ArchiveProject(tables)
  /\ UNCHANGED <<now, installed, task, live, dropped, calls>>

Acknowledge(key, th) ==
  /\ Spend("ack")
  /\ tables' = AcknowledgeFork(tables, key, th, 0).tables
  /\ UNCHANGED <<now, installed, task, live, dropped, calls>>

Tick ==
  /\ Spend("tick")
  /\ now' = now + 1
  /\ UNCHANGED <<tables, installed, task, live, dropped, calls>>

\* The credential is replaced by a new generation, or removed.
Rotate ==
  /\ installed
  /\ Spend("rotate")
  /\ installed' = FALSE
  /\ UNCHANGED <<tables, now, task, live, dropped, calls>>

\* Mutant: startup recovery looks at started turns only.
RecoveredStarted(t) ==
  [t EXCEPT !.turns = [k \in Turns |->
     IF @[k] # None /\ @[k].state = "ProviderStarted"
       THEN [@[k] EXCEPT !.state = CancelTo(@)] ELSE @[k]]]

\* recover_incomplete, before the daemon serves again.
Recovered(t) ==
  [t EXCEPT !.turns = [k \in Turns |->
     IF @[k] # None /\ @[k].state \in {"Reserved", "ProviderStarted"}
       THEN [@[k] EXCEPT !.state = CancelTo(@)] ELSE @[k]]]

Crash ==
  /\ Spend("crash")
  /\ tables' = Recovered(tables)
  /\ task' = [h \in Tasks |-> Idle]
  /\ live' = {} /\ dropped' = {}
  /\ UNCHANGED <<now, installed, calls>>

Next ==
  \/ \E h \in Tasks :
       \/ Request(h) \/ Replay(h) \/ Load(h) \/ Resolve(h) \/ PlanFork(h)
       \/ Preflight(h) \/ Reserve(h) \/ Launch(h) \/ Drop(h)
  \/ \E k \in Rows(tables.turns) :
       \/ Dispatch(k) \/ Exit(k) \/ Settle(k) \/ Cancel(k) \/ RetryTurn(k)
  \/ \E th \in Rows(tables.threads) :
       \/ StartTurn(th) \/ Rename(th) \/ Archive(th)
       \/ \E key \in AckKeys : Acknowledge(key, th)
       \/ \E role \in {"user", "assistant"} : CreateMessage(th, role)
  \/ CloseProject \/ Tick \/ Rotate \/ Crash

Spec == Init /\ [][Next]_vars

-----------------------------------------------------------------------------
(* properties *)

TurnStates == {"Reserved", "ProviderStarted", "Completed", "Cancelled", "Failed",
               "InterruptedNeedsReview"}

TypeOK ==
  /\ \A k \in Rows(tables.turns) :
       /\ tables.turns[k].state \in TurnStates
       /\ tables.turns[k].thread \in Rows(tables.threads)
       /\ tables.turns[k].user \in Rows(tables.messages)
  /\ \A m \in Rows(tables.messages) : tables.messages[m].thread \in Rows(tables.threads)
  /\ live \subseteq Rows(tables.turns) /\ dropped \subseteq Rows(tables.turns)
  /\ calls \in [Turns -> 0 .. 1]
  /\ \A h \in Tasks : task[h].at \in {"Idle", "Replay", "Load", "Resolve", "Plan",
                                      "Preflight", "Reserve", "Launch"}
  /\ now \in Nat /\ installed \in BOOLEAN /\ budget \in [Limits -> Nat]

\* What a fork was asked to do, told from its rows.
Asked(r) ==
  [kind |-> r.kind, source |-> r.source, expected |-> r.expected,
   edited |-> IF r.kind = "EditAndBranch"
                THEN tables.messages[tables.turns[r.turn].user].text ELSE None]

\* A request the renderer repeats, under any key and through any race or
\* restart, reaches the provider once for each result it has acknowledged,
\* and once more: reserve_conversation_fork hands out the undelivered result.
ChargedOnce ==
  \A r \in tables.commands :
    LET same == {q \in tables.commands : Asked(q) = Asked(r)}
    IN  Cardinality({q \in same : q.turn # None /\ calls[q.turn] > 0})
          =< 1 + Cardinality({q \in same : tables.deliveries[q.child].acked})

\* Entry i of a context is the answer to the entry before it: some turn of the
\* family had that prompt and that answer.
Answers(ctx, i) ==
  /\ ctx[i].role = "assistant" /\ i > 1
  /\ \E j \in Rows(tables.turns) :
       /\ ctx[i].text = Reply(j)
       /\ ctx[i - 1].text = tables.messages[tables.turns[j].user].text

\* What is frozen for a provider call is a conversation that took place: every
\* answer a turn gave comes right after the prompt of that turn, in whichever
\* thread of the family that was, every prompt of a turn but the last is
\* answered, and whatever stands between them is a message that belongs to no
\* turn (query_active_messages, build_fork_plan, create_message).
ProviderSeesRealExchanges ==
  \A k \in Rows(tables.turns) :
    LET ctx == tables.turns[k].ctx
    IN  /\ ctx[Len(ctx)].role = "user" /\ ctx[Len(ctx)].text # Aside
        /\ \A i \in DOMAIN ctx :
             \/ ctx[i].text = Aside \/ Answers(ctx, i)
             \/ ctx[i].role = "user" /\ (i = Len(ctx) \/ Answers(ctx, i + 1))

\* Somebody will dispatch the turn: it is registered or about to be.
Owned(k) ==
  \/ k \in live
  \/ \E h \in Tasks : task[h].at = "Launch" /\ task[h].turn = k

\* A reserved turn without an owner is one whose handler was dropped between
\* the reservation and the registration, in this process: a restart settles it
\* (recover_incomplete).  Until then it is within reach: the same command is
\* answered with that very turn and goes on to launch it, and a cancellation
\* ends it.
ReservedWithinReach ==
  TypeOK /\ \A k \in Rows(tables.turns) :
    tables.turns[k].state = "Reserved" /\ ~Owned(k) =>
      /\ k \in dropped
      /\ ~IsError(Advance(tables, k, 0, "Cancelled", FALSE, None).answer)
      /\ \A r \in {q \in tables.commands : q.turn = k} :
           LET answer == ResolveFork(tables, r).answer
           IN  ~IsError(answer) /\ answer.turn = k /\ ~ReplayEnds(answer)

\* The frozen context of a turn holds an answer no turn gave.
HoldsAside(k) ==
  \E i \in DOMAIN tables.turns[k].ctx :
    tables.turns[k].ctx[i].role = "assistant" /\ tables.turns[k].ctx[i].text = Aside

\* No legal sequence of forks, turns, edits and restarts makes the store find
\* its own rows inconsistent, nor the schema refuse rows the store has found
\* sound, but for two cases.  A fork is answered Internal only where the
\* source's context holds an answer that belongs to no turn, which
\* inherited_source_turn takes for a broken row; and a family does not read
\* only when it has outgrown the metadata budgets, which a reservation checks
\* for the child alone (query_fork_metadata).
FamiliesStayReadable ==
  /\ \A h \in Tasks :
       /\ task[h].error # "Constraint"
       /\ task[h].error = "Internal" => HoldsAside(task[h].turn)
  /\ \A th \in Rows(tables.threads) :
       IsError(ForkMetadata(tables, th).answer) => ~MetadataFits(tables, th)

\* Forks implement ForkDelivery: of each distinct request at most one result
\* waits for its acknowledgement, and only an acknowledgement ends the wait.
Waiting ==
  {[ask |-> Asked(r), child |-> r.child] :
     r \in {q \in tables.commands : ~tables.deliveries[q.child].acked}}

Delivery == INSTANCE ForkDelivery WITH waiting <- Waiting, created <- Rows(tables.deliveries)

OneResultWaits == Delivery!Spec

\* One request, however often it is repeated, has one result waiting and is
\* charged once for each result the renderer has taken over.
OneChargePerResult == OneResultWaits /\ []ChargedOnce
=============================================================================
