----------------------------- MODULE Workspace ------------------------------
(***************************************************************************)
(* The workspace service: concurrent requests that create, change and      *)
(* archive projects, threads, messages and automations under idempotency   *)
(* keys, and a client that pages through the threads of a project while    *)
(* they change.  Every call of the store is a step of its own; what a      *)
(* request loaded may be stale when it writes.                             *)
(***************************************************************************)
EXTENDS WorkspaceStore

CONSTANTS Handlers, Keys, Texts,
          Scenarios       \* by name: initial tables, commands and bounds

VARIABLES tables,    \* the database
          now,       \* the clock
          requests,  \* Handlers -> what each request has done so far
          pager,     \* a client's walk through a list
          left       \* steps the environment may still take

vars == <<tables, now, requests, pager, left>>

Idle == [at |-> "Idle"]
NotPaging == [at |-> "Idle"]

-----------------------------------------------------------------------------
(* Commands.  A command's print covers everything but the identifier made  *)
(* for a new entity.                                                       *)

Table(scope) ==
  CASE scope \in {"create_project", "update_project", "archive_project"} -> "projects"
    [] scope \in {"create_thread", "update_thread", "archive_thread"} -> "threads"
    [] scope \in {"create_message", "update_message", "delete_message"} -> "messages"
    [] OTHER -> "automations"

Creates(scope) ==
  scope \in {"create_project", "create_thread", "create_message", "create_automation"}

Parents(t, scope) ==
  CASE scope = "create_project" -> {None}
    [] scope = "create_message" -> Rows(t.threads)
    [] OTHER -> Rows(t.projects)

\* The commands a client can send: on what it can see, at the revision it saw.
Sendable(t, scope) ==
  IF Creates(scope)
    THEN [on : Parents(t, scope), expected : {None}, text : Texts]
    ELSE {[on |-> i, expected |-> r, text |-> x] :
            <<i, r, x>> \in {<<i, r, x>> \in Rows(t[Table(scope)]) \X (0..1) \X Texts :
                              r <= t[Table(scope)][i].revision}}

\* What the domain makes of the row that was loaded.
Changed(scope, row, text, at) ==
  CASE scope = "update_project" -> UpdatedProject(row, text, at)
    [] scope = "archive_project" -> ArchivedProject(row, at)
    [] scope = "update_thread" -> UpdatedThread(row, text, at)
    [] scope = "archive_thread" -> ArchivedThread(row, at)
    [] scope = "update_message" -> UpdatedMessage(row, text, at)
    [] scope = "delete_message" -> DeletedMessage(row, at)
    [] scope = "update_automation" -> UpdatedAutomation(row, text, TRUE, at)
    [] scope = "archive_automation" -> ArchivedAutomation(row, at)

New(scope, on, text, at) ==
  CASE scope = "create_project" -> NewProject(text, at)
    [] scope = "create_thread" -> NewThread(on, text, at)
    [] scope = "create_message" -> NewMessage(on, text, at)
    [] scope = "create_automation" -> NewAutomation(on, text, TRUE, at)

Create(t, c, id, row) ==
  CASE c.scope = "create_project" -> CreateProject(t, id, row, c)
    [] c.scope = "create_thread" -> CreateThread(t, id, row, c)
    [] c.scope = "create_message" -> CreateMessage(t, id, row, c)
    [] c.scope = "create_automation" -> CreateAutomation(t, id, row, c)

Save(t, c, row) ==
  LET on == c.print.on
      expected == c.print.expected
  IN CASE Table(c.scope) = "projects" -> SaveProject(t, on, row, expected, c)
       [] Table(c.scope) = "threads" -> SaveThread(t, on, row, expected, c)
       [] Table(c.scope) = "messages" -> SaveMessage(t, on, row, expected, c)
       [] Table(c.scope) = "automations" -> SaveAutomation(t, on, row, expected, c)

-----------------------------------------------------------------------------
(* Requests. *)

Answered(c, answer) == [at |-> "Answered", command |-> c, answer |-> answer]
Move(h, request) == requests' = [requests EXCEPT ![h] = request]

\* resolve_mutation, the first call of every mutation.
Ask(h, scope, key) ==
  /\ requests[h].at \in {"Idle", "Answered"}
  /\ left.asks > 0
  /\ left' = [left EXCEPT !.asks = @ - 1]
  /\ \E print \in Sendable(tables, scope) :
       LET c == [scope |-> scope, key |-> key, print |-> print]
           known == ResolveCommand(tables, c)
       IN Move(h, IF IsError(known) THEN Answered(c, known)
                  ELSE IF known.entity # None
                    THEN [at |-> "Replay", command |-> c, entity |-> known.entity]
                  ELSE [at |-> IF scope = "create_project" THEN "Create" ELSE "Load",
                        command |-> c])
  /\ UNCHANGED <<tables, now, pager>>

\* A command known already answers its entity as it is now.
Replay(h) ==
  /\ requests[h].at = "Replay"
  /\ LET r == requests[h]
     IN Move(h, Answered(r.command, Get(tables[Table(r.command.scope)], r.entity)))
  /\ UNCHANGED <<tables, now, pager, left>>

\* A change loads its row, compares the revision, applies the domain's rules.
LoadRow(h) ==
  /\ requests[h].at = "Load" /\ ~Creates(requests[h].command.scope)
  /\ LET c == requests[h].command
         row == tables[Table(c.scope)][c.print.on]
         changed == Changed(c.scope, row, c.print.text, now)
     IN Move(h, IF row.revision # c.print.expected THEN Answered(c, Error("Conflict"))
                ELSE IF IsError(changed) THEN Answered(c, changed)
                ELSE [at |-> "Save", command |-> c, row |-> changed])
  /\ UNCHANGED <<tables, now, pager, left>>

\* A message's thread is loaded before the thread's project.
LoadThread(h) ==
  /\ requests[h].at = "Load" /\ requests[h].command.scope = "create_message"
  /\ LET c == requests[h].command
     IN Move(h, IF tables.threads[c.print.on].state # "Open"
                  THEN Answered(c, Error("InvalidState"))
                ELSE [at |-> "Project", command |-> c])
  /\ UNCHANGED <<tables, now, pager, left>>

ProjectOf(c) ==
  IF c.scope = "create_message" THEN tables.threads[c.print.on].project ELSE c.print.on

LoadProject(h) ==
  /\ \/ requests[h].at = "Project"
     \/ /\ requests[h].at = "Load"
        /\ requests[h].command.scope \in {"create_thread", "create_automation"}
  /\ LET c == requests[h].command
     IN Move(h, IF ProjectIs(tables, ProjectOf(c)) # "Active"
                  THEN Answered(c, Error("InvalidState"))
                ELSE [at |-> "Create", command |-> c])
  /\ UNCHANGED <<tables, now, pager, left>>

Ids(table) == DOMAIN tables[table]

\* The identifiers made are fresh; which ones does not matter.
CreateRow(h) ==
  /\ requests[h].at = "Create"
  /\ LET c == requests[h].command
         table == Table(c.scope)
         unused == Ids(table) \ Rows(tables[table])
     IN /\ unused # {}
        /\ \E call \in {Create(tables, c, Min(unused),
                              New(c.scope, c.print.on, c.print.text, now))} :
             /\ tables' = call.tables
             /\ Move(h, Answered(c, call.answer))
  /\ UNCHANGED <<now, pager, left>>

\* A save answers the row this request made, replayed or not.
SaveRow(h) ==
  /\ requests[h].at = "Save"
  /\ LET c == requests[h].command
     IN \E call \in {Save(tables, c, requests[h].row)} :
          /\ tables' = call.tables
          /\ Move(h, Answered(c, IF IsError(call.answer) THEN call.answer
                                 ELSE Entity(c.print.on, requests[h].row)))
  /\ UNCHANGED <<now, pager, left>>

\* The scheduler's and the runner's reports on an automation.
ReportHistory(a, slot, status) ==
  /\ left.reports > 0
  /\ left' = [left EXCEPT !.reports = @ - 1]
  /\ tables.automations[a] # None /\ tables.automations[a].state # "Archived"
  /\ LET entry == HistoryEntry(slot, now, status)
     IN tables' = IF IsError(entry) THEN tables
                  ELSE RecordHistory(tables, a, entry).tables
  /\ UNCHANGED <<now, requests, pager>>

-----------------------------------------------------------------------------
(* A client pages through the threads of a project. *)

Page(items, limit) ==
  [items |-> FirstOf(items, limit),
   next |-> IF Len(items) > limit THEN items[limit].id ELSE None]

OpenList(p) ==
  /\ pager.at = "Idle" /\ left.walks > 0
  /\ left' = [left EXCEPT !.walks = @ - 1]
  /\ pager' = [at |-> "Walking", project |-> p, cursor |-> None, seen |-> {},
               began |-> [i \in OfProject(tables.threads, p) |->
                            tables.threads[i].revision]]
  /\ UNCHANGED <<tables, now, requests>>

\* list_threads, one more than the page asked for.
NextPage ==
  /\ pager.at = "Walking"
  /\ LET page == Page(ListThreads(tables, pager.project, pager.cursor, 2).items, 1)
     IN pager' = [pager EXCEPT
          !.seen = @ \cup {x.id : x \in Range(page.items)},
          !.cursor = page.next,
          !.at = IF page.next = None THEN "Listed" ELSE "Walking"]
  /\ UNCHANGED <<tables, now, requests, left>>

-----------------------------------------------------------------------------
(* The environment. *)

Tick ==
  /\ left.ticks > 0
  /\ left' = [left EXCEPT !.ticks = @ - 1]
  /\ now' = now + 1
  /\ UNCHANGED <<tables, requests, pager>>

SetBack ==
  /\ left.setbacks > 0 /\ now > 0
  /\ left' = [left EXCEPT !.setbacks = @ - 1]
  /\ now' = now - 1
  /\ UNCHANGED <<tables, requests, pager>>

\* Turns of the conversation service.
Converse(t) ==
  /\ left.turns > 0
  /\ left' = [left EXCEPT !.turns = @ - 1]
  /\ LET unused == Messages \ Rows(tables.messages)
     IN /\ unused # {}
        /\ tables' = ReserveTurn(tables, t, Min(unused), Min(Texts), now).tables
  /\ UNCHANGED <<now, requests, pager>>

Settle(t) ==
  /\ t \in tables.busy
  /\ tables' = EndTurn(tables, t).tables
  /\ UNCHANGED <<now, requests, pager, left>>

PlaceCursor(a) ==
  /\ left.cursors > 0
  /\ left' = [left EXCEPT !.cursors = @ - 1]
  /\ tables.automations[a] # None /\ tables.automations[a].state = "Enabled"
  /\ tables' = Schedule(tables, a).tables
  /\ UNCHANGED <<now, requests, pager>>

\* The daemon stops: requests under way are lost, what was written stays.
Restart ==
  /\ left.crashes > 0
  /\ left' = [left EXCEPT !.crashes = @ - 1]
  /\ requests' = [h \in Handlers |-> Idle]
  /\ UNCHANGED <<tables, now, pager>>

Init ==
  \E name \in DOMAIN Scenarios :
    /\ tables = Scenarios[name].tables /\ now = Scenarios[name].now
    /\ left = Scenarios[name].left
    /\ requests = [h \in Handlers |-> Idle]
    /\ pager = NotPaging

Next ==
  \/ \E h \in Handlers :
       \/ \E scope \in left.scopes, key \in Keys : Ask(h, scope, key)
       \/ Replay(h) \/ LoadRow(h) \/ LoadThread(h) \/ LoadProject(h)
       \/ CreateRow(h) \/ SaveRow(h)
  \/ \E a \in Automations :
       \/ \E slot \in {1}, status \in {"Succeeded", "Failed"} :
            ReportHistory(a, slot, status)
       \/ PlaceCursor(a)
  \/ \E p \in Rows(tables.projects) : OpenList(p)
  \/ NextPage
  \/ \E t \in Rows(tables.threads) : Converse(t) \/ Settle(t)
  \/ Tick \/ SetBack \/ Restart

Spec == Init /\ [][Next]_vars

-----------------------------------------------------------------------------
(* Properties. *)

Of(table, i) ==
  {r \in tables.commands : Table(r.scope) = table /\ r.entity = i}

\* Each command takes effect exactly once, whatever the interleaving and
\* however often it is sent: the revision of every entity counts the commands
\* recorded for it (the prompt of a turn is created without one), and every
\* request answered with success is recorded with what it asked, for the
\* entity it was answered with, at a revision the entity has reached.
CommandsTakeEffectOnce ==
  /\ \A table \in {"projects", "threads", "automations"} :
       \A i \in Rows(tables[table]) :
         tables[table][i].revision + 1 = Cardinality(Of(table, i))
  /\ \A m \in Rows(tables.messages) :
       tables.messages[m].revision
         = Cardinality({r \in Of("messages", m) : ~Creates(r.scope)})
  /\ \A h \in Handlers : requests[h].at = "Answered" /\ ~IsError(requests[h].answer) =>
       LET c == requests[h].command
           i == requests[h].answer.id
       IN /\ [scope |-> c.scope, key |-> c.key, print |-> c.print, entity |-> i]
               \in tables.commands
          /\ requests[h].answer.row.revision <= tables[Table(c.scope)][i].revision

\* Nothing is written below an archived parent or changed once a turn has
\* frozen it, though requests check that before they write: a thread or an
\* automation is created or renamed, and a message created or edited, only in
\* a project that is active, a message only in a thread that is open; frozen
\* messages keep their text; sequences number a thread's messages uniquely;
\* and no entity's time goes back.
WritesRespectParents ==
  /\ \A i \in Rows(tables.threads') :
       tables.threads[i] = None \/ tables.threads'[i].text # tables.threads[i].text
         => ProjectIs(tables, tables.threads'[i].project) = "Active"
  /\ \A i \in Rows(tables.automations') :
       tables.automations[i] = None
         \/ tables.automations'[i].text # tables.automations[i].text
         => ProjectIs(tables, tables.automations'[i].project) = "Active"
  /\ \A m \in Rows(tables.messages') :
       /\ \/ tables.messages[m] = None
          \/ tables.messages'[m].state = "Active"
               /\ tables.messages'[m].text # tables.messages[m].text
          => Writable(tables, tables.messages'[m].thread)
       /\ m \in tables.frozen => tables.messages'[m] = tables.messages[m]
       /\ \A n \in Rows(tables.messages') \ {m} :
            tables.messages'[n].thread = tables.messages'[m].thread
              => tables.messages'[n].sequence # tables.messages'[m].sequence
  /\ \A table \in {"projects", "threads", "messages", "automations"} :
       \A i \in Rows(tables[table]) :
         tables'[table][i].updated >= tables[table][i].updated

\* What search can find is what there is: the index holds one document for
\* every project, thread, automation and message not deleted, with the title
\* of its thread, the text and the time it has now, and nothing else.
SearchCurrent ==
  /\ \A d \in Documents : tables.documents[d] = Canonical(tables, d)
  /\ tables.terms = {Term(d, tables.documents[d]) :
                       d \in {d \in Documents : tables.documents[d] # None}}

\* A walk through a list page by page misses no thread that was there when it
\* began and was not changed meanwhile, though others move to the front
\* between the pages and the cursor's own row may be among them.
PagesMissNothing ==
  pager.at = "Listed" =>
    \A i \in DOMAIN pager.began :
      tables.threads[i].revision = pager.began[i] => i \in pager.seen

WorkspaceSound == SearchCurrent /\ CommandsTakeEffectOnce /\ PagesMissNothing
WritesRespected == [][WritesRespectParents]_vars
=============================================================================
