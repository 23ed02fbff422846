--------------------------- MODULE WorkspaceStore ---------------------------
(***************************************************************************)
(* The workspace tables of the encrypted database: projects, threads,      *)
(* messages and automations, the journal of workspace commands, and the    *)
(* search index that triggers keep beside them.  Every call of the         *)
(* WorkspaceStore port is a function of the tables.                        *)
(*                                                                         *)
(* One text stands for all the fields an update replaces.  Creation times  *)
(* are left out: no call reads them but the checks that a row's times are  *)
(* in order.  Artifacts have their own modules.                            *)
(***************************************************************************)
EXTENDS Integers, FiniteSets, SequencesExt

CONSTANTS Projects, Threads, Messages, Automations,   \* identifiers, numbers
          None

Error(kind) == [error |-> kind]
IsError(x) == "error" \in DOMAIN x
Refuse(t, answer) == [tables |-> t, answer |-> answer]
Commit(t, answer) == [tables |-> t, answer |-> answer]
Conflict(t) == Refuse(t, Error("Conflict"))
Done == [done |-> TRUE]

FirstOf(seq, limit) == SubSeq(seq, 1, Min({limit, Len(seq)}))
Rows(table) == {i \in DOMAIN table : table[i] # None}
The(S) == CHOOSE x \in S : TRUE

Documents ==
  ({"project"} \X Projects) \cup ({"thread"} \X Threads)
  \cup ({"message"} \X Messages) \cup ({"automation"} \X Automations)

EmptyTables ==
  [projects |-> [p \in Projects |-> None],
   threads |-> [h \in Threads |-> None],
   messages |-> [m \in Messages |-> None],
   automations |-> [a \in Automations |-> None],
   history |-> [a \in Automations |-> <<>>],
   commands |-> {},
   documents |-> [d \in Documents |-> None],
   terms |-> {},          \* the full-text index: <<document, title, body>>
   busy |-> {},           \* threads with an active turn
   frozen |-> {},         \* messages a turn or a frozen context refers to
   scheduled |-> {}]      \* automations with a schedule cursor

-----------------------------------------------------------------------------
(* The entities. *)

Touch(row, now) ==
  IF now < row.updated THEN Error("ClockRegression")
  ELSE [row EXCEPT !.revision = @ + 1, !.updated = now]

\* A lifecycle check, then touch, then the fields.
Change(row, open, now, text, state) ==
  LET touched == Touch(row, now)
  IN IF row.state \notin open THEN Error("InvalidLifecycle")
     ELSE IF IsError(touched) THEN touched
     ELSE [touched EXCEPT !.text = text, !.state = state]

NewProject(text, now) ==
  [text |-> text, state |-> "Active", revision |-> 0, updated |-> now]
UpdatedProject(row, text, now) == Change(row, {"Active"}, now, text, row.state)
ArchivedProject(row, now) == Change(row, {"Active"}, now, row.text, "Archived")

NewThread(project, text, now) ==
  [project |-> project, text |-> text, state |-> "Open", revision |-> 0, updated |-> now]
UpdatedThread(row, text, now) == Change(row, {"Open"}, now, text, row.state)
ArchivedThread(row, now) == Change(row, {"Open"}, now, row.text, "Archived")

NewMessage(thread, text, now) ==
  [thread |-> thread, sequence |-> 0, text |-> text, state |-> "Active",
   revision |-> 0, updated |-> now]
UpdatedMessage(row, text, now) == Change(row, {"Active"}, now, text, row.state)
DeletedMessage(row, now) == Change(row, {"Active"}, now, 0, "Deleted")

Switch(enabled) == IF enabled THEN "Enabled" ELSE "Disabled"
NewAutomation(project, text, enabled, now) ==
  [project |-> project, text |-> text, state |-> Switch(enabled), revision |-> 0,
   updated |-> now]
UpdatedAutomation(row, text, enabled, now) ==
  Change(row, {"Enabled", "Disabled"}, now, text, Switch(enabled))
ArchivedAutomation(row, now) ==
  Change(row, {"Enabled", "Disabled"}, now, row.text, "Archived")

HistoryEntry(slot, at, status) ==
  IF at < slot THEN Error("InvalidField")
  ELSE [sequence |-> 0, slot |-> slot, at |-> at, status |-> status]

-----------------------------------------------------------------------------
(* The search index. *)

Document(project, title, body, updated) ==
  [project |-> project, title |-> title, body |-> body, updated |-> updated]

Term(d, document) == <<d, document.title, document.body>>

\* The triggers of search_documents: every document written is replaced in
\* the full-text index by its old and its new contents.
Reindexed(t, documents) ==
  LET changed == {d \in Documents : documents[d] # t.documents[d]}
      before == {d \in changed : t.documents[d] # None}
      after == {d \in changed : documents[d] # None}
  IN [t EXCEPT !.documents = documents,
               !.terms = (@ \ {Term(d, t.documents[d]) : d \in before})
                           \cup {Term(d, documents[d]) : d \in after}]

\* projects_search_ai, projects_search_au
ProjectIndexed(t, p) ==
  LET row == t.projects[p]
  IN Reindexed(t, [t.documents EXCEPT ![<<"project", p>>] =
                     Document(p, row.text, row.text, row.updated)])

ThreadInserted(t, h) ==
  LET row == t.threads[h]
  IN Reindexed(t, [t.documents EXCEPT ![<<"thread", h>>] =
                     Document(row.project, row.text, 0, row.updated)])

\* Mutant: the messages keep the old title.
ThreadUpdatedAlone(t, h) ==
  Reindexed(t, [t.documents EXCEPT ![<<"thread", h>>] =
                  [@ EXCEPT !.title = t.threads[h].text,
                            !.updated = t.threads[h].updated]])

\* threads_search_au: the documents of the thread's messages carry its title.
ThreadUpdated(t, h) ==
  LET row == t.threads[h]
      Retitled(d) == d[1] = "message" /\ t.documents[d] # None
                       /\ t.messages[d[2]].thread = h
  IN Reindexed(t, [d \in Documents |->
       IF d = <<"thread", h>>
         THEN [t.documents[d] EXCEPT !.title = row.text, !.updated = row.updated]
       ELSE IF Retitled(d) THEN [t.documents[d] EXCEPT !.title = row.text]
       ELSE t.documents[d]])

MessageDocument(t, m) ==
  LET row == t.messages[m]
      thread == t.threads[row.thread]
  IN IF row.state = "Active"
       THEN Document(thread.project, thread.text, row.text, row.updated) ELSE None

\* messages_search_ai, messages_search_au
MessageIndexed(t, m) ==
  Reindexed(t, [t.documents EXCEPT ![<<"message", m>>] = MessageDocument(t, m)])

\* automations_search_ai, automations_search_au
AutomationIndexed(t, a) ==
  LET row == t.automations[a]
  IN Reindexed(t, [t.documents EXCEPT ![<<"automation", a>>] =
                     Document(row.project, row.text, row.text, row.updated)])

\* The columns of a document as the entities have them; none for a deleted
\* message.
Canonical(t, d) ==
  LET i == d[2]
  IN CASE d[1] = "project" /\ t.projects[i] # None ->
            Document(i, t.projects[i].text, t.projects[i].text, t.projects[i].updated)
       [] d[1] = "thread" /\ t.threads[i] # None ->
            Document(t.threads[i].project, t.threads[i].text, 0, t.threads[i].updated)
       [] d[1] = "message" /\ t.messages[i] # None -> MessageDocument(t, i)
       [] d[1] = "automation" /\ t.automations[i] # None ->
            Document(t.automations[i].project, t.automations[i].text,
                     t.automations[i].text, t.automations[i].updated)
       [] OTHER -> None

ThreadOf(t, d) ==
  CASE d[1] = "thread" -> d[2]
    [] d[1] = "message" -> t.messages[d[2]].thread
    [] OTHER -> None

Hit(t, d, document) ==
  [is |-> d, project |-> document.project, thread |-> ThreadOf(t, d),
   title |-> document.title, body |-> document.body, updated |-> document.updated]

\* search, but for the order of its hits: documents that match and agree with
\* the entity they stand for.
Search(t, project, text) ==
  {Hit(t, term[1], t.documents[term[1]]) : term \in
     {u \in t.terms : /\ text \in {u[2], u[3]}
                      /\ t.documents[u[1]] # None
                      /\ Canonical(t, u[1]) = t.documents[u[1]]
                      /\ project \in {None, t.documents[u[1]].project}}}

-----------------------------------------------------------------------------
(* The command journal. *)

Known(t, c) == {r \in t.commands : r.scope = c.scope /\ r.key = c.key}

ResolveCommand(t, c) ==
  IF Known(t, c) = {} THEN [entity |-> None]
  ELSE IF The(Known(t, c)).print # c.print THEN Error("Conflict")
  ELSE [entity |-> The(Known(t, c)).entity]

RecordCommand(t, c, id) ==
  [t EXCEPT !.commands =
     @ \cup {[scope |-> c.scope, key |-> c.key, print |-> c.print, entity |-> id]}]

Entity(id, row) == [id |-> id, row |-> row]
Get(rows, id) == IF rows[id] = None THEN Error("NotFound") ELSE Entity(id, rows[id])

\* A creation is tried once; replayed, it answers the row as it is now.
CreateOnce(t, c, rows, created) ==
  LET known == ResolveCommand(t, c)
  IN IF IsError(known) THEN Refuse(t, known)
     ELSE IF known.entity # None THEN Refuse(t, Get(rows, known.entity))
     ELSE created

\* A save is tried once; replayed, it writes nothing.
SaveOnce(t, c, saved) ==
  LET known == ResolveCommand(t, c)
  IN IF IsError(known) THEN Refuse(t, known)
     ELSE IF known.entity # None THEN Refuse(t, Done)
     ELSE saved

\* ensure_next_revision and the revision in the WHERE clause
NextRevision(stored, row, expected) ==
  row.revision = expected + 1 /\ stored # None /\ stored.revision = expected

ProjectIs(t, p) == IF t.projects[p] = None THEN "NotFound" ELSE t.projects[p].state

EnsureProjectActive(t, p) ==
  CASE ProjectIs(t, p) = "Active" -> Done
    [] ProjectIs(t, p) = "NotFound" -> Error("NotFound")
    [] OTHER -> Error("Conflict")

-----------------------------------------------------------------------------
(* Projects and threads. *)

CreateProject(t, p, row, c) ==
  CreateOnce(t, c, t.projects,
    IF t.projects[p] # None THEN Conflict(t)
    ELSE Commit(RecordCommand(ProjectIndexed([t EXCEPT !.projects[p] = row], p), c, p),
                Entity(p, row)))

SaveProject(t, p, row, expected, c) ==
  SaveOnce(t, c,
    IF ~NextRevision(t.projects[p], row, expected) THEN Conflict(t)
    ELSE Commit(RecordCommand(ProjectIndexed([t EXCEPT !.projects[p] = row], p), c, p),
                Done))

CreateThread(t, h, row, c) ==
  LET active == EnsureProjectActive(t, row.project)
  IN CreateOnce(t, c, t.threads,
       IF IsError(active) THEN Refuse(t, active)
       ELSE IF t.threads[h] # None THEN Conflict(t)
       ELSE Commit(RecordCommand(ThreadInserted([t EXCEPT !.threads[h] = row], h), c, h),
                   Entity(h, row)))

SaveThread(t, h, row, expected, c) ==
  LET active == EnsureProjectActive(t, row.project)
  IN SaveOnce(t, c,
       IF c.scope = "update_thread" /\ IsError(active) THEN Refuse(t, active)
       ELSE IF t.threads[h] = None THEN Refuse(t, Error("NotFound"))
       ELSE IF t.threads[h].project # row.project THEN Conflict(t)
       ELSE IF ~NextRevision(t.threads[h], row, expected) THEN Conflict(t)
       ELSE Commit(RecordCommand(ThreadUpdated([t EXCEPT !.threads[h] = row], h), c, h),
                   Done))

-----------------------------------------------------------------------------
(* Messages. *)

OfThread(t, h) == {m \in Rows(t.messages) : t.messages[m].thread = h}

NextSequence(t, h) ==
  1 + Max({0} \cup {t.messages[m].sequence : m \in OfThread(t, h)})

\* The row as inserted, unless UNIQUE(thread_id, sequence) refuses it.
InsertMessage(t, m, row) ==
  LET numbered == [row EXCEPT !.sequence = NextSequence(t, row.thread)]
  IN IF \/ t.messages[m] # None
        \/ \E n \in OfThread(t, row.thread) : t.messages[n].sequence = numbered.sequence
       THEN Error("Conflict")
     ELSE MessageIndexed([t EXCEPT !.messages[m] = numbered], m)

Writable(t, h) ==
  t.threads[h].state = "Open" /\ ProjectIs(t, t.threads[h].project) = "Active"

CreateMessage(t, m, row, c) ==
  LET inserted == InsertMessage(t, m, row)
  IN CreateOnce(t, c, t.messages,
       IF t.threads[row.thread] = None THEN Refuse(t, Error("NotFound"))
       ELSE IF ~Writable(t, row.thread) \/ row.thread \in t.busy THEN Conflict(t)
       ELSE IF IsError(inserted) THEN Refuse(t, inserted)
       ELSE Commit(RecordCommand(inserted, c, m), Entity(m, inserted.messages[m])))

SaveMessage(t, m, row, expected, c) ==
  SaveOnce(t, c,
    IF m \in t.frozen THEN Conflict(t)
    ELSE IF t.messages[m] = None THEN Refuse(t, Error("NotFound"))
    ELSE IF t.messages[m].thread # row.thread THEN Conflict(t)
    ELSE IF c.scope = "update_message" /\ ~Writable(t, row.thread) THEN Conflict(t)
    ELSE IF ~NextRevision(t.messages[m], row, expected) THEN Conflict(t)
    ELSE Commit(RecordCommand(MessageIndexed([t EXCEPT !.messages[m] = row], m), c, m),
                Done))

\* The conversation store reserves a turn: a prompt that follows the messages
\* of the thread, all of them frozen as its context.
ReserveTurn(t, h, m, text, now) ==
  LET inserted == InsertMessage(t, m, NewMessage(h, text, now))
      active == {n \in OfThread(inserted, h) : inserted.messages[n].state = "Active"}
  IN IF ~Writable(t, h) \/ h \in t.busy \/ IsError(inserted) THEN Conflict(t)
     ELSE Commit([inserted EXCEPT !.busy = @ \cup {h}, !.frozen = @ \cup active], Done)

EndTurn(t, h) == Commit([t EXCEPT !.busy = @ \ {h}], Done)

-----------------------------------------------------------------------------
(* Automations and their history. *)

CreateAutomation(t, a, row, c) ==
  LET active == EnsureProjectActive(t, row.project)
  IN CreateOnce(t, c, t.automations,
       IF IsError(active) THEN Refuse(t, active)
       ELSE IF t.automations[a] # None THEN Conflict(t)
       ELSE Commit(RecordCommand(AutomationIndexed([t EXCEPT !.automations[a] = row], a),
                                 c, a),
                   Entity(a, row)))

\* automations_require_scheduler_rebase
SaveAutomation(t, a, row, expected, c) ==
  LET active == EnsureProjectActive(t, row.project)
  IN SaveOnce(t, c,
       IF c.scope = "update_automation" /\ IsError(active) THEN Refuse(t, active)
       ELSE IF ~NextRevision(t.automations[a], row, expected) THEN Conflict(t)
       ELSE IF a \in t.scheduled THEN Conflict(t)
       ELSE Commit(RecordCommand(AutomationIndexed([t EXCEPT !.automations[a] = row], a),
                                 c, a),
                   Done))

\* The scheduler places a cursor on an enabled definition.
Schedule(t, a) == Commit([t EXCEPT !.scheduled = @ \cup {a}], Done)

RecordHistory(t, a, entry) ==
  LET slots == {i \in DOMAIN t.history[a] : t.history[a][i].slot = entry.slot}
      numbered == [entry EXCEPT !.sequence = Len(t.history[a]) + 1]
  IN IF slots # {}
       THEN LET known == t.history[a][The(slots)]
            IN IF [known EXCEPT !.sequence = 0] = entry THEN Refuse(t, known)
               ELSE Conflict(t)
     ELSE IF t.automations[a] = None THEN Refuse(t, Error("NotFound"))
     ELSE Commit([t EXCEPT !.history[a] = Append(@, numbered)], numbered)

History(t, a, after, limit) ==
  IF t.automations[a] = None THEN Error("NotFound")
  ELSE [entries |-> FirstOf(SubSeq(t.history[a], after + 1, Len(t.history[a])), limit)]

-----------------------------------------------------------------------------
(* Lists. *)

\* Newest first; among equals by identifier.
Newer(x, y) == x.updated > y.updated \/ (x.updated = y.updated /\ x.id < y.id)

Follows(cursor, x) == Newer(cursor, x)

Listed(rows, ids) == {[id |-> i, updated |-> rows[i].updated] : i \in ids}

\* recent_cursor, collect_recent and collect_recent_scoped: the page after the
\* place the cursor's row has now.
CollectRecent(rows, ids, after, limit) ==
  IF after # None /\ after \notin ids THEN Error("NotFound")
  ELSE LET cursor == [id |-> after, updated |-> rows[after].updated]
           page == {x \in Listed(rows, ids) : after = None \/ Follows(cursor, x)}
       IN [items |-> FirstOf(SetToSortSeq(page, Newer), limit)]

OfProject(rows, p) == {i \in Rows(rows) : rows[i].project = p}

ListProjects(t, after, limit) ==
  CollectRecent(t.projects, Rows(t.projects), after, limit)

ListThreads(t, p, after, limit) ==
  IF t.projects[p] = None THEN Error("NotFound")
  ELSE CollectRecent(t.threads, OfProject(t.threads, p), after, limit)

ListAutomations(t, p, after, limit) ==
  IF t.projects[p] = None THEN Error("NotFound")
  ELSE CollectRecent(t.automations, OfProject(t.automations, p), after, limit)

ListMessages(t, h, after, limit) ==
  LET later == {m \in OfThread(t, h) : after # None =>
                  t.messages[m].sequence > t.messages[after].sequence}
      Earlier(m, n) == t.messages[m].sequence < t.messages[n].sequence
  IN IF t.threads[h] = None THEN Error("NotFound")
     ELSE IF after # None /\ after \notin OfThread(t, h) THEN Error("NotFound")
     ELSE [items |-> FirstOf(SetToSortSeq(later, Earlier), limit)]

-----------------------------------------------------------------------------
(* The workspace calls of the in-memory store.  It keeps no search index:  *)
(* search reads the entities.  Tables it has no use for stay empty.        *)

EmptyMaps == EmptyTables

PriorCommand(m, c) ==
  LET known == {r \in m.commands : <<r.scope, r.key>> = <<c.scope, c.key>>}
  IN IF known = {} THEN [entity |-> None]
     ELSE IF The(known).print = c.print THEN [entity |-> The(known).entity]
     ELSE Error("Conflict")

\* Inserting a key that is there replaces its record.
MemRecord(m, c, id) ==
  [m EXCEPT !.commands =
     {r \in @ : <<r.scope, r.key>> # <<c.scope, c.key>>}
       \cup {[scope |-> c.scope, key |-> c.key, print |-> c.print, entity |-> id]}]

MemCreateOnce(m, c, rows, created) ==
  LET known == PriorCommand(m, c)
  IN IF IsError(known) THEN Refuse(m, known)
     ELSE IF known.entity # None THEN Refuse(m, Get(rows, known.entity))
     ELSE created

MemSaveOnce(m, c, saved) ==
  LET known == PriorCommand(m, c)
  IN IF IsError(known) THEN Refuse(m, known)
     ELSE IF known.entity # None THEN Refuse(m, Done)
     ELSE saved

Replaces(row, value, expected) ==
  /\ row # None
  /\ row.revision = expected
  /\ value.revision = expected + 1

-----------------------------------------------------------------------------
MemCreateProject(m, p, row, c) ==
  MemCreateOnce(m, c, m.projects,
    IF m.projects[p] # None THEN Conflict(m)
    ELSE Commit(MemRecord([m EXCEPT !.projects[p] = row], c, p), Entity(p, row)))

MemSaveProject(m, p, row, expected, c) ==
  MemSaveOnce(m, c,
    IF ~Replaces(m.projects[p], row, expected) THEN Conflict(m)
    ELSE Commit(MemRecord([m EXCEPT !.projects[p] = row], c, p), Done))

MemCreateThread(m, h, row, c) ==
  MemCreateOnce(m, c, m.threads,
    IF ProjectIs(m, row.project) # "Active" \/ m.threads[h] # None THEN Conflict(m)
    ELSE Commit(MemRecord([m EXCEPT !.threads[h] = row], c, h), Entity(h, row)))

MemSaveThread(m, h, row, expected, c) ==
  MemSaveOnce(m, c,
    IF \/ c.scope = "update_thread" /\ ProjectIs(m, row.project) # "Active"
       \/ m.threads[h] = None
       \/ m.threads[h].project # row.project
       \/ ~Replaces(m.threads[h], row, expected)
      THEN Conflict(m)
    ELSE Commit(MemRecord([m EXCEPT !.threads[h] = row], c, h), Done))

MemNumbered(m, row) ==
  [row EXCEPT !.sequence =
     1 + Max({0} \cup {m.messages[n].sequence : n \in OfThread(m, row.thread)})]

MemCreateMessage(m, n, row, c) ==
  MemCreateOnce(m, c, m.messages,
    IF m.threads[row.thread] = None THEN Refuse(m, Error("NotFound"))
    ELSE IF ~Writable(m, row.thread) \/ m.messages[n] # None \/ row.thread \in m.busy
      THEN Conflict(m)
    ELSE Commit(MemRecord([m EXCEPT !.messages[n] = MemNumbered(m, row)], c, n),
                Entity(n, MemNumbered(m, row))))

MemSaveMessage(m, n, row, expected, c) ==
  MemSaveOnce(m, c,
    IF n \in m.frozen THEN Conflict(m)
    ELSE IF c.scope = "update_message" /\ ~Writable(m, row.thread) THEN Conflict(m)
    ELSE IF ~Replaces(m.messages[n], row, expected) THEN Conflict(m)
    ELSE Commit(MemRecord([m EXCEPT !.messages[n] = row], c, n), Done))

MemReserveTurn(m, h, n, text, now) ==
  LET inserted == [m EXCEPT !.messages[n] = MemNumbered(m, NewMessage(h, text, now))]
      active == {x \in OfThread(inserted, h) : inserted.messages[x].state = "Active"}
  IN IF ~Writable(m, h) \/ h \in m.busy \/ m.messages[n] # None THEN Conflict(m)
     ELSE Commit([inserted EXCEPT !.busy = @ \cup {h}, !.frozen = @ \cup active], Done)

MemCreateAutomation(m, a, row, c) ==
  MemCreateOnce(m, c, m.automations,
    IF ProjectIs(m, row.project) # "Active" \/ m.automations[a] # None THEN Conflict(m)
    ELSE Commit(MemRecord([m EXCEPT !.automations[a] = row], c, a), Entity(a, row)))

MemSaveAutomation(m, a, row, expected, c) ==
  MemSaveOnce(m, c,
    IF \/ c.scope = "update_automation" /\ ProjectIs(m, row.project) # "Active"
       \/ a \in m.scheduled
       \/ ~Replaces(m.automations[a], row, expected)
      THEN Conflict(m)
    ELSE Commit(MemRecord([m EXCEPT !.automations[a] = row], c, a), Done))

\* An entry for a slot recorded before is answered with what is recorded.
MemRecordHistory(m, a, entry) ==
  LET slots == {i \in DOMAIN m.history[a] : m.history[a][i].slot = entry.slot}
      numbered == [entry EXCEPT !.sequence = Len(m.history[a]) + 1]
  IN IF m.automations[a] = None THEN Refuse(m, Error("NotFound"))
     ELSE IF slots # {} THEN Refuse(m, m.history[a][The(slots)])
     ELSE Commit([m EXCEPT !.history[a] = Append(@, numbered)], numbered)

MemHistory(m, a, after, limit) ==
  IF m.automations[a] = None THEN Error("NotFound")
  ELSE LET Later(e) == e.sequence > after
       IN [entries |-> FirstOf(SelectSeq(m.history[a], Later), limit)]

-----------------------------------------------------------------------------
(* Lists and search. *)

\* The part of a list behind the cursor's place in it.
AfterPosition(items, after, limit) ==
  LET places == {i \in DOMAIN items : items[i].id = after}
      start == IF after = None THEN 0 ELSE The(places)
  IN IF after # None /\ places = {} THEN Error("NotFound")
     ELSE [items |-> FirstOf(SubSeq(items, start + 1, Len(items)), limit)]

RecentPage(rows, ids, after, limit) ==
  AfterPosition(SetToSortSeq(Listed(rows, ids), Newer), after, limit)

MemListProjects(m, after, limit) ==
  RecentPage(m.projects, Rows(m.projects), after, limit)

MemListThreads(m, p, after, limit) ==
  IF m.projects[p] = None THEN Error("NotFound")
  ELSE RecentPage(m.threads, OfProject(m.threads, p), after, limit)

MemListAutomations(m, p, after, limit) ==
  IF m.projects[p] = None THEN Error("NotFound")
  ELSE RecentPage(m.automations, OfProject(m.automations, p), after, limit)

MemListMessages(m, h, after, limit) ==
  LET Earlier(x, y) == m.messages[x.id].sequence < m.messages[y.id].sequence
      items == SetToSortSeq({[id |-> n] : n \in OfThread(m, h)}, Earlier)
      page == AfterPosition(items, after, limit)
  IN IF m.threads[h] = None THEN Error("NotFound")
     ELSE IF IsError(page) THEN page
     ELSE [items |-> [i \in DOMAIN page.items |-> page.items[i].id]]

SearchCandidates(m) ==
  {Hit(m, d, Canonical(m, d)) : d \in {d \in Documents : Canonical(m, d) # None}}

MemSearch(m, project, text) ==
  {hit \in SearchCandidates(m) : /\ text \in {hit.title, hit.body}
                                 /\ project \in {None, hit.project}}

-----------------------------------------------------------------------------
(* The same calls of the WorkspaceStore port, legal or not, in every order *)
(* on the encrypted database and on the in-memory store.                   *)
(*                                                                         *)
(* Left out, since the two stores differ there: a second history entry for *)
(* a slot that says something else (the database refuses it, the in-memory *)
(* store answers the first), and the order of search hits.                 *)

Saves(table) ==
  CASE table = "projects" -> {"update_project", "archive_project"}
    [] table = "threads" -> {"update_thread", "archive_thread"}
    [] table = "messages" -> {"update_message", "delete_message"}
    [] table = "automations" -> {"update_automation", "archive_automation"}

Tables == {"projects", "threads", "messages", "automations"}

\* A save whose caller loaded the row as it is, or a revision that is not
\* there yet.
Calls(keys, times, texts) ==
  [op : {"create"}, table : Tables, id : {1, 2}, key : keys, text : texts, at : times]
  \cup UNION {[op : {"save"}, table : {table}, scope : Saves(table), id : {1},
               key : keys, text : texts, at : times, ahead : BOOLEAN] : table \in Tables}
  \cup [op : {"turn", "settle", "schedule"}, at : {Max(times)}]
  \cup [op : {"record"}, slot : times, at : {Max(times)}]
  \cup [op : {"history"}, after : {0, 1}]
  \cup [op : {"list"}, table : Tables, after : {None, 1, 2}]
  \cup [op : {"search"}, project : {None, 1}, text : texts]

Scope(table) ==
  CASE table = "projects" -> "create_project"
    [] table = "threads" -> "create_thread"
    [] table = "messages" -> "create_message"
    [] table = "automations" -> "create_automation"

Created(c) ==
  CASE c.table = "projects" -> NewProject(c.text, c.at)
    [] c.table = "threads" -> NewThread(1, c.text, c.at)
    [] c.table = "messages" -> NewMessage(1, c.text, c.at)
    [] c.table = "automations" -> NewAutomation(1, c.text, TRUE, c.at)

Saved(row, c) ==
  CASE c.scope = "update_project" -> UpdatedProject(row, c.text, c.at)
    [] c.scope = "archive_project" -> ArchivedProject(row, c.at)
    [] c.scope = "update_thread" -> UpdatedThread(row, c.text, c.at)
    [] c.scope = "archive_thread" -> ArchivedThread(row, c.at)
    [] c.scope = "update_message" -> UpdatedMessage(row, c.text, c.at)
    [] c.scope = "delete_message" -> DeletedMessage(row, c.at)
    [] c.scope = "update_automation" -> UpdatedAutomation(row, c.text, FALSE, c.at)
    [] c.scope = "archive_automation" -> ArchivedAutomation(row, c.at)

Command(scope, c) == [scope |-> scope, key |-> c.key, print |-> <<c.id, c.text>>]

Expected(row, c) == IF c.ahead THEN row.revision + 1 ELSE row.revision

Unsent(s) == Refuse(s, Error("Unsent"))

OnCreate(t, c) ==
  LET row == Created(c)
      command == Command(Scope(c.table), c)
  IN CASE c.table = "projects" -> CreateProject(t, c.id, row, command)
       [] c.table = "threads" -> CreateThread(t, c.id, row, command)
       [] c.table = "messages" -> CreateMessage(t, c.id, row, command)
       [] c.table = "automations" -> CreateAutomation(t, c.id, row, command)

OnSave(t, c, row, expected) ==
  LET command == Command(c.scope, c)
  IN CASE c.table = "projects" -> SaveProject(t, c.id, row, expected, command)
       [] c.table = "threads" -> SaveThread(t, c.id, row, expected, command)
       [] c.table = "messages" -> SaveMessage(t, c.id, row, expected, command)
       [] c.table = "automations" -> SaveAutomation(t, c.id, row, expected, command)

OnList(t, c) ==
  CASE c.table = "projects" -> ListProjects(t, c.after, 1)
    [] c.table = "threads" -> ListThreads(t, 1, c.after, 1)
    [] c.table = "messages" -> ListMessages(t, 1, c.after, 1)
    [] c.table = "automations" -> ListAutomations(t, 1, c.after, 1)

MemOnCreate(m, c) ==
  LET row == Created(c)
      command == Command(Scope(c.table), c)
  IN CASE c.table = "projects" -> MemCreateProject(m, c.id, row, command)
       [] c.table = "threads" -> MemCreateThread(m, c.id, row, command)
       [] c.table = "messages" -> MemCreateMessage(m, c.id, row, command)
       [] c.table = "automations" -> MemCreateAutomation(m, c.id, row, command)

MemOnSave(m, c, row, expected) ==
  LET command == Command(c.scope, c)
  IN CASE c.table = "projects" -> MemSaveProject(m, c.id, row, expected, command)
       [] c.table = "threads" -> MemSaveThread(m, c.id, row, expected, command)
       [] c.table = "messages" -> MemSaveMessage(m, c.id, row, expected, command)
       [] c.table = "automations" -> MemSaveAutomation(m, c.id, row, expected, command)

MemOnList(m, c) ==
  CASE c.table = "projects" -> MemListProjects(m, c.after, 1)
    [] c.table = "threads" -> MemListThreads(m, 1, c.after, 1)
    [] c.table = "messages" -> MemListMessages(m, 1, c.after, 1)
    [] c.table = "automations" -> MemListAutomations(m, 1, c.after, 1)

\* A row is saved only as the domain changes it.
Proposable(s, c) ==
  CASE c.op = "save" ->
         /\ s[c.table][c.id] # None
         /\ ~IsError(Saved(s[c.table][c.id], c))
    [] c.op = "turn" -> s.threads[1] # None
    [] c.op = "schedule" -> s.automations[1] # None
    [] c.op = "record" ->
         /\ ~IsError(HistoryEntry(c.slot, c.at, "Succeeded"))
         /\ \A i \in DOMAIN s.history[1] : s.history[1][i].slot = c.slot =>
              s.history[1][i].at = c.at
    [] OTHER -> TRUE

OnTables(t, c) ==
  LET row == t[c.table][c.id]
  IN CASE ~Proposable(t, c) -> Unsent(t)
       [] Proposable(t, c) /\ c.op = "create" -> OnCreate(t, c)
       [] Proposable(t, c) /\ c.op = "save" -> OnSave(t, c, Saved(row, c), Expected(row, c))
       [] Proposable(t, c) /\ c.op = "turn" -> ReserveTurn(t, 1, 3, 1, c.at)
       [] c.op = "settle" -> EndTurn(t, 1)
       [] Proposable(t, c) /\ c.op = "schedule" -> Schedule(t, 1)
       [] Proposable(t, c) /\ c.op = "record" ->
            RecordHistory(t, 1, HistoryEntry(c.slot, c.at, "Succeeded"))
       [] c.op = "history" -> Refuse(t, History(t, 1, c.after, 1))
       [] c.op = "list" -> Refuse(t, OnList(t, c))
       [] c.op = "search" -> Refuse(t, [hits |-> Search(t, c.project, c.text)])

OnMaps(m, c) ==
  LET row == m[c.table][c.id]
  IN CASE ~Proposable(m, c) -> Unsent(m)
       [] Proposable(m, c) /\ c.op = "create" -> MemOnCreate(m, c)
       [] Proposable(m, c) /\ c.op = "save" ->
            MemOnSave(m, c, Saved(row, c), Expected(row, c))
       [] Proposable(m, c) /\ c.op = "turn" -> MemReserveTurn(m, 1, 3, 1, c.at)
       [] c.op = "settle" -> EndTurn(m, 1)
       [] Proposable(m, c) /\ c.op = "schedule" -> Schedule(m, 1)
       [] Proposable(m, c) /\ c.op = "record" ->
            MemRecordHistory(m, 1, HistoryEntry(c.slot, c.at, "Succeeded"))
       [] c.op = "history" -> Refuse(m, MemHistory(m, 1, c.after, 1))
       [] c.op = "list" -> Refuse(m, MemOnList(m, c))
       [] c.op = "search" -> Refuse(m, [hits |-> MemSearch(m, c.project, c.text)])

Same(x, y) == IF IsError(x) \/ IsError(y) THEN IsError(x) /\ IsError(y) ELSE x = y

Shared(s) ==
  [projects |-> s.projects, threads |-> s.threads, messages |-> s.messages,
   automations |-> s.automations, history |-> s.history, commands |-> s.commands]

\* Whatever sequence of calls was made, the two stores hold the same entities,
\* history and commands and give the next call the same answer: an index kept
\* by triggers finds what reading every entity finds, and a page behind a
\* cursor's time is the page behind its place in the sorted list.
Agree(t, m) == Shared(t) = Shared(m)
=============================================================================
