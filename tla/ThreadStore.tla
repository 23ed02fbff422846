---------------------------- MODULE ThreadStore ----------------------------
(***************************************************************************)
(* Conversation threads, their messages and turns, and the forks that      *)
(* connect them, as the encrypted store keeps them.  Every operation is    *)
(* one SQLite transaction: a function of the tables and the call that      *)
(* gives the new tables and the caller's answer.                           *)
(*                                                                         *)
(* Identifiers are naturals handed out in order, since the program draws   *)
(* fresh ones.  A request fingerprint is the record of what it covers.  A  *)
(* turn's linked run and effect move with it (see DirectChat), so only its *)
(* state is kept; its revision is a function of that state.                *)
(*                                                                         *)
(* The answer "Constraint" is a Conflict to the caller: it tells apart the *)
(* rows the schema refuses from what the store itself refuses.             *)
(***************************************************************************)
EXTENDS Integers, FiniteSets, Sequences

LOCAL INSTANCE FiniteSetsExt

CONSTANTS
  None,
  Threads, Messages, Turns,  \* identifiers, 1 .. n each
  MaxForkDepth,              \* 64 in the code
  MaxChildren,               \* MAX_CONVERSATION_FORK_DIRECT_CHILDREN, 64
  MaxFamily,                 \* MAX_CONVERSATION_FORK_FAMILY_THREADS, 256
  MaxAliases,                \* MAX_CONVERSATION_FORK_DELIVERY_ALIASES, 64
  MaxContext,                \* MAX_CONVERSATION_CONTEXT_MESSAGES, 1000
  MaxRetries,                \* 64 in the code
  MaxOutcomes,               \* MAX_CONVERSATION_FORK_INHERITED_OUTCOMES, 256
  MaxBytes,                  \* MAX_CONVERSATION_FORK_METADATA_BYTES, 3 MiB
  ThreadBytes,               \* [title]: what a thread adds to the metadata estimate
  OutcomeBytes,              \* [turn]: what its inherited outcome adds to it
  StoredBytes                \* [turn]: the same outcome as the database measures it

\* MAX_CONVERSATION_SNAPSHOT_ANCESTRY and
\* MAX_CONVERSATION_INHERITED_SOURCE_EDGES: 65, one more than the deepest fork.
Ancestry == MaxForkDepth + 1

\* Mutant: the limit counts edges where the walk counts messages.
SourceEdgesShort == MaxForkDepth

SourceEdges == MaxForkDepth + 1

ForkKinds == {"Branch", "EditAndBranch", "Regenerate"}

Refuse(t, why)    == [tables |-> t, answer |-> [error |-> why]]
Commit(t, answer) == [tables |-> t, answer |-> answer]
IsError(answer)   == "error" \in DOMAIN answer

Rows(table)  == {i \in DOMAIN table : table[i] # None}
Fresh(table) == Cardinality(Rows(table)) + 1

Empty ==
  [project    |-> "Active",
   threads    |-> [i \in Threads |-> None],
   messages   |-> [i \in Messages |-> None],
   turns      |-> [i \in Turns |-> None],
   outcomes   |-> [i \in Messages |-> None],
   commands   |-> {},
   deliveries |-> [i \in Threads |-> None],
   aliases    |-> {},
   acks       |-> {}]

\* An original thread is the root of its own family.
OriginalThread(id, title, now) ==
  [state |-> "Open", title |-> title, at |-> now, root |-> id, depth |-> 0,
   kind |-> "Original", parent |-> None, from |-> None, message |-> None]

WithThread(t, title, now) ==
  LET id == Fresh(t.threads)
  IN  [t EXCEPT !.threads[id] = OriginalThread(id, title, now)]

-----------------------------------------------------------------------------
(* messages, frozen contexts and the turns that own them *)

Revision(state) ==
  CASE state = "Reserved"                       -> 0
    [] state \in {"ProviderStarted", "Cancelled"} -> 1
    [] OTHER                                    -> 2

MessagesOf(t, th) == {m \in Rows(t.messages) : t.messages[m].thread = th}

InSequence(t, S) ==
  [i \in 1 .. Cardinality(S) |->
     CHOOSE m \in S :
       Cardinality({n \in S : t.messages[n].seq =< t.messages[m].seq}) = i]

\* What conversation_turn_context keeps of a message.
Entry(t, m) ==
  [id |-> m, seq |-> t.messages[m].seq,
   role |-> t.messages[m].role, text |-> t.messages[m].text]

Entries(t, ids) == [i \in DOMAIN ids |-> Entry(t, ids[i])]

NextSequence(t, th) == Cardinality(MessagesOf(t, th)) + 1

WithMessage(t, th, role, text, origin) ==
  [t EXCEPT !.messages[Fresh(t.messages)] =
     [thread |-> th, seq |-> NextSequence(t, th), role |-> role,
      text |-> text, origin |-> origin]]

Derived(t, th) == {m \in MessagesOf(t, th) : t.messages[m].origin # None}

LinkedMessage(t, m, th, role) ==
  m # None /\ t.messages[m].thread = th /\ t.messages[m].role = role

\* validate_context
ContextCanonical(ctx) ==
  /\ Len(ctx) \in 1 .. MaxContext
  /\ \A i, j \in DOMAIN ctx : i < j => ctx[i].seq < ctx[j].seq /\ ctx[i].id # ctx[j].id

RetryEligible(u) ==
  u.state = "Cancelled" \/ (u.state = "Failed" /\ u.retryable)

ForkEligible(kind, state) ==
  IF kind = "EditAndBranch" THEN state \in {"Completed", "Cancelled", "Failed"}
                            ELSE state = "Completed"

-----------------------------------------------------------------------------
(* what the schema's triggers demand of the rows a transaction inserts *)

\* conversation_thread_forks_validate_insert
ForkRowAllowed(t, th) ==
  LET child  == t.threads[th]
      parent == t.threads[child.parent]
      u      == t.turns[child.from]
      others == Rows(t.threads) \ {th}
  IN  /\ child.parent # th /\ child.depth \in 1 .. MaxForkDepth
      /\ child.title = parent.title /\ child.state = "Open" /\ child.at >= parent.at
      /\ t.project = "Active"
      /\ u.thread = child.parent /\ t.messages[child.message].thread = child.parent
      /\ child.root = parent.root /\ child.depth = parent.depth + 1
      /\ CASE child.kind = "EditAndBranch" ->
                u.state \in {"Completed", "Failed", "Cancelled"} /\ child.message = u.user
           [] OTHER -> u.state = "Completed" /\ child.message = u.answer
      /\ Cardinality({c \in others : t.threads[c].parent = child.parent}) < MaxChildren
      /\ Cardinality({c \in others : t.threads[c].root = child.root}) < MaxFamily

\* conversation_message_derivations_validate_insert
CopyRowAllowed(t, m) ==
  LET row    == t.messages[m]
      child  == t.threads[row.thread]
      origin == row.origin
      u      == t.turns[child.from]
      source == t.messages[origin.from]
  IN  /\ origin.turn = child.from /\ u.thread = child.parent
      /\ source.thread = child.parent
      /\ CASE origin.how = "Context" ->
                /\ \E i \in DOMAIN u.ctx : u.ctx[i] = Entry(t, origin.from) /\ origin.at = i
                /\ row.seq = origin.at /\ row.role = source.role /\ row.text = source.text
           [] origin.how = "Assistant" ->
                /\ child.kind = "Branch" /\ u.state = "Completed" /\ u.answer = origin.from
                /\ row.role = "assistant" /\ row.text = source.text
                /\ row.seq = Len(u.ctx) + 1
           [] OTHER ->
                /\ child.kind = "EditAndBranch" /\ u.user = origin.from
                /\ row.role = "user" /\ row.text # source.text
                /\ row.seq = origin.at /\ origin.at = Len(u.ctx)

\* conversation_inherited_assistant_outcomes_validate_insert
OutcomeRowAllowed(t, m) ==
  LET k      == t.outcomes[m]
      origin == t.messages[m].origin
      answer == t.turns[k].answer
  IN  /\ t.messages[m].role = "assistant" /\ t.turns[k].state = "Completed"
      /\ t.messages[answer].text = t.messages[m].text
      /\ CASE origin.how = "Assistant" -> origin.turn = k /\ origin.from = answer
           [] origin.how = "Context" ->
                /\ t.messages[origin.from].role = "assistant"
                /\ origin.from = answer \/ t.outcomes[origin.from] = k
           [] OTHER -> FALSE

\* conversation_turn_lineage_validate_insert and the unique index on retries
LineageRowAllowed(t, k) ==
  LET u == t.turns[k]
      s == t.turns[u.source]
      child == t.threads[u.thread]
  IN  /\ u.state = "Reserved"
      /\ CASE u.origin = "Original" -> u.source = None /\ u.depth = 0
           [] u.origin = "Retry" ->
                /\ u.depth = s.depth + 1 /\ u.depth =< MaxRetries
                /\ s.thread = u.thread /\ RetryEligible(s)
                /\ t.messages[u.user].text = t.messages[s.user].text
                /\ t.messages[u.user].seq = t.messages[s.user].seq + 1
                /\ \A m \in MessagesOf(t, u.thread) \ {u.user} :
                     t.messages[m].seq =< t.messages[s.user].seq
                /\ \A r \in Rows(t.turns) \ {k} :
                     ~(t.turns[r].origin = "Retry" /\ t.turns[r].source = u.source)
           [] OTHER ->
                /\ u.depth = 0 /\ child.kind = u.origin /\ child.from = u.source
                /\ s.thread = child.parent
                /\ t.messages[u.user].origin.turn = u.source
                /\ t.messages[u.user].origin.how =
                     (IF u.origin = "EditAndBranch" THEN "Edit" ELSE "Context")
                /\ u.ctx = Entries(t, InSequence(t, MessagesOf(t, u.thread)))

\* conversation_fork_commands_validate_insert,
\* conversation_fork_commands_reject_delivery_alias_key and the index
\* conversation_fork_deliveries_one_pending_request
CommandRowAllowed(t, r) ==
  LET child == t.threads[r.child]
      u     == t.turns[r.turn]
  IN  /\ child.from = r.source /\ Revision(t.turns[r.source].state) = r.expected
      /\ child.kind = r.kind /\ (r.turn = None) = (r.kind = "Branch")
      /\ r.turn # None =>
           /\ u.thread = r.child /\ u.key = r.key /\ u.print = r.print
           /\ u.state = "Reserved" /\ u.origin = child.kind
      /\ \A m \in MessagesOf(t, r.child) :
           /\ t.messages[m].origin # None
           /\ t.messages[m].role = "assistant" => t.outcomes[m] # None
      /\ \A a \in t.aliases : <<a.kind, a.key>> # <<r.kind, r.key>>
      /\ \A th \in Rows(t.deliveries) \ {r.child} :
           LET d == t.deliveries[th]
           IN  ~(d.kind = r.kind /\ d.print = r.print /\ ~d.acked)

\* conversation_fork_delivery_aliases_validate_insert
AliasRowAllowed(t, a) ==
  LET d == t.deliveries[a.child]
  IN  /\ d # None /\ d.kind = a.kind /\ d.print = a.print /\ ~d.acked
      /\ \A r \in t.commands : <<r.kind, r.key>> # <<a.kind, a.key>>
      /\ Cardinality({b \in t.aliases \ {a} : b.child = a.child}) < MaxAliases

\* conversation_fork_delivery_ack_commands_validate_insert and its unique child
AckRowAllowed(t, a) ==
  /\ t.deliveries[a.child].acked /\ a.expected = 0
  /\ \A b \in t.acks \ {a} : b.child # a.child /\ b.key # a.key

\* Every row of a new fork; a row that is refused rolls the transaction back.
ForkRowsAllowed(t, r) ==
  /\ ForkRowAllowed(t, r.child)
  /\ \A m \in MessagesOf(t, r.child) :
       /\ t.messages[m].origin # None /\ CopyRowAllowed(t, m)
       /\ t.outcomes[m] # None => OutcomeRowAllowed(t, m)
  /\ r.turn # None => LineageRowAllowed(t, r.turn)
  /\ CommandRowAllowed(t, r)

-----------------------------------------------------------------------------
(* outcomes inherited by copied assistant messages *)

DirectTurns(t, m) == {k \in Rows(t.turns) : t.turns[k].answer = m}

\* validate_completed_assistant_source
CompletedSource(t, k, m) ==
  /\ t.turns[k].state = "Completed"
  /\ t.turns[k].answer = m
  /\ LinkedMessage(t, m, t.turns[k].thread, "assistant")
  /\ t.messages[m].origin = None
  /\ LinkedMessage(t, t.turns[k].user, t.turns[k].thread, "user")
  /\ t.messages[m].seq > t.messages[t.turns[k].user].seq

\* validate_source_assistant_copy_edge
AssistantEdge(t, m, source, k) ==
  LET child  == t.threads[t.messages[m].thread]
      parent == t.threads[t.messages[source].thread]
  IN  /\ child.kind = "Branch" /\ child.from = k /\ child.message = source
      /\ child.parent = t.messages[source].thread
      /\ child.root = parent.root /\ child.depth = parent.depth + 1
      /\ t.messages[m].seq = Len(t.turns[k].ctx) + 1

\* validate_context_copy_edge
ContextEdge(t, m, source, k, at) ==
  LET child  == t.threads[t.messages[m].thread]
      parent == t.threads[t.messages[source].thread]
  IN  /\ child.kind # "Original" /\ child.from = k
      /\ child.parent = t.turns[k].thread
      /\ t.messages[source].thread = t.turns[k].thread
      /\ child.root = parent.root /\ child.depth = parent.depth + 1
      /\ t.messages[m].seq = at
      /\ at \in DOMAIN t.turns[k].ctx /\ t.turns[k].ctx[at] = Entry(t, source)

\* validate_inherited_assistant_chain: follow the copies back, at most
\* SourceEdges messages, to the answer of the turn the outcome names.
RECURSIVE ChainReaches(_, _, _, _)
ChainReaches(t, m, k, fuel) ==
  LET answer == t.turns[k].answer
      origin == t.messages[m].origin
  IN  /\ fuel > 0
      /\ \/ m = answer /\ DirectTurns(t, m) = {k} /\ t.outcomes[m] = None
         \/ /\ m # answer /\ t.outcomes[m] = k /\ origin # None
            /\ t.messages[origin.from].role = "assistant"
            /\ t.messages[origin.from].text = t.messages[m].text
            /\ \/ /\ origin.how = "Assistant" /\ origin.turn = k
                  /\ origin.from = answer
                  /\ AssistantEdge(t, m, origin.from, k)
               \/ /\ origin.how = "Context"
                  /\ ContextEdge(t, m, origin.from, origin.turn, origin.at)
            /\ ChainReaches(t, origin.from, k, fuel - 1)

\* inherited_source_turn: the turn that produced an assistant message, its own
\* or the one its copy inherited; None where the rows do not single one out.
SourceTurn(t, m) ==
  LET direct == DirectTurns(t, m)
  IN  IF Cardinality(direct) = 1 /\ t.outcomes[m] = None
        THEN LET k == CHOOSE d \in direct : TRUE
             IN  IF CompletedSource(t, k, m) THEN k ELSE None
      ELSE IF direct = {} /\ t.outcomes[m] # None
        THEN LET k == t.outcomes[m]
             IN  IF /\ CompletedSource(t, k, t.turns[k].answer)
                    /\ t.messages[m].text = t.messages[t.turns[k].answer].text
                    /\ ChainReaches(t, m, k, SourceEdges)
                   THEN k ELSE None
      ELSE None

-----------------------------------------------------------------------------
(* the copies of a fork, and the reading of persisted turns and forks *)

\* The messages of a fork of turn k, whose row is u and whose answer reads
\* `answer': context copies, then the assistant copy of a branch or the
\* edited prompt of an edit.
Copies(k, u, answer, kind, edited) ==
  LET n       == Len(u.ctx)
      copy(i) == [role |-> u.ctx[i].role, text |-> u.ctx[i].text,
                  origin |-> [from |-> u.ctx[i].id, turn |-> k,
                              how |-> "Context", at |-> i]]
      all     == [i \in 1 .. n |-> copy(i)]
  IN  CASE kind = "Branch" ->
             Append(all, [role |-> "assistant", text |-> answer,
                          origin |-> [from |-> u.answer, turn |-> k,
                                      how |-> "Assistant", at |-> 0]])
        [] kind = "EditAndBranch" ->
             Append(SubSeq(all, 1, n - 1),
                    [role |-> "user", text |-> edited,
                     origin |-> [from |-> u.user, turn |-> k,
                                 how |-> "Edit", at |-> n]])
        [] OTHER -> all

AnswerText(t, u) == IF u.answer = None THEN None ELSE t.messages[u.answer].text

\* validate_fork_source_context
SourceContextSound(t, k) ==
  LET u == t.turns[k]
  IN  /\ ContextCanonical(u.ctx)
      /\ \A i \in DOMAIN u.ctx : t.messages[u.ctx[i].id].thread = u.thread
      /\ u.ctx[Len(u.ctx)] = Entry(t, u.user)

\* validate_persisted_fork_messages_with_source
ForkMessagesSound(t, th) ==
  LET child == t.threads[th]
      u     == t.turns[child.from]
      ids   == InSequence(t, Derived(t, th))
      last  == t.messages[ids[Len(ids)]]
      strip(m) == [role |-> t.messages[m].role, text |-> t.messages[m].text,
                   origin |-> t.messages[m].origin]
  IN  /\ child.kind # "Original"
      /\ SourceContextSound(t, child.from)
      /\ u.thread = child.parent
      /\ [i \in DOMAIN ids |-> strip(ids[i])] =
           Copies(child.from, u, AnswerText(t, u), child.kind, last.text)
      /\ child.message = IF child.kind = "EditAndBranch" THEN u.user ELSE u.answer
      /\ child.kind = "EditAndBranch" => last.text # t.messages[u.user].text
      /\ \A i \in DOMAIN ids :
           t.messages[ids[i]].role = "assistant" =>
             /\ SourceTurn(t, ids[i]) # None
             /\ t.messages[ids[i]].origin.how = "Assistant" =>
                  SourceTurn(t, ids[i]) = child.from

\* validate_persisted_retry_lineage
RetrySound(t, k) ==
  LET u == t.turns[k]
      s == t.turns[u.source]
      n == Len(s.ctx)
  IN  /\ RetryEligible(s) /\ s.thread = u.thread
      /\ s.depth < MaxRetries /\ u.depth = s.depth + 1
      /\ t.messages[s.user].seq + 1 = t.messages[u.user].seq
      /\ t.messages[s.user].text = t.messages[u.user].text
      /\ s.ctx[n] = Entry(t, s.user) /\ Len(u.ctx) = n
      /\ u.ctx[n] = Entry(t, u.user)
      /\ SubSeq(s.ctx, 1, n - 1) = SubSeq(u.ctx, 1, n - 1)

\* validate_persisted_fork_turn: the turn a fork started, its thread, copies,
\* frozen context and command agree.
ForkTurnSound(t, k) ==
  LET u     == t.turns[k]
      child == t.threads[u.thread]
  IN  /\ child.kind = u.origin /\ child.from = u.source
      /\ t.turns[u.source].thread = child.parent
      /\ ForkMessagesSound(t, u.thread)
      /\ ForkEligible(u.origin, t.turns[u.source].state)
      /\ u.ctx = Entries(t, InSequence(t, Derived(t, u.thread)))
      /\ u.ctx[Len(u.ctx)] = Entry(t, u.user)
      /\ \E r \in t.commands :
           r.turn = k /\ r.print = u.print /\ r.source = u.source /\ r.child = u.thread

\* validate_persisted_snapshot; the ancestry of forked turns is followed at
\* most Ancestry turns back.
RECURSIVE SnapshotSound(_, _, _)
SnapshotSound(t, k, fuel) ==
  LET u == t.turns[k]
  IN  /\ fuel > 0
      /\ LinkedMessage(t, u.user, u.thread, "user")
      /\ IF u.state = "Completed"
           THEN /\ LinkedMessage(t, u.answer, u.thread, "assistant")
                /\ t.messages[u.answer].seq > t.messages[u.user].seq
           ELSE u.answer = None
      /\ u.origin = "Retry" => RetrySound(t, k)
      /\ u.origin \in {"EditAndBranch", "Regenerate"} =>
           SnapshotSound(t, u.source, fuel - 1) /\ ForkTurnSound(t, k)

Readable(t, k) == SnapshotSound(t, k, Ancestry)

-----------------------------------------------------------------------------
(* reserve_turn, commit_provider_start, commit_terminal *)

TurnOfKey(t, key) == {k \in Rows(t.turns) : t.turns[k].key = key}

Busy(t, th) ==
  \E k \in Rows(t.turns) :
    t.turns[k].thread = th /\ t.turns[k].state \in {"Reserved", "ProviderStarted"}

\* query_active_messages: prompts of turns that did not complete are left out.
ActiveMessages(t, th) ==
  {m \in MessagesOf(t, th) :
     \A k \in Rows(t.turns) : t.turns[k].user = m => t.turns[k].state = "Completed"}

\* validate_thread_fork_material, validate_context_source_turns
MaterialSound(t, th) ==
  /\ IF t.threads[th].kind = "Original"
       THEN Derived(t, th) = {}
       ELSE Derived(t, th) # {} /\ Readable(t, t.threads[th].from) /\ ForkMessagesSound(t, th)
  /\ \A m \in ActiveMessages(t, th), k \in Rows(t.turns) :
       m \in {t.turns[k].user, t.turns[k].answer} =>
         Readable(t, k) /\ t.turns[k].state = "Completed"

\* A turn as it is reserved; u.user is its prompt, the last of its context.
NewTurn(th, user, key, print, origin, source, depth, ctx) ==
  [thread |-> th, user |-> user, answer |-> None, state |-> "Reserved",
   key |-> key, print |-> print, origin |-> origin, source |-> source,
   depth |-> depth, retryable |-> FALSE, ctx |-> ctx]

\* retry_source_is_latest: no message follows the source's prompt, and no
\* retry of it exists.
LatestSource(t, k) ==
  /\ t.messages[t.turns[k].user].seq = Cardinality(MessagesOf(t, t.turns[k].thread))
  /\ ~\E r \in Rows(t.turns) : t.turns[r].origin = "Retry" /\ t.turns[r].source = k

OriginOf(c) == IF c.source = None THEN "Original" ELSE "Retry"

\* A start (c.source = None) or a retry of c.source in thread c.thread.
ReserveVerdict(t, c) ==
  LET s == t.turns[c.source]
  IN  IF t.threads[c.thread].state # "Open" \/ t.project # "Active" \/ Busy(t, c.thread)
        THEN "Conflict"
      ELSE IF c.source = None
        THEN IF ~MaterialSound(t, c.thread) THEN "Internal"
             ELSE IF Cardinality(ActiveMessages(t, c.thread)) >= MaxContext THEN "Conflict"
             ELSE None
      ELSE IF s = None THEN "NotFound"
      ELSE IF ~Readable(t, c.source) THEN "Internal"
      ELSE IF \/ Revision(s.state) # c.expected \/ ~RetryEligible(s)
              \/ s.thread # c.thread \/ ~LatestSource(t, c.source)
              \/ s.depth >= MaxRetries
              \/ c.text # t.messages[s.user].text
        THEN "Conflict"
      ELSE None

\* The reserved turn of a new command: its prompt, then its row with the
\* context the provider will see.
Reserved(t, c) ==
  LET user == Fresh(t.messages)
      with == WithMessage(t, c.thread, "user", c.text, None)
      past == IF c.source = None
                THEN Entries(t, InSequence(t, ActiveMessages(t, c.thread)))
                ELSE SubSeq(t.turns[c.source].ctx, 1, Len(t.turns[c.source].ctx) - 1)
      row  == NewTurn(c.thread, user, c.key, c.print,
                      OriginOf(c), c.source,
                      IF c.source = None THEN 0 ELSE t.turns[c.source].depth + 1,
                      Append(past, Entry(with, user)))
  IN  [with EXCEPT !.turns[Fresh(t.turns)] = row]

TurnAnswer(t, k, created) == [turn |-> k, row |-> t.turns[k], created |-> created]

ReserveTurn(t, c) ==
  LET existing == TurnOfKey(t, c.key)
      k        == CHOOSE e \in existing : TRUE
      verdict  == ReserveVerdict(t, c)
  IN  IF existing # {}
        THEN IF t.turns[k].print # c.print THEN Refuse(t, "Conflict")
             ELSE IF ~Readable(t, k) THEN Refuse(t, "Internal")
             ELSE IF t.turns[k].origin # OriginOf(c) \/ t.turns[k].source # c.source
               THEN Refuse(t, "Conflict")
             ELSE Commit(t, TurnAnswer(t, k, FALSE))
      ELSE IF verdict # None THEN Refuse(t, verdict)
      ELSE LET after == Reserved(t, c)
               new   == Fresh(t.turns)
           IN  IF ~LineageRowAllowed(after, new) THEN Refuse(t, "Constraint")
               ELSE IF ~Readable(after, new) THEN Refuse(t, "Internal")
               ELSE Commit(after, TurnAnswer(after, new, TRUE))

TurnEdges ==
  {<<"Reserved", "ProviderStarted">>, <<"Reserved", "Cancelled">>,
   <<"ProviderStarted", "Completed">>, <<"ProviderStarted", "Failed">>,
   <<"ProviderStarted", "InterruptedNeedsReview">>}

\* A start or terminal commit planned at revision `expected'.  The answer of a
\* completed turn is appended to its thread.
Advance(t, k, expected, to, retryable, text) ==
  LET u    == t.turns[k]
      said == WithMessage(t, u.thread, "assistant", text, None)
  IN  IF u = None THEN Refuse(t, "NotFound")
      ELSE IF ~Readable(t, k) THEN Refuse(t, "Internal")
      ELSE IF Revision(u.state) # expected \/ <<u.state, to>> \notin TurnEdges
        THEN Refuse(t, "Conflict")
      ELSE LET after == IF to = "Completed"
                          THEN [said EXCEPT !.turns[k].state = to,
                                            !.turns[k].answer = Fresh(t.messages)]
                          ELSE [t EXCEPT !.turns[k].state = to,
                                         !.turns[k].retryable = retryable]
           IN  IF Readable(after, k) THEN Commit(after, TurnAnswer(after, k, TRUE))
                                     ELSE Refuse(t, "Internal")

-----------------------------------------------------------------------------
(* fork commands, their delivery and its aliases *)

CommandOf(t, c)   == {r \in t.commands : r.kind = c.kind /\ r.key = c.key}
AliasOf(t, c)     == {a \in t.aliases : a.kind = c.kind /\ a.key = c.key}
CommandFor(t, th) == {r \in t.commands : r.child = th}
AliasesFor(t, th) == {a \in t.aliases : a.child = th}

Found(r)    == [record |-> r, error |-> None]
Broken(why) == [record |-> None, error |-> why]
Nothing     == [record |-> None, error |-> None]

The(S) == CHOOSE x \in S : TRUE

\* query_exact_fork_command
ExactCommand(t, c) ==
  LET own    == CommandOf(t, c)
      alias  == AliasOf(t, c)
      behind == CommandFor(t, The(alias).child)
  IN  IF own # {} /\ alias # {} THEN Broken("Internal")
      ELSE IF own # {}
        THEN IF The(own).print # c.print THEN Broken("Conflict") ELSE Found(The(own))
      ELSE IF alias # {}
        THEN IF The(alias).print # c.print THEN Broken("Conflict")
             ELSE IF behind = {} THEN Broken("Internal")
             ELSE IF The(behind).kind # c.kind \/ The(behind).print # c.print
               THEN Broken("Internal")
             ELSE Found(The(behind))
      ELSE Nothing

\* query_pending_fork_command
PendingCommand(t, c) ==
  LET waiting == {th \in Rows(t.deliveries) :
                    LET d == t.deliveries[th]
                    IN  d.kind = c.kind /\ d.print = c.print /\ ~d.acked}
      behind  == CommandFor(t, The(waiting))
  IN  IF Cardinality(waiting) > 1 THEN Broken("Internal")
      ELSE IF waiting = {} THEN Nothing
      ELSE IF behind = {} THEN Broken("Internal")
      ELSE IF The(behind).kind # c.kind \/ The(behind).print # c.print
        THEN Broken("Internal")
      ELSE Found(The(behind))

\* query_fork_delivery
DeliverySound(t, r) ==
  LET d == t.deliveries[r.child]
  IN  /\ d # None
      /\ d.kind = r.kind /\ d.print = r.print /\ CommandFor(t, r.child) = {r}
      /\ Cardinality(AliasesFor(t, r.child)) =< MaxAliases
      /\ \A a \in AliasesFor(t, r.child) :
           a.kind = r.kind /\ a.print = r.print /\ CommandOf(t, a) = {}

\* query_fork_snapshot
ForkSound(t, r) ==
  LET child == t.threads[r.child]
      ids   == InSequence(t, Derived(t, r.child))
      u     == t.turns[r.turn]
  IN  /\ child.kind # "Original" /\ child.from = r.source
      /\ Revision(t.turns[r.source].state) = r.expected
      /\ ids # << >> /\ \A i \in DOMAIN ids : t.messages[ids[i]].seq = i
      /\ Readable(t, r.source) /\ ForkMessagesSound(t, r.child)
      /\ (child.kind = "Branch") = (r.turn = None)
      /\ r.turn # None =>
           /\ Readable(t, r.turn)
           /\ u.origin = child.kind /\ u.source = r.source
           /\ u.thread = r.child /\ u.print = r.print
           /\ u.key = r.key
      /\ DeliverySound(t, r)

ForkAnswer(t, r, created, reconciled) ==
  [child |-> r.child, copies |-> InSequence(t, Derived(t, r.child)),
   turn |-> r.turn, state |-> IF r.turn = None THEN None ELSE t.turns[r.turn].state,
   acked |-> t.deliveries[r.child].acked, created |-> created,
   reconciled |-> reconciled]

\* The transaction commits only if the fork it answers with reads back.
Deliver(t, after, r, created, reconciled) ==
  IF ForkSound(after, r)
    THEN Commit(after, ForkAnswer(after, r, created, reconciled))
    ELSE Refuse(t, "Internal")

\* insert_fork_delivery_alias
AddAlias(t, c, th) ==
  [t EXCEPT !.aliases = @ \cup {[kind |-> c.kind, key |-> c.key, print |-> c.print,
                                 child |-> th]}]

Reconcile(t, c, r) ==
  LET after == AddAlias(t, c, r.child)
  IN  IF Cardinality(AliasesFor(t, r.child)) >= MaxAliases THEN Refuse(t, "Conflict")
      ELSE IF ~AliasRowAllowed(after, The(AliasOf(after, c))) THEN Refuse(t, "Constraint")
      ELSE Deliver(t, after, r, FALSE, TRUE)

Absent(t) == Commit(t, [child |-> None])

ResolveFork(t, c) ==
  LET exact   == ExactCommand(t, c)
      pending == PendingCommand(t, c)
  IN  IF exact.error # None THEN Refuse(t, exact.error)
      ELSE IF exact.record # None THEN Deliver(t, t, exact.record, FALSE, FALSE)
      ELSE IF pending.error # None THEN Refuse(t, pending.error)
      ELSE IF pending.record # None THEN Reconcile(t, c, pending.record)
      ELSE Absent(t)

-----------------------------------------------------------------------------
(* reserve_conversation_fork *)

ChildrenOf(t, th) == {c \in Rows(t.threads) : t.threads[c].parent = th}
FamilyOf(t, root) == {c \in Rows(t.threads) : t.threads[c].root = root}

\* conversation_fork_metadata_is_within_bounds: a family and the outcomes
\* inherited by one of its threads, pairs of a message and a turn.  The fixed
\* overhead is taken off MaxBytes.
WithinBounds(t, family, inherited) ==
  /\ Cardinality(family) \in 1 .. MaxFamily
  /\ Cardinality(inherited) =< MaxOutcomes
  /\ MapThenSumSet(LAMBDA c : ThreadBytes[t.threads[c].title], family)
       + MapThenSumSet(LAMBDA o : OutcomeBytes[o[2]], inherited) =< MaxBytes

\* validate_projected_fork_metadata_budget: the child's metadata as it will
\* be.  The metadata of the threads it joins is not projected.
ProjectionFits(t, p, inherited) ==
  LET with == [t EXCEPT !.threads[Fresh(t.threads)] = p.thread]
  IN  WithinBounds(with, FamilyOf(with, p.thread.root), inherited)

\* validate_persisted_fork_metadata_storage_budget: another measure of the
\* same outcomes, without the family.
StorageFits(t, th) ==
  LET copied == {m \in Derived(t, th) : t.outcomes[m] # None}
  IN  /\ Cardinality(copied) =< MaxOutcomes
      /\ MapThenSumSet(LAMBDA m : StoredBytes[t.outcomes[m]], copied) =< MaxBytes

\* Thread::new_fork
ForkThread(parent, th, k, message, kind, now) ==
  [state |-> "Open", title |-> parent.title, at |-> now, root |-> parent.root,
   depth |-> parent.depth + 1, kind |-> kind, parent |-> th, from |-> k,
   message |-> message]

OutcomeOfCopy(t, p, copy) ==
  IF copy.origin.how = "Assistant" THEN p.source ELSE SourceTurn(t, copy.origin.from)

InheritedBy(t, p) ==
  {<<i, OutcomeOfCopy(t, p, p.copies[i])>> :
     i \in {j \in DOMAIN p.copies : p.copies[j].role = "assistant"}}

\* prepare_conversation_fork, check by check; None when the plan may commit.
PrepareVerdict(t, p) ==
  LET u      == t.turns[p.source]
      parent == t.threads[u.thread]
      edited == p.copies[Len(p.copies)].text
      source == IF p.kind = "EditAndBranch" THEN u.user ELSE u.answer
      expect == Copies(p.source, u, AnswerText(t, u), p.kind, edited)
  IN  IF u = None THEN "NotFound"
      ELSE IF ~Readable(t, p.source) THEN "Internal"
      ELSE IF Revision(u.state) # p.expected THEN "Conflict"
      ELSE IF \/ t.project # "Active" \/ p.thread.title # parent.title
              \/ p.thread.at < parent.at
        THEN "Conflict"
      ELSE IF ~SourceContextSound(t, p.source) \/ source = None THEN "Internal"
      ELSE IF \/ parent.depth >= MaxForkDepth
              \/ p.thread # ForkThread(parent, u.thread, p.source, source, p.kind, p.thread.at)
              \/ ~ForkEligible(p.kind, u.state)
        THEN "Conflict"
      ELSE IF t.threads[parent.root].kind # "Original" THEN "Internal"
      ELSE IF \/ Cardinality(ChildrenOf(t, u.thread)) >= MaxChildren
              \/ Cardinality(FamilyOf(t, parent.root)) >= MaxFamily
              \/ p.copies # expect
              \/ p.kind = "EditAndBranch" /\ edited = t.messages[u.user].text
        THEN "Conflict"
      ELSE IF \E i \in DOMAIN expect :
                /\ expect[i].role = "assistant" /\ expect[i].origin.how = "Context"
                /\ SourceTurn(t, expect[i].origin.from) = None
        THEN "Internal"
      ELSE IF \/ p.starts # (p.kind # "Branch")
              \/ p.starts /\ (Len(p.copies) > MaxContext \/ TurnOfKey(t, p.key) # {})
        THEN "Conflict"
      ELSE IF ~ProjectionFits(t, p, InheritedBy(t, p)) THEN "Conflict"
      ELSE None

\* The rows of a new fork: the child thread, its copies and their inherited
\* outcomes, the reserved turn, the command and its pending delivery.
Forked(t, p) ==
  LET child == Fresh(t.threads)
      base  == Fresh(t.messages) - 1
      n     == Len(p.copies)
      turn  == IF p.starts THEN Fresh(t.turns) ELSE None
      row(i) == [thread |-> child, seq |-> i, role |-> p.copies[i].role,
                 text |-> p.copies[i].text, origin |-> p.copies[i].origin]
      copied == [t EXCEPT
        !.threads[child] = p.thread,
        !.messages = [m \in Messages |->
                        IF m - base \in 1 .. n THEN row(m - base) ELSE @[m]],
        !.outcomes = [m \in Messages |->
                        IF m - base \in 1 .. n /\ p.copies[m - base].role = "assistant"
                          THEN OutcomeOfCopy(t, p, p.copies[m - base]) ELSE @[m]],
        !.commands = @ \cup {[kind |-> p.kind, key |-> p.key, print |-> p.print,
                              source |-> p.source, expected |-> p.expected,
                              child |-> child, turn |-> turn]},
        !.deliveries[child] = [kind |-> p.kind, print |-> p.print, acked |-> FALSE]]
      ids == [i \in 1 .. n |-> base + i]
  IN  IF ~p.starts THEN copied
      ELSE [copied EXCEPT !.turns[turn] =
              NewTurn(child, base + n, p.key, p.print, p.kind, p.source, 0,
                      Entries(copied, ids))]

ReserveFork(t, p) ==
  LET exact   == ExactCommand(t, p)
      pending == PendingCommand(t, p)
      verdict == PrepareVerdict(t, p)
      after   == Forked(t, p)
      record  == The(CommandOf(after, p))
  IN  IF exact.error # None THEN Refuse(t, exact.error)
      ELSE IF exact.record # None THEN Deliver(t, t, exact.record, FALSE, FALSE)
      ELSE IF pending.error # None THEN Refuse(t, pending.error)
      ELSE IF pending.record # None THEN Reconcile(t, p, pending.record)
      ELSE IF verdict # None THEN Refuse(t, verdict)
      ELSE IF ~ForkRowsAllowed(after, record) THEN Refuse(t, "Constraint")
      ELSE Deliver(t, after, record, TRUE, FALSE)

-----------------------------------------------------------------------------
(* acknowledgement, family metadata, and the workspace's own writes *)

\* acknowledge_conversation_fork_delivery; a delivery is at revision 0 until
\* it is acknowledged and at revision 1 from then on.
AcknowledgeFork(t, key, th, expected) ==
  LET prior == {a \in t.acks : a.key = key}
      r     == The(CommandFor(t, th))
      d     == t.deliveries[th]
      owner == The(CommandFor(t, The(prior).child))
      new   == [key |-> key, child |-> th, expected |-> expected]
      after == [t EXCEPT !.deliveries[th].acked = TRUE, !.acks = @ \cup {new}]
  IN  IF prior # {}
        THEN IF ~DeliverySound(t, owner) \/ ~t.deliveries[The(prior).child].acked
               THEN Refuse(t, "Internal")
             ELSE IF The(prior).child # th \/ The(prior).expected # expected
               THEN Refuse(t, "Conflict")
             ELSE Commit(t, [child |-> th, acked |-> TRUE])
      ELSE IF CommandFor(t, th) = {}
        THEN Refuse(t, IF t.threads[th] = None THEN "NotFound"
                       ELSE IF t.threads[th].kind # "Original" THEN "Internal"
                       ELSE "Conflict")
      ELSE IF ~DeliverySound(t, r) THEN Refuse(t, "Internal")
      ELSE IF d.acked \/ expected # 0 THEN Refuse(t, "Conflict")
      ELSE IF ~AckRowAllowed(after, new) THEN Refuse(t, "Constraint")
      ELSE Commit(after, [child |-> th, acked |-> TRUE])

\* query_fork_metadata
FamilySound(t, th) ==
  LET family == FamilyOf(t, t.threads[th].root)
  IN  /\ th \in family /\ Cardinality(family) =< MaxFamily
      /\ \A c \in family :
           LET row == t.threads[c]
               p   == t.threads[row.parent]
           IN  row.kind # "Original" =>
                 /\ row.parent \in family /\ row.depth = p.depth + 1
                 /\ t.turns[row.from].thread = row.parent
                 /\ t.messages[row.message].thread = row.parent
                 /\ row.message = IF row.kind = "EditAndBranch"
                                    THEN t.turns[row.from].user
                                    ELSE t.turns[row.from].answer
      /\ \A m \in MessagesOf(t, th) :
           IF t.messages[m].role = "assistant" /\ t.messages[m].origin # None
             THEN t.outcomes[m] # None /\ SourceTurn(t, m) = t.outcomes[m]
             ELSE t.outcomes[m] = None

\* The outcomes the copies of a thread have inherited.
Inherited(t, th) ==
  {<<m, t.outcomes[m]>> : m \in {n \in MessagesOf(t, th) : t.outcomes[n] # None}}

MetadataFits(t, th) ==
  /\ StorageFits(t, th)
  /\ WithinBounds(t, FamilyOf(t, t.threads[th].root), Inherited(t, th))

ForkMetadata(t, th) ==
  IF t.threads[th] = None THEN Refuse(t, "NotFound")
  ELSE IF ~FamilySound(t, th) \/ ~MetadataFits(t, th) THEN Refuse(t, "Internal")
  ELSE Commit(t, [family |-> FamilyOf(t, t.threads[th].root),
                  outcomes |-> Inherited(t, th)])

\* save_thread and save_project, as a rename or an archive reaches them
SaveThread(t, th, title, state, now) ==
  [t EXCEPT !.threads[th].title = title, !.threads[th].state = state,
            !.threads[th].at = now]

ArchiveProject(t) == [t EXCEPT !.project = "Archived"]

-----------------------------------------------------------------------------
(* The in-memory store's conversation turns and forks: the operations of   *)
(* ThreadStore on the maps the daemon's tests and the preview build use.   *)
(* There is no schema and no transaction behind it, so what a call has     *)
(* inserted stays even if reading it back fails; a fork's command and the  *)
(* aliases of its delivery are records of one map.                         *)

MapsOf(t) ==
  [project |-> t.project, threads |-> t.threads, messages |-> t.messages,
   turns |-> t.turns, outcomes |-> t.outcomes, deliveries |-> t.deliveries,
   acks |-> t.acks, commands |-> {}]

-----------------------------------------------------------------------------
(* reading turns *)

\* is_canonical_conversation_snapshot, of what is kept here
MemCanonical(m, k) ==
  LET u == m.turns[k]
  IN  /\ LinkedMessage(m, u.user, u.thread, "user") /\ m.messages[u.user].seq > 0
      /\ IF u.state = "Completed"
           THEN /\ LinkedMessage(m, u.answer, u.thread, "assistant")
                /\ m.messages[u.answer].origin = None
                /\ m.messages[u.answer].seq > m.messages[u.user].seq
           ELSE u.answer = None

SourceMessage(m, k, kind) ==
  IF kind = "EditAndBranch" THEN m.turns[k].user ELSE m.turns[k].answer

\* ensure_fork_source_state
MemSourceState(kind, state) ==
  CASE kind \in {"Branch", "Regenerate"} -> state = "Completed"
    [] kind = "EditAndBranch" -> state \in {"Completed", "Cancelled", "Failed"}

RECURSIVE MemReadable(_, _)

\* validate_persisted_thread_lineage
MemLineageSound(m, th) ==
  LET row    == m.threads[th]
      parent == m.threads[row.parent]
  IN  IF row.kind = "Original" THEN row.root = th /\ row.depth = 0
      ELSE /\ parent # None /\ m.turns[row.from] # None
           /\ MemReadable(m, row.from)
           /\ MemSourceState(row.kind, m.turns[row.from].state)
           /\ m.turns[row.from].thread = row.parent
           /\ parent.root = row.root /\ row.depth = parent.depth + 1
           /\ row.message = SourceMessage(m, row.from, row.kind)

\* conversation_snapshot: unlike the database it follows the thread, not the
\* turn, to the fork's source, with no limit of its own.
MemReadable(m, k) == MemLineageSound(m, m.turns[k].thread) /\ MemCanonical(m, k)

-----------------------------------------------------------------------------
(* reserve_turn, commit_provider_start, commit_terminal *)

\* validate_context: a length, and no order.
MemContextFits(ctx) == Len(ctx) \in 1 .. MaxContext

\* capture_conversation_context
Unresolved(m, th, id) ==
  \E k \in Rows(m.turns) :
    m.turns[k].thread = th /\ m.turns[k].user = id /\ m.turns[k].state # "Completed"

Captured(m, th) == {id \in MessagesOf(m, th) : ~Unresolved(m, th, id)}

\* capture_retry_context: everything but a missing source is a Conflict.
MemRetryAllowed(m, c) ==
  LET s    == m.turns[c.source]
      user == m.messages[s.user]
  IN  /\ Revision(s.state) = c.expected
      /\ s.state = "Cancelled" \/ (s.state = "Failed" /\ s.retryable)
      /\ s.thread = c.thread
      /\ \A id \in MessagesOf(m, s.thread) : m.messages[id].seq =< user.seq
      /\ ~\E k \in Rows(m.turns) : m.turns[k].origin = "Retry" /\ m.turns[k].source = c.source
      /\ s.depth + 1 =< MaxRetries
      /\ c.text = user.text

MemReserveVerdict(m, c) ==
  IF Busy(m, c.thread) THEN "Conflict"
  ELSE IF m.threads[c.thread] = None THEN "NotFound"
  ELSE IF m.threads[c.thread].state # "Open" \/ m.project # "Active" THEN "Conflict"
  ELSE IF c.source = None
    THEN IF Cardinality(Captured(m, c.thread)) > MaxContext - 1 THEN "Conflict" ELSE None
  ELSE IF m.turns[c.source] = None THEN "NotFound"
  ELSE IF ~MemRetryAllowed(m, c) THEN "Conflict"
  ELSE IF m.turns[c.source].ctx[Len(m.turns[c.source].ctx)] # Entry(m, m.turns[c.source].user)
    THEN "Internal"
  ELSE None

MemReserved(m, c) ==
  LET id   == Fresh(m.messages)
      s    == m.turns[c.source]
      seq  == IF c.source = None THEN NextSequence(m, c.thread)
                                 ELSE m.messages[s.user].seq + 1
      past == IF c.source = None
                THEN Entries(m, InSequence(m, Captured(m, c.thread)))
                ELSE SubSeq(s.ctx, 1, Len(s.ctx) - 1)
      said == [id |-> id, seq |-> seq, role |-> "user", text |-> c.text]
  IN  [m EXCEPT
        !.messages[id] = [thread |-> c.thread, seq |-> seq, role |-> "user",
                          text |-> c.text, origin |-> None],
        !.turns[Fresh(m.turns)] =
           NewTurn(c.thread, id, c.key, c.print, OriginOf(c), c.source,
                   IF c.source = None THEN 0 ELSE s.depth + 1, Append(past, said))]

\* The caller's answer once the turn is read back; the maps keep the change.
MemTurnAnswer(m, k, created) ==
  [tables |-> m, answer |-> IF MemReadable(m, k) THEN TurnAnswer(m, k, created)
                            ELSE [error |-> "Internal"]]

MemReserveTurn(m, c) ==
  LET existing == TurnOfKey(m, c.key)
      k        == The(existing)
      verdict  == MemReserveVerdict(m, c)
  IN  IF existing # {}
        THEN IF \/ m.turns[k].print # c.print
                \/ m.turns[k].origin # OriginOf(c) \/ m.turns[k].source # c.source
               THEN Refuse(m, "Conflict")
             ELSE MemTurnAnswer(m, k, FALSE)
      ELSE IF verdict # None THEN Refuse(m, verdict)
      ELSE MemTurnAnswer(MemReserved(m, c), Fresh(m.turns), TRUE)

\* commit_provider_start
MemStart(m, k, expected) ==
  IF m.turns[k] = None THEN Refuse(m, "NotFound")
  ELSE IF ~MemReadable(m, k) THEN Refuse(m, "Internal")
  ELSE IF m.turns[k].state # "Reserved" \/ expected # Revision(m.turns[k].state)
    THEN Refuse(m, "Conflict")
  ELSE MemTurnAnswer([m EXCEPT !.turns[k].state = "ProviderStarted"], k, TRUE)

\* is_exact_terminal_transition: with an effect the provider was called, and
\* without one the turn can only be cancelled.
MemExactTerminal(u, expected, to) ==
  /\ expected = Revision(u.state)
  /\ \/ u.state = "Reserved" /\ to = "Cancelled"
     \/ /\ u.state = "ProviderStarted"
        /\ to \in {"Completed", "Failed", "InterruptedNeedsReview"}

\* commit_conversation_terminal
MemTerminal(m, k, expected, to, retryable, text) ==
  LET u  == m.turns[k]
      id == Fresh(m.messages)
  IN  IF u = None THEN Refuse(m, "NotFound")
      ELSE IF ~MemReadable(m, k) THEN Refuse(m, "Internal")
      ELSE IF ~MemExactTerminal(u, expected, to) THEN Refuse(m, "Conflict")
      ELSE IF to = "Completed"
        THEN MemTurnAnswer(
               [m EXCEPT
                 !.messages[id] = [thread |-> u.thread, role |-> "assistant", text |-> text,
                                   origin |-> None, seq |-> NextSequence(m, u.thread)],
                 !.turns[k].state = to, !.turns[k].answer = id], k, TRUE)
      ELSE MemTurnAnswer([m EXCEPT !.turns[k].state = to, !.turns[k].retryable = retryable],
                         k, TRUE)

MemAdvance(m, k, expected, to, retryable, text) ==
  IF to = "ProviderStarted" THEN MemStart(m, k, expected)
  ELSE MemTerminal(m, k, expected, to, retryable, text)

-----------------------------------------------------------------------------
(* outcomes inherited by copies *)

\* validate_inherited_assistant_provenance: at most one message for every
\* thread of a family, and one more.
RECURSIVE MemChain(_, _, _, _)
MemChain(m, id, k, fuel) ==
  LET answer == m.turns[k].answer
      row    == m.messages[id]
  IN  /\ fuel > 0
      /\ row.role = "assistant" /\ row.text = m.messages[answer].text
      /\ \/ id = answer
         \/ /\ m.outcomes[id] = k /\ row.origin # None /\ row.origin.how # "Edit"
            /\ row.origin.how = "Assistant" => row.origin.turn = k
            /\ MemChain(m, row.origin.from, k, fuel - 1)

\* inherited_source_turn
MemSourceTurn(m, id) ==
  LET direct == {k \in Rows(m.turns) : m.turns[k].answer = id}
      k == IF direct # {} THEN The(direct) ELSE m.outcomes[id]
  IN  IF \/ Cardinality(direct) = 1 /\ m.outcomes[id] = None
         \/ direct = {} /\ m.outcomes[id] # None
        THEN IF /\ MemReadable(m, k) /\ m.turns[k].state = "Completed"
                /\ MemChain(m, id, k, MaxFamily + 1)
               THEN k ELSE None
      ELSE None

-----------------------------------------------------------------------------
(* fork commands, their delivery and its aliases *)

CanonicalFor(m, th) == {r \in m.commands : r.canonical /\ r.child = th}
MemAliasesFor(m, th) == {r \in m.commands : ~r.canonical /\ r.child = th}

\* conversation_fork_delivery
MemDeliverySound(m, th) ==
  LET d == m.deliveries[th]
      r == The(CanonicalFor(m, th))
  IN  /\ d # None /\ Cardinality(CanonicalFor(m, th)) = 1
      /\ Cardinality(MemAliasesFor(m, th)) =< MaxAliases
      /\ \A a \in MemAliasesFor(m, th) : a.kind = r.kind /\ a.print = d.print
      /\ r.kind = d.kind /\ r.print = d.print
      /\ m.threads[th].kind # "Original"

\* conversation_fork_snapshot
MemForkSound(m, r) ==
  LET child == m.threads[r.child]
      ids   == InSequence(m, Derived(m, r.child))
      d     == m.deliveries[r.child]
      u     == m.turns[r.turn]
  IN  /\ child # None /\ MemLineageSound(m, r.child) /\ child.kind # "Original"
      /\ d # None /\ d.kind = child.kind
      /\ ids # << >> /\ \A i \in DOMAIN ids : m.messages[ids[i]].seq = i
      /\ (child.kind = "Branch") = (r.turn = None)
      /\ r.turn # None => MemReadable(m, r.turn) /\ u.thread = r.child /\ u.print = r.print
      /\ r.print = d.print
      /\ MemDeliverySound(m, r.child)

MemForkAnswer(m, r, created, reconciled) ==
  [tables |-> m,
   answer |-> IF MemForkSound(m, r) THEN ForkAnswer(m, r, created, reconciled)
              ELSE [error |-> "Internal"]]

Pending(m, c) ==
  {th \in Rows(m.deliveries) :
     /\ ~m.deliveries[th].acked
     /\ m.deliveries[th].kind = c.kind /\ m.deliveries[th].print = c.print}

\* reconcile_pending_conversation_fork_command, for the waiting child; the
\* fork is read before its new alias is recorded.
MemReconcile(m, c) ==
  LET th    == The(Pending(m, c))
      own   == CanonicalFor(m, th)
      r     == The(own)
      alias == [kind |-> c.kind, key |-> c.key, print |-> r.print, child |-> r.child,
                turn |-> r.turn, canonical |-> FALSE]
  IN  IF Cardinality(Pending(m, c)) # 1 \/ Cardinality(own) # 1 THEN Refuse(m, "Internal")
      ELSE IF Cardinality(MemAliasesFor(m, th)) >= MaxAliases THEN Refuse(m, "Conflict")
      ELSE IF r.print # c.print \/ ~MemForkSound(m, r) THEN Refuse(m, "Internal")
      ELSE Commit([m EXCEPT !.commands = @ \cup {alias}], ForkAnswer(m, r, FALSE, TRUE))

RecordOf(m, c) == {r \in m.commands : r.kind = c.kind /\ r.key = c.key}

MemReplay(m, c) ==
  LET r == The(RecordOf(m, c))
  IN  IF r.print # c.print THEN Refuse(m, "Conflict")
      ELSE MemForkAnswer(m, r, FALSE, FALSE)

MemResolveFork(m, c) ==
  IF RecordOf(m, c) # {} THEN MemReplay(m, c)
  ELSE IF Pending(m, c) # {} THEN MemReconcile(m, c)
  ELSE Absent(m)

-----------------------------------------------------------------------------
(* reserve_conversation_fork *)

\* validate_fork_turn_plan: a branch starts nothing, the others a turn whose
\* key, the command's, no turn has.
MemTurnPlanVerdict(m, p) ==
  IF \/ p.starts # (p.kind # "Branch")
     \/ p.starts /\ TurnOfKey(m, p.key) # {}
    THEN "Conflict" ELSE None

MemInheritedBy(m, p) ==
  {<<i, IF p.copies[i].origin.how = "Assistant" THEN p.source
        ELSE MemSourceTurn(m, p.copies[i].origin.from)>> :
     i \in {j \in DOMAIN p.copies : p.copies[j].role = "assistant"}}

\* validate_fork_messages, then the turn's plan and the child's metadata
MemMessagesVerdict(m, p) ==
  LET u      == m.turns[p.source]
      edited == p.copies[Len(p.copies)].text
      expect == Copies(p.source, u, AnswerText(m, u), p.kind, edited)
      inherits(i) == expect[i].role = "assistant" /\ expect[i].origin.how = "Context"
  IN  IF p.copies # expect THEN "Conflict"
      ELSE IF \E i \in DOMAIN expect :
                inherits(i) /\ MemSourceTurn(m, expect[i].origin.from) = None
        THEN "Internal"
      ELSE IF p.kind = "EditAndBranch" /\ edited = m.messages[u.user].text THEN "Conflict"
      ELSE IF p.kind # "Branch" /\ ~MemContextFits(p.copies) THEN "Conflict"
      ELSE IF MemTurnPlanVerdict(m, p) # None \/ ~ProjectionFits(m, p, MemInheritedBy(m, p))
        THEN "Conflict"
      ELSE None

\* prepare_conversation_fork
MemPrepareVerdict(m, p) ==
  LET u      == m.turns[p.source]
      parent == m.threads[u.thread]
      root   == m.threads[parent.root]
      source == SourceMessage(m, p.source, p.kind)
      last   == u.ctx[Len(u.ctx)]
  IN  IF u = None THEN "NotFound"
      ELSE IF ~MemReadable(m, p.source) THEN "Internal"
      ELSE IF Revision(u.state) # p.expected THEN "Conflict"
      ELSE IF ~MemLineageSound(m, u.thread) THEN "Internal"
      ELSE IF \/ m.project # "Active" \/ p.thread.title # parent.title
              \/ p.thread.at < parent.at
        THEN "Conflict"
      ELSE IF ~ContextCanonical(u.ctx) \/ last # Entry(m, u.user) \/ source = None
        THEN "Internal"
      ELSE IF \/ parent.depth >= MaxForkDepth
              \/ p.thread # ForkThread(parent, u.thread, p.source, source, p.kind, p.thread.at)
              \/ ~MemSourceState(p.kind, u.state)
        THEN "Conflict"
      ELSE IF root = None \/ root.root # parent.root \/ root.kind # "Original" THEN "Internal"
      ELSE IF \/ Cardinality(ChildrenOf(m, u.thread)) >= MaxChildren
              \/ Cardinality(FamilyOf(m, parent.root)) >= MaxFamily
        THEN "Conflict"
      ELSE MemMessagesVerdict(m, p)

MemForked(m, p) ==
  LET child == Fresh(m.threads)
      base  == Fresh(m.messages) - 1
      n     == Len(p.copies)
      new   == base + 1 .. base + n
      copy(id) == p.copies[id - base]
      outcome(id) ==
        IF copy(id).role # "assistant" THEN None
        ELSE IF copy(id).origin.how = "Assistant" THEN p.source
        ELSE MemSourceTurn(m, copy(id).origin.from)
      entry(i) == [id |-> base + i, seq |-> i, role |-> p.copies[i].role,
                   text |-> p.copies[i].text]
      turn  == IF p.starts THEN Fresh(m.turns) ELSE None
      row   == NewTurn(child, base + n, p.key, p.print, p.kind, p.source, 0,
                       [i \in 1 .. n |-> entry(i)])
  IN  [m EXCEPT
        !.threads[child] = p.thread,
        !.messages = [id \in Messages |->
           IF id \in new THEN [thread |-> child, seq |-> id - base, role |-> copy(id).role,
                               text |-> copy(id).text, origin |-> copy(id).origin]
           ELSE @[id]],
        !.outcomes = [id \in Messages |-> IF id \in new THEN outcome(id) ELSE @[id]],
        !.turns = [k \in Turns |-> IF p.starts /\ k = turn THEN row ELSE @[k]],
        !.commands = @ \cup {[kind |-> p.kind, key |-> p.key, print |-> p.print,
                              child |-> child, turn |-> turn, canonical |-> TRUE]},
        !.deliveries[child] = [kind |-> p.kind, print |-> p.print, acked |-> FALSE]]

MemReserveFork(m, p) ==
  LET verdict == MemPrepareVerdict(m, p)
      after   == MemForked(m, p)
  IN  IF RecordOf(m, p) # {} THEN MemReplay(m, p)
      ELSE IF Pending(m, p) # {} THEN MemReconcile(m, p)
      ELSE IF verdict # None THEN Refuse(m, verdict)
      ELSE MemForkAnswer(after, The(RecordOf(after, p)), TRUE, FALSE)

-----------------------------------------------------------------------------
(* acknowledgement and family metadata *)

MemAcknowledgeFork(m, key, th, expected) ==
  LET prior == {a \in m.acks : a.key = key}
      own   == CanonicalFor(m, th)
      d     == m.deliveries[th]
  IN  IF prior # {}
        THEN IF The(prior).child # th \/ The(prior).expected # expected
               THEN Refuse(m, "Conflict")
             ELSE IF ~MemDeliverySound(m, th) \/ ~d.acked THEN Refuse(m, "Internal")
             ELSE Commit(m, [child |-> th, acked |-> TRUE])
      ELSE IF own = {} THEN Refuse(m, IF m.threads[th] = None THEN "NotFound" ELSE "Conflict")
      ELSE IF ~MemDeliverySound(m, th) THEN Refuse(m, "Internal")
      ELSE IF d.acked \/ expected # 0 THEN Refuse(m, "Conflict")
      ELSE Commit([m EXCEPT !.deliveries[th].acked = TRUE,
                            !.acks = @ \cup {[key |-> key, child |-> th, expected |-> expected]}],
                  [child |-> th, acked |-> TRUE])

\* conversation_fork_metadata
MemForkMetadata(m, th) ==
  LET family == FamilyOf(m, m.threads[th].root)
      copied == {id \in Derived(m, th) : m.messages[id].role = "assistant"}
  IN  IF m.threads[th] = None THEN Refuse(m, "NotFound")
      ELSE IF \/ Cardinality(family) > MaxFamily
              \/ \E c \in family \cup {th} : ~MemLineageSound(m, c)
              \/ \E id \in copied :
                   m.outcomes[id] = None \/ MemSourceTurn(m, id) # m.outcomes[id]
              \/ \E id \in MessagesOf(m, th) :
                   m.outcomes[id] # None /\ m.messages[id].role # "assistant"
              \/ ~WithinBounds(m, family, {<<id, m.outcomes[id]>> : id \in copied})
        THEN Refuse(m, "Internal")
      ELSE Commit(m, [family |-> family,
                      outcomes |-> {<<id, m.outcomes[id]>> : id \in copied}])

-----------------------------------------------------------------------------
(* The same calls of the conversation-turn and conversation-fork ports,    *)
(* legal or not, in every order on the encrypted database and on the       *)
(* in-memory store.  A fork's plan is the one the service builds from what *)
(* it loads, or that plan bent in one place.  Fingerprints are opaque      *)
(* here: every new request has the same one, and a key that was used comes *)
(* with it or with another.                                                *)

Bends == {"as built", "other title", "copy altered", "turn missing", "too early"}

\* The text an edit puts in the place of the message.
EditedText == 9

\* The plan for a fork of turn k, from the rows loaded.
Plan(t, c) ==
  LET u      == t.turns[c.source]
      parent == t.threads[u.thread]
      copies == Copies(c.source, u, AnswerText(t, u), c.kind, EditedText)
      thread == ForkThread(parent, u.thread, c.source,
                           SourceMessage(t, c.source, c.kind), c.kind, parent.at)
  IN  [kind |-> c.kind, key |-> c.key, print |-> c.print, source |-> c.source,
       expected |-> c.expected,
       thread |-> CASE c.bend = "other title" -> [thread EXCEPT !.title = 1 - @]
                    [] c.bend = "too early"   -> [thread EXCEPT !.at = @ - 1]
                    [] OTHER -> thread,
       copies |-> IF c.bend = "copy altered" THEN [copies EXCEPT ![1].text = 0] ELSE copies,
       starts |-> IF c.bend = "turn missing" THEN FALSE ELSE c.kind # "Branch"]

Advances == {e[2] : e \in TurnEdges}

UsedKeys(t) ==
  {t.turns[k].key : k \in Rows(t.turns)}
  \cup {r.key : r \in t.commands} \cup {a.key : a \in t.aliases}

Offered(t, keys, digest, other) ==
  [op : {"start"}, thread : Rows(t.threads), key : keys, print : {digest, other}]
  \cup [op : {"retry"}, source : Rows(t.turns), expected : {1, 2}, key : keys,
        print : {digest}]
  \cup [op : {"advance"}, turn : Rows(t.turns), expected : {0, 1}, to : Advances]
  \cup [op : {"resolve"}, kind : ForkKinds, key : keys, print : {digest, other}]
  \cup [op : {"fork"}, kind : ForkKinds, key : keys, print : {digest, other},
        source : Rows(t.turns), expected : {2}, bend : {"as built"}]
  \cup [op : {"fork"}, kind : {"EditAndBranch"}, key : keys, print : {digest},
        source : Rows(t.turns), expected : {2}, bend : Bends]
  \cup [op : {"ack"}, key : keys, child : Rows(t.threads), expected : {0, 1}]
  \cup [op : {"metadata"}, child : Threads]
  \cup [op : {"archive"}, child : Rows(t.threads)]

\* Identifiers for what the call may insert.
Room(t, c) ==
  c.op \in {"start", "retry", "fork"} =>
    /\ Fresh(t.threads) \in Threads
    /\ (c.op = "fork" /\ c.kind = "Branch") \/ Fresh(t.turns) \in Turns
    /\ Fresh(t.messages) + MaxContext \in Messages

Calls(t, keys, digest, other) ==
  {c \in Offered(t, keys, digest, other) :
     /\ Room(t, c)
     /\ "print" \in DOMAIN c => c.print = digest \/ c.key \in UsedKeys(t)}

Started(t, c) ==
  [thread |-> c.thread, key |-> c.key, print |-> c.print, text |-> 1,
   source |-> None, expected |-> 0]

Retried(t, c) ==
  [thread |-> IF t.turns[c.source] = None THEN 1 ELSE t.turns[c.source].thread,
   key |-> c.key, print |-> c.print, text |-> 1, source |-> c.source, expected |-> c.expected]

Said(k) == 10 + k

OnTables(t, c) ==
  CASE c.op = "start" -> ReserveTurn(t, Started(t, c))
    [] c.op = "retry" -> ReserveTurn(t, Retried(t, c))
    [] c.op = "advance" -> Advance(t, c.turn, c.expected, c.to, c.to = "Failed", Said(c.turn))
    [] c.op = "resolve" -> ResolveFork(t, c)
    [] c.op = "fork" -> ReserveFork(t, Plan(t, c))
    [] c.op = "ack" -> AcknowledgeFork(t, c.key, c.child, c.expected)
    [] c.op = "metadata" -> ForkMetadata(t, c.child)
    [] c.op = "archive" ->
         Commit(SaveThread(t, c.child, t.threads[c.child].title, "Archived", 0), [done |-> TRUE])

OnMaps(m, c) ==
  CASE c.op = "start" -> MemReserveTurn(m, Started(m, c))
    [] c.op = "retry" -> MemReserveTurn(m, Retried(m, c))
    [] c.op = "advance" -> MemAdvance(m, c.turn, c.expected, c.to, c.to = "Failed", Said(c.turn))
    [] c.op = "resolve" -> MemResolveFork(m, c)
    [] c.op = "fork" -> MemReserveFork(m, Plan(m, c))
    [] c.op = "ack" -> MemAcknowledgeFork(m, c.key, c.child, c.expected)
    [] c.op = "metadata" -> MemForkMetadata(m, c.child)
    [] c.op = "archive" ->
         Commit(SaveThread(m, c.child, m.threads[c.child].title, "Archived", 0), [done |-> TRUE])

\* A row the schema refuses is a Conflict to the caller.
Code(answer) == IF answer.error = "Constraint" THEN "Conflict" ELSE answer.error

Same(x, y) ==
  IF IsError(x) \/ IsError(y) THEN IsError(x) /\ IsError(y) /\ Code(x) = Code(y) ELSE x = y

\* The database alone refuses metadata whose outcomes are too large as it
\* measures them.
OnlyStored(t, c, x, y) ==
  /\ c.op = "metadata" /\ t.threads[c.child] # None /\ ~StorageFits(t, c.child)
  /\ IsError(x) /\ x.error = "Internal" /\ ~IsError(y)

Alike(t, c, x, y) == Same(x, y) \/ OnlyStored(t, c, x, y)

\* The rows of both stores in one shape: a record is canonical or an alias.
SharedOfTables(t) ==
  [MapsOf(t) EXCEPT !.commands =
     {[kind |-> r.kind, key |-> r.key, print |-> r.print, child |-> r.child,
       turn |-> r.turn, canonical |-> TRUE] : r \in t.commands}
     \cup {[kind |-> a.kind, key |-> a.key, print |-> a.print, child |-> a.child,
            turn |-> The(CommandFor(t, a.child)).turn, canonical |-> FALSE] : a \in t.aliases}]

\* Whatever sequence of calls was made, the two stores hold the same threads,
\* messages, turns, commands and deliveries and give the next call the same
\* answer, the same error included.
Agree(t, m) == SharedOfTables(t) = m
=============================================================================
