------------------------- MODULE PrivilegedJournal -------------------------
(***************************************************************************)
(* The durable journal of privileged guest operations: the domain          *)
(* aggregate and the transactions of the encrypted database, with the      *)
(* checks and triggers of its schema.  Every transaction is an operator    *)
(* from the tables and its arguments to new tables and an answer.          *)
(*                                                                         *)
(* An operation is the row of one (authority grant, key).  An intent's     *)
(* kind, expiry and print stand for everything a replay must repeat: the   *)
(* target, the payload with its digest, the request digest, the links.     *)
(* The only caller leaves the links empty.                                 *)
(***************************************************************************)
EXTENDS Integers, Sequences, FiniteSets

CONSTANTS Ids,         \* journal identities
          Keys,        \* idempotency keys of the one authority grant
          Prints,      \* request digests
          Kinds,       \* the operation kinds of the instance
          MaxTime,     \* the clock's horizon
          MaxAttempt,  \* the longest attempt (30 seconds)
          None

States == {"Prepared", "Dispatching", "RetryPending", "Succeeded", "Failed",
           "InterruptedNeedsReview", "Reviewed", "Cancelled"}

Time == 0..MaxTime

Intents == [key : Keys, print : Prints, kind : Kinds, expires : Nat]

Error(why) == [error |-> why]
IsError(x) == "error" \in DOMAIN x
Refuse(t, answer) == [tables |-> t, answer |-> answer]
Commit(t, answer) == [tables |-> t, answer |-> answer]

-----------------------------------------------------------------------------
(* The aggregate. *)

RetrySafe(kind) == kind \in {"RunnerHealth", "ComputerObserve"}

Permits(from, to) ==
  CASE from = "Prepared" -> to \in {"Dispatching", "Cancelled"}
    [] from = "Dispatching" -> to \in {"RetryPending", "Succeeded", "Failed",
                                       "InterruptedNeedsReview"}
    [] from = "RetryPending" -> to = "Dispatching"
    [] from = "InterruptedNeedsReview" -> to = "Reviewed"
    [] OTHER -> FALSE

\* PrivilegedOperation::prepare
Prepare(intent, now) ==
  IF intent.expires < now THEN Error("AuthorityExpired")
  ELSE [intent |-> intent, state |-> "Prepared", attempts |-> 0, revision |-> 0,
        created |-> now, updated |-> now]

MoveTo(op, next, now) ==
  IF ~Permits(op.state, next) \/ now < op.updated THEN Error("InvalidTransition")
  ELSE [op EXCEPT !.state = next, !.revision = @ + 1, !.updated = now]

Dispatch(op, now) ==
  LET moved == MoveTo(op, "Dispatching", now)
  IN IF IsError(moved) THEN moved
     ELSE IF now > op.intent.expires THEN Error("AuthorityExpired")
     ELSE [moved EXCEPT !.attempts = @ + 1]

Succeed(op, now) == MoveTo(op, "Succeeded", now)
Fail(op, now) == MoveTo(op, "Failed", now)

\* A retry-safe attempt may be repeated; another waits for a person.
Interrupt(op, now) ==
  MoveTo(op, IF RetrySafe(op.intent.kind) THEN "RetryPending"
             ELSE "InterruptedNeedsReview", now)

\* restore: what every loaded or proposed aggregate must satisfy.
ValidSnapshot(op) ==
  /\ op.intent.expires >= op.created
  /\ op.updated >= op.created
  /\ op.state = "Dispatching" => op.updated <= op.intent.expires
  /\ CASE op.state = "Prepared" ->
            op.attempts = 0 /\ op.updated = op.created /\ op.revision = 0
       [] op.state = "Cancelled" -> op.attempts = 0 /\ op.revision = 1
       [] op.state = "Dispatching" ->
            op.attempts > 0 /\ op.revision = 2 * op.attempts - 1
       [] op.state = "RetryPending" ->
            /\ RetrySafe(op.intent.kind) /\ op.attempts > 0
            /\ op.revision = 2 * op.attempts
       [] op.state \in {"Succeeded", "Failed"} ->
            op.attempts > 0 /\ op.revision = 2 * op.attempts
       [] op.state = "InterruptedNeedsReview" ->
            /\ ~RetrySafe(op.intent.kind) /\ op.attempts = 1
            /\ op.revision = 2
       [] op.state = "Reviewed" ->
            /\ ~RetrySafe(op.intent.kind) /\ op.attempts = 1
            /\ op.revision = 3

-----------------------------------------------------------------------------
(* Tables.  A row keeps, beside the aggregate, the certainty of its last   *)
(* attempt (0 dispatching, 1 not dispatched, 2 success, 3 failure, 4       *)
(* unknown), whether its payload is retained and whether it has a terminal *)
(* result.                                                                 *)

EmptyTables == [ops |-> [o \in Ids |-> None], attempts |-> [o \in Ids |-> <<>>]]

Row(op) == [op |-> op, certainty |-> None, retained |-> TRUE, result |-> FALSE]

\* What the certainty of the last attempt may be.
CertaintyAllowed(state) ==
  CASE state \in {"Prepared", "Cancelled"} -> {None}
    [] state = "Dispatching" -> {0}
    [] state = "RetryPending" -> {1, 3, 4}
    [] state = "Succeeded" -> {2}
    [] state = "Failed" -> {1, 3}
    [] state \in {"InterruptedNeedsReview", "Reviewed"} -> {4}

\* The CHECK constraints of the table.
TableChecks(row) ==
  LET op == row.op
  IN /\ row.certainty \in CertaintyAllowed(op.state)
     /\ (op.attempts = 0) = (op.state \in {"Prepared", "Cancelled"})
     /\ op.state = "RetryPending" => RetrySafe(op.intent.kind)
     /\ op.state \in {"InterruptedNeedsReview", "Reviewed"} => ~RetrySafe(op.intent.kind)
     /\ (op.revision = 0) = (op.state = "Prepared")
     /\ op.state = "Prepared" => op.updated = op.created
     /\ op.attempts <= op.revision /\ op.intent.expires >= op.created
     /\ op.updated >= op.created
     /\ row.retained = (op.state \in {"Prepared", "Dispatching", "RetryPending",
                                      "InterruptedNeedsReview"})
     /\ row.result = (op.state \in {"Succeeded", "Failed"})

\* validate_storage_metadata: what a loaded row must show.
MetadataValid(row) ==
  LET state == row.op.state
      active == {"Prepared", "Dispatching", "RetryPending", "InterruptedNeedsReview"}
  IN /\ row.retained = (state \in active)
     /\ (row.op.attempts = 0) = (state \in {"Prepared", "Cancelled"})
     /\ row.certainty \in CertaintyAllowed(state)
     /\ row.result = (state \in {"Succeeded", "Failed"})

\* privileged_operations_validate_update, without the moves no caller makes
\* (cancelling, reviewing, pruning a result).
UpdateAllowed(old, new) ==
  /\ new.op.intent = old.op.intent /\ new.op.created = old.op.created
  /\ new.op.revision = old.op.revision + 1
  /\ new.op.updated >= old.op.updated
  /\ \/ /\ old.op.state \in {"Prepared", "RetryPending"}
        /\ new.op.state = "Dispatching"
        /\ new.op.attempts = old.op.attempts + 1
        /\ new.certainty = 0
        /\ new.retained = old.retained /\ new.result = old.result
     \/ /\ old.op.state = "Dispatching"
        /\ new.op.state \in {"RetryPending", "InterruptedNeedsReview"}
        /\ new.op.attempts = old.op.attempts
        /\ new.certainty # 0
        /\ new.retained = old.retained /\ new.result = old.result
     \/ /\ old.op.state = "Dispatching"
        /\ new.op.state \in {"Succeeded", "Failed"}
        /\ new.op.attempts = old.op.attempts
        /\ new.certainty # 0
        /\ ~new.retained /\ new.result

Loadable(t, o) ==
  t.ops[o] # None => MetadataValid(t.ops[o]) /\ ValidSnapshot(t.ops[o].op)

LoadById(t, o) ==
  IF t.ops[o] = None THEN Error("NotFound")
  ELSE IF ~Loadable(t, o) THEN Error("Internal")
  ELSE t.ops[o].op

OfKey(t, key) == {o \in Ids : t.ops[o] # None /\ t.ops[o].op.intent.key = key}

\* The kind, target, payload, authority, idempotency and links all agree.
ExactIntent(op, intent) == op.intent = intent

ResolvePreparation(t, intent) ==
  IF OfKey(t, intent.key) = {} THEN Error("Unknown")
  ELSE LET o == CHOOSE x \in OfKey(t, intent.key) : TRUE
       IN IF ~Loadable(t, o) THEN Error("Internal")
          ELSE IF ~ExactIntent(t.ops[o].op, intent) THEN Error("Conflict")
          ELSE [id |-> o, op |-> t.ops[o].op]

\* Mutant: a second preparation of a key gets a row of its own.
PrepareAnyway(t, o, op) ==
  Commit([t EXCEPT !.ops[o] = Row(op)], [created |-> TRUE, id |-> o, op |-> op])

PrepareWithPayload(t, o, op) ==
  LET known == ResolvePreparation(t, op.intent)
  IN IF op.state # "Prepared" \/ ~ValidSnapshot(op) THEN Refuse(t, Error("Internal"))
     ELSE IF ~IsError(known)
       THEN Refuse(t, [created |-> FALSE, id |-> known.id, op |-> known.op])
     ELSE IF known.error # "Unknown" THEN Refuse(t, known)
     ELSE IF t.ops[o] # None THEN Refuse(t, Error("Conflict"))
     ELSE Commit([t EXCEPT !.ops[o] = Row(op)],
                 [created |-> TRUE, id |-> o, op |-> op])

-----------------------------------------------------------------------------
(* Attempts. *)

Attempts == [sequence : Nat, transport : Nat, started : Nat, deadline : Nat]

Transports(t) == UNION {{t.attempts[o][i].transport : i \in DOMAIN t.attempts[o]} :
                        o \in Ids}

ValidAttempt(op, attempt) ==
  /\ op.state = "Dispatching"
  /\ attempt.sequence = op.attempts
  /\ attempt.started = op.updated
  /\ attempt.deadline - attempt.started \in 1..MaxAttempt

Open(attempt) == [attempt |-> attempt, transport |-> attempt.transport,
                  completed |-> None, certainty |-> 0]

\* The transition is proposed by the caller, and made again here.
BeginDispatch(t, o, op, revision, attempt) ==
  LET current == LoadById(t, o)
      row == [t.ops[o] EXCEPT !.op = op, !.certainty = 0]
      sequence == attempt.sequence
  IN IF ~ValidSnapshot(op) \/ ~ValidAttempt(op, attempt)
       THEN Refuse(t, Error("Internal"))
     ELSE IF IsError(current) THEN Refuse(t, current)
     ELSE IF \/ current.revision # revision
             \/ Dispatch(current, attempt.started) # op
             \/ ~UpdateAllowed(t.ops[o], row) \/ ~TableChecks(row)
             \/ Len(t.attempts[o]) # sequence - 1
             \/ sequence > 1 /\ t.attempts[o][sequence - 1].certainty = 0
             \/ attempt.transport \in Transports(t)
       THEN Refuse(t, Error("Conflict"))
     ELSE Commit([t EXCEPT !.ops[o] = row,
                           !.attempts[o] = Append(@, Open(attempt))], [op |-> op])

\* Both rows in one transaction; the attempt must be the open one.
CloseAttempt(t, o, op, revision, sequence, completed, certainty) ==
  LET row == [t.ops[o] EXCEPT !.op = op, !.certainty = certainty]
      open == t.attempts[o][sequence]
  IN IF \/ t.ops[o].op.state # "Dispatching"
        \/ ~UpdateAllowed(t.ops[o], row) \/ ~TableChecks(row)
        \/ sequence > Len(t.attempts[o])
        \/ open.certainty # 0
        \/ completed < open.attempt.started
       THEN Refuse(t, Error("Conflict"))
     ELSE Commit([t EXCEPT !.ops[o] = row,
                           !.attempts[o][sequence].completed = completed,
                           !.attempts[o][sequence].certainty = certainty],
                 [op |-> op])

RecoverInterruptedAttempt(t, o, op, revision, sequence, completed) ==
  LET current == LoadById(t, o)
  IN IF ~ValidSnapshot(op) THEN Refuse(t, Error("Internal"))
     ELSE IF IsError(current) THEN Refuse(t, current)
     ELSE IF \/ current.revision # revision \/ current.attempts # sequence
             \/ Interrupt(current, completed) # op
       THEN Refuse(t, Error("Conflict"))
     ELSE CloseAttempt(t, o, op, revision, sequence, completed, 4)

\* A known outcome is written with certainty 1, and its payload and result
\* columns are left as they are.
CompleteDispatchOutcome(t, o, op, revision, sequence, completed) ==
  LET current == LoadById(t, o)
  IN IF \/ ~ValidSnapshot(op)
        \/ op.state \notin {"Succeeded", "Failed", "RetryPending",
                            "InterruptedNeedsReview"}
       THEN Refuse(t, Error("Internal"))
     ELSE IF IsError(current) THEN Refuse(t, current)
     ELSE IF \/ current.revision # revision \/ current.attempts # sequence
             \/ current.state # "Dispatching"
       THEN Refuse(t, Error("Conflict"))
     ELSE CloseAttempt(t, o, op, revision, sequence, completed,
                       IF op.state \in {"Succeeded", "Failed"} THEN 1 ELSE 4)

\* Oldest first; the caller asks for one more than it will recover.
Dispatching(t) == {o \in Ids : t.ops[o] # None /\ t.ops[o].op.state = "Dispatching"}

Candidate(t, o) ==
  LET op == LoadById(t, o)
      last == t.attempts[o][Len(t.attempts[o])]
  IN IF \/ IsError(op) \/ Len(t.attempts[o]) # op.attempts
        \/ last.certainty # 0 \/ ~ValidAttempt(op, last.attempt)
       THEN Error("Internal")
     ELSE [id |-> o, op |-> op, sequence |-> op.attempts,
           started |-> last.attempt.started]

-----------------------------------------------------------------------------
(* The in-memory store's privileged journal: maps of operations, of the    *)
(* keys that own them, of payloads and of attempts, and the set of         *)
(* transport identities ever used.                                         *)

EmptyMaps == [ops |-> [o \in Ids |-> None], keys |-> [k \in Keys |-> None],
              payloads |-> {}, attempts |-> [o \in Ids |-> <<>>],
              transports |-> {}]

MemGet(m, o) ==
  IF m.ops[o] = None THEN Error("NotFound")
  ELSE IF ~ValidSnapshot(m.ops[o]) THEN Error("Internal")
  ELSE m.ops[o]

MemResolvePreparation(m, intent) ==
  LET o == m.keys[intent.key]
  IN IF o = None THEN Error("Unknown")
     ELSE IF m.ops[o] = None \/ ~ValidSnapshot(m.ops[o]) THEN Error("Internal")
     ELSE IF m.ops[o].intent # intent THEN Error("Conflict")
     ELSE [id |-> o, op |-> m.ops[o]]

MemPrepareWithPayload(m, o, op) ==
  LET known == MemResolvePreparation(m, op.intent)
  IN IF op.state # "Prepared" \/ ~ValidSnapshot(op) THEN Refuse(m, Error("Internal"))
     ELSE IF ~IsError(known)
       THEN Refuse(m, [created |-> FALSE, id |-> known.id, op |-> known.op])
     ELSE IF known.error # "Unknown" THEN Refuse(m, known)
     ELSE IF m.ops[o] # None THEN Refuse(m, Error("Conflict"))
     ELSE Commit([m EXCEPT !.ops[o] = op, !.keys[op.intent.key] = o,
                           !.payloads = @ \cup {o}],
                 [created |-> TRUE, id |-> o, op |-> op])

MemBeginDispatch(m, o, op, revision, attempt) ==
  LET current == MemGet(m, o)
  IN IF ~ValidSnapshot(op) \/ ~ValidAttempt(op, attempt)
       THEN Refuse(m, Error("Internal"))
     ELSE IF IsError(current) THEN Refuse(m, current)
     ELSE IF \/ current.revision # revision
             \/ Dispatch(current, attempt.started) # op
             \/ attempt.transport \in m.transports
             \/ Len(m.attempts[o]) # attempt.sequence - 1
       THEN Refuse(m, Error("Conflict"))
     ELSE Commit([m EXCEPT !.ops[o] = op,
                           !.attempts[o] = Append(@, [attempt |-> attempt,
                                                      completed |-> None]),
                           !.transports = @ \cup {attempt.transport}],
                 [op |-> op])

\* The last attempt is closed with the operation.
MemClose(m, o, op, sequence, completed) ==
  LET n == Len(m.attempts[o])
      last == m.attempts[o][n]
  IN IF n = 0 THEN Refuse(m, Error("Internal"))
     ELSE IF \/ last.attempt.sequence # sequence \/ last.completed # None
             \/ completed < last.attempt.started
       THEN Refuse(m, Error("Conflict"))
     ELSE Commit([m EXCEPT !.ops[o] = op, !.attempts[o][n].completed = completed],
                 [op |-> op])

MemRecoverInterruptedAttempt(m, o, op, revision, sequence, completed) ==
  LET current == MemGet(m, o)
  IN IF ~ValidSnapshot(op) THEN Refuse(m, Error("Internal"))
     ELSE IF IsError(current) THEN Refuse(m, current)
     ELSE IF \/ current.revision # revision \/ current.attempts # sequence
             \/ Interrupt(current, completed) # op
       THEN Refuse(m, Error("Conflict"))
     ELSE MemClose(m, o, op, sequence, completed)

MemCompleteDispatchOutcome(m, o, op, revision, sequence, completed) ==
  LET current == MemGet(m, o)
  IN IF \/ ~ValidSnapshot(op)
        \/ op.state \notin {"Succeeded", "Failed", "RetryPending",
                            "InterruptedNeedsReview"}
       THEN Refuse(m, Error("Internal"))
     ELSE IF IsError(current) THEN Refuse(m, current)
     ELSE IF \/ current.revision # revision \/ current.attempts # sequence
             \/ current.state # "Dispatching"
       THEN Refuse(m, Error("Conflict"))
     ELSE MemClose(m, o, op, sequence, completed)

MemCandidate(m, o) ==
  LET op == MemGet(m, o)
      n == Len(m.attempts[o])
      last == m.attempts[o][n]
  IN IF \/ IsError(op) \/ n = 0 \/ ~ValidAttempt(op, last.attempt)
        \/ last.completed # None
       THEN Error("Internal")
     ELSE [id |-> o, op |-> op, sequence |-> last.attempt.sequence,
           started |-> last.attempt.started]

MemDispatching(m) == {o \in Ids : m.ops[o] # None /\ m.ops[o].state = "Dispatching"}

\* What both stores keep of an operation and of an attempt.
SharedOfTables(t) ==
  [ops |-> [o \in Ids |-> IF t.ops[o] = None THEN None ELSE t.ops[o].op],
   attempts |-> [o \in Ids |-> [i \in DOMAIN t.attempts[o] |->
                   <<t.attempts[o][i].attempt, t.attempts[o][i].completed>>]]]
SharedOfMaps(m) ==
  [ops |-> m.ops,
   attempts |-> [o \in Ids |-> [i \in DOMAIN m.attempts[o] |->
                   <<m.attempts[o][i].attempt, m.attempts[o][i].completed>>]]]

-----------------------------------------------------------------------------
(* The same calls of the PrivilegedOperationStore port, legal or not, in   *)
(* every order on the encrypted database and on the in-memory store.  The  *)
(* aggregates a caller proposes are the domain's transitions of what it    *)
(* loaded, at any time and with any expected revision.  Known outcomes are *)
(* left out: the two stores differ there (see PrivilegedOperations).       *)

Proposed(expiries) == [key : Keys, print : Prints, kind : Kinds, expires : expiries]

Calls(expiries) ==
  [op : {"prepare"}, o : Ids, intent : Proposed(expiries), now : Time]
  \cup [op : {"resolve"}, intent : Proposed(expiries)]
  \cup [op : {"begin"}, o : Ids, now : Time, revision : 0..2, transport : Ids]
  \cup [op : {"candidate"}, o : Ids]
  \cup [op : {"recover", "complete"}, o : Ids, now : Time \ {0}, revision : 1..3,
        sequence : 1..2, completed : Time \ {0}]

\* An aggregate that cannot be proposed is not sent.
Unsent(s) == Refuse(s, Error("Unsent"))

Sent(s, op, result) == IF IsError(op) THEN Unsent(s) ELSE result

Prepared(c) == Prepare(c.intent, c.now)
Dispatched(loaded, c) ==
  IF IsError(loaded) THEN loaded ELSE Dispatch(loaded, c.now)
Closed(loaded, c) == IF IsError(loaded) THEN loaded ELSE Interrupt(loaded, c.now)

Attempted(op, c) ==
  [sequence |-> op.attempts, transport |-> c.transport, started |-> c.now,
   deadline |-> c.now + 1]

OnTables(t, c) ==
  CASE c.op = "prepare" ->
         Sent(t, Prepared(c), PrepareWithPayload(t, c.o, Prepared(c)))
    [] c.op = "resolve" -> Refuse(t, ResolvePreparation(t, c.intent))
    [] c.op = "begin" ->
         LET op == Dispatched(LoadById(t, c.o), c)
         IN Sent(t, op, BeginDispatch(t, c.o, op, c.revision, Attempted(op, c)))
    [] c.op = "candidate" ->
         Refuse(t, IF c.o \in Dispatching(t) THEN Candidate(t, c.o)
                   ELSE Error("Unlisted"))
    [] c.op = "recover" ->
         LET op == Closed(LoadById(t, c.o), c)
         IN Sent(t, op, RecoverInterruptedAttempt(t, c.o, op, c.revision, c.sequence,
                                                  c.completed))
    [] c.op = "complete" ->
         LET op == Closed(LoadById(t, c.o), c)
         IN Sent(t, op, CompleteDispatchOutcome(t, c.o, op, c.revision, c.sequence,
                                                c.completed))

OnMaps(m, c) ==
  CASE c.op = "prepare" ->
         Sent(m, Prepared(c), MemPrepareWithPayload(m, c.o, Prepared(c)))
    [] c.op = "resolve" -> Refuse(m, MemResolvePreparation(m, c.intent))
    [] c.op = "begin" ->
         LET op == Dispatched(MemGet(m, c.o), c)
         IN Sent(m, op, MemBeginDispatch(m, c.o, op, c.revision, Attempted(op, c)))
    [] c.op = "candidate" ->
         Refuse(m, IF c.o \in MemDispatching(m) THEN MemCandidate(m, c.o)
                   ELSE Error("Unlisted"))
    [] c.op = "recover" ->
         LET op == Closed(MemGet(m, c.o), c)
         IN Sent(m, op, MemRecoverInterruptedAttempt(m, c.o, op, c.revision, c.sequence,
                                                     c.completed))
    [] c.op = "complete" ->
         LET op == Closed(MemGet(m, c.o), c)
         IN Sent(m, op, MemCompleteDispatchOutcome(m, c.o, op, c.revision, c.sequence,
                                                   c.completed))

Same(x, y) == IF IsError(x) \/ IsError(y) THEN IsError(x) /\ IsError(y) ELSE x = y

\* Whatever sequence of calls was made, the two stores hold the same
\* operations and attempts.
Agree(t, m) == SharedOfTables(t) = SharedOfMaps(m)

\* Whatever is called in whatever order: every row can be loaded again, each
\* key has one row, the attempts of an operation are numbered without a gap
\* and only the last of a dispatching one is open, no transport identity is
\* used twice, no attempt starts after the authority expired, and an operation
\* that cannot be repeated is dispatched at most once.
JournalSound(t) ==
  /\ \A o \in Ids : Loadable(t, o)
  /\ \A k \in Keys : Cardinality(OfKey(t, k)) <= 1
  /\ \A o \in Ids : t.ops[o] # None =>
       LET op == t.ops[o].op
           list == t.attempts[o]
       IN /\ Len(list) = op.attempts
          /\ \A i \in DOMAIN list :
               /\ list[i].attempt.sequence = i
               /\ list[i].attempt.started <= op.intent.expires
               /\ list[i].certainty = 0 <=> op.state = "Dispatching" /\ i = Len(list)
          /\ op.intent.kind \notin {"RunnerHealth", "ComputerObserve"}
               => Len(list) <= 1
  /\ \A o, p \in Ids : \A i \in DOMAIN t.attempts[o] :
       \A j \in DOMAIN t.attempts[p] :
         t.attempts[o][i].transport = t.attempts[p][j].transport
           => o = p /\ i = j
=============================================================================
