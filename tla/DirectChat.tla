----------------------------- MODULE DirectChat -----------------------------
(***************************************************************************)
(* Direct chat turns in the daemon: concurrent IPC handlers, the task      *)
(* registry with its permits and quarantine, one dispatch task per         *)
(* launched turn, the provider call behind it, credential rotation, and    *)
(* crash recovery.                                                         *)
(*                                                                         *)
(* A slot is one permit of the task semaphore.  A permit lives exactly as  *)
(* long as the handler or task that holds it, so the slot also stands for  *)
(* the registry generation of the task that owns it.                       *)
(*                                                                         *)
(* A store call runs on a blocking thread that the awaiting future does    *)
(* not own: dropping the future (request deadline, cancellation, give-up)  *)
(* leaves the transaction to commit later.  Such calls are in `detached'.  *)
(***************************************************************************)
EXTENDS Lifecycles, FiniteSets

-----------------------------------------------------------------------------
(* The durable conversation state of one chat thread and the transactions  *)
(* of the encrypted store on it.  A transaction is one SQLite transaction  *)
(* on the single store connection, hence atomic.  Here each one is a       *)
(* predicate that says when it commits and an operator that gives the      *)
(* record it commits; the daemon, below, decides who calls it, when, and   *)
(* what the caller learns.                                                 *)
(*                                                                         *)
(* A turn is named by the exact command that reserves it: Key k stands for *)
(* one idempotency key with one request fingerprint.  Text is counted in   *)
(* abstract units, a revision is the number of committed transitions.      *)

CONSTANTS
  Keys,          \* start and retry commands, one turn each
  Source,        \* Source[k]: the turn that k retries, NoTurn for a start
  NoTurn,
  Bindings,      \* credential generations
  NoBinding,
  CancelKeys,    \* idempotency keys of client cancellations
  MaxRetryDepth, \* 64 in the code
  ContextLimit   \* context sizes the store accepts

ASSUME NoTurnAssumption == NoTurn \notin Keys
ASSUME NoBindingAssumption == NoBinding \notin Bindings
ASSUME SourceAssumption == Source \in [Keys -> Keys \cup {NoTurn}]
ASSUME CancelKeysAssumption == CancelKeys \cap Keys = {}

VARIABLES
  turn,        \* turn[k]: the aggregate (turn, linked run, linked effect)
  threadBind,  \* the thread's credential binding, set by its first turn
  newest,      \* <<k, role>>: the message with the highest sequence number
  receipt      \* receipt[id]: the recorded outcome of a cancellation command

storeVars == <<turn, threadBind, newest, receipt>>

\* Key k doubles as the daemon's stable per-turn "dispatch exit" command.
CancelIds == CancelKeys \cup Keys

AbsentTurn ==
  [state |-> "Absent", rev |-> 0, run |-> "None", effect |-> "None",
   text |-> 0, answer |-> 0, retryable |-> FALSE, bind |-> NoBinding,
   depth |-> 0, ctx |-> {}]

NoReceipt == [turn |-> NoTurn, exp |-> 0, state |-> "None", rev |-> 0]

StoreInit ==
  /\ turn = [k \in Keys |-> AbsentTurn]
  /\ threadBind = NoBinding
  /\ newest = <<NoTurn, "user">>
  /\ receipt = [id \in CancelIds |-> NoReceipt]

Turns == {k \in Keys : turn[k].state # "Absent"}

CompletedTurns == {k \in Keys : turn[k].state = "Completed"}

-----------------------------------------------------------------------------
(* reserve_turn *)

\* bind_or_validate_thread_identity
MayBind(b) == threadBind \in {NoBinding, b}

RetryEligible(t) ==
  t.state = "Cancelled" \/ (t.state = "Failed" /\ t.retryable)

AlreadyRetried(src) == \E k \in Turns : Source[k] = src

\* Mutant: messages that came after the source are not looked at.
RetrySourceNotRetried(src) == ~AlreadyRetried(src)

\* retry_source_is_latest: messages are never deleted, so sequence numbers are
\* compared only with the highest one of the thread.
RetrySourceIsLatest(src) == newest = <<src, "user">> /\ ~AlreadyRetried(src)

\* capture_retry_context
MayRetry(src, b) ==
  /\ RetryEligible(turn[src])
  /\ RetrySourceIsLatest(src)
  /\ turn[src].bind = b
  /\ threadBind = b
  /\ turn[src].depth < MaxRetryDepth

\* The completed exchanges the provider will see: those of the thread now for
\* a start, the frozen ones of the source for a retry.
ContextOf(k) == IF Source[k] = NoTurn THEN CompletedTurns
                                      ELSE turn[Source[k]].ctx

MayReserve(k, b) ==
  /\ turn[k].state = "Absent"
  /\ IF Source[k] = NoTurn THEN MayBind(b) ELSE MayRetry(Source[k], b)
  /\ Cardinality(ContextOf(k)) + 1 =< ContextLimit

ReservedTurn(k, b) ==
  [AbsentTurn EXCEPT
     !.state = "Reserved",
     !.run   = "Queued",
     !.bind  = b,
     !.depth = IF Source[k] = NoTurn THEN 0 ELSE turn[Source[k]].depth + 1,
     !.ctx   = ContextOf(k)]

\* An existing reservation is returned only to a caller with the same lineage.
ReplaysReservation(k, b) == turn[k].state # "Absent" /\ turn[k].bind = b

Reserve(k, b) ==
  /\ turn' = [turn EXCEPT ![k] = ReservedTurn(k, b)]
  /\ threadBind' = b
  /\ newest' = <<k, "user">>
  /\ UNCHANGED receipt

-----------------------------------------------------------------------------
(* commit_provider_start, append_turn_text, commit_terminal *)

\* A dispatch plan always carries the reservation, whose revision is 0.
MayStartProvider(k) ==
  /\ turn[k].rev = 0
  /\ TurnPermits(turn[k].state, "ProviderStarted")
  /\ RunPermits(turn[k].run, "Planning") /\ RunPermits("Planning", "Running")
  /\ turn[k].effect = "None"

StartedTurn(t) ==
  [t EXCEPT !.state = "ProviderStarted", !.rev = @ + 1,
            !.run = "Running", !.effect = "Executing"]

\* An offset below the log's end is an exact replay and appends nothing.
MayAppend(k, offset) ==
  /\ turn[k].state = "ProviderStarted"
  /\ turn[k].rev = 1
  /\ offset =< turn[k].text

AppendedTurn(t, offset, n) ==
  [t EXCEPT !.text = IF offset = @ THEN @ + n ELSE @]

\* The linked run ends in the state of the same name as the turn.
EffectOutcome(to) ==
  CASE to = "Completed"              -> "Succeeded"
    [] to = "Failed"                 -> "Failed"
    [] to = "InterruptedNeedsReview" -> "NeedsReview"
    [] to = "Cancelled"              -> "None"

\* valid_terminal_commit, and validate_snapshot on the text of the event log.
ValidTerminal(k, to, expected, answer) ==
  /\ turn[k].rev = expected
  /\ TurnPermits(turn[k].state, to)
  /\ RunPermits(turn[k].run, to)
  /\ to # "Cancelled" => EffectPermits(turn[k].effect, EffectOutcome(to))
  /\ to = "Cancelled" => turn[k].effect = "None"
  /\ to = "Completed" => answer > 0 /\ answer = turn[k].text

TerminalTurn(t, to, answer, retryable) ==
  [t EXCEPT !.state = to, !.rev = @ + 1, !.run = to,
            !.effect = EffectOutcome(to), !.answer = answer,
            !.retryable = retryable]

-----------------------------------------------------------------------------
(* commit_scoped_cancellation: client cancels and task-exit reconciliation *)

\* build_cancellation_terminal; a terminal turn has no cancellation edge.
CancellationEdge(state) ==
  CASE state = "Reserved"        -> "Cancelled"
    [] state = "ProviderStarted" -> "InterruptedNeedsReview"
    [] OTHER                     -> "None"

\* A command is (id, k, expected): the fingerprint covers k and expected.
\* plan is the terminal built from the snapshot the caller loaded, at
\* revision planRev.
CancelVerdict(id, k, expected, plan, planRev) ==
  IF receipt[id].turn # NoTurn
    THEN IF receipt[id].turn = k /\ receipt[id].exp = expected
           THEN "replay" ELSE "conflict"
  ELSE IF IsTerminal(turn[k].state)
    THEN IF turn[k].rev = expected + 1 THEN "winner" ELSE "conflict"
  ELSE IF /\ turn[k].rev = expected
          /\ plan # "None"
          /\ planRev = expected
          /\ plan = CancellationEdge(turn[k].state)
          /\ ValidTerminal(k, plan, expected, 0)
    THEN "commit" ELSE "conflict"

\* The durable effect of a cancellation whose verdict is not "conflict".
CommitCancellation(id, k, expected, plan, planRev) ==
  LET verdict == CancelVerdict(id, k, expected, plan, planRev)
      outcome == IF verdict = "commit"
                   THEN TerminalTurn(turn[k], plan, 0, FALSE) ELSE turn[k]
  IN  /\ verdict # "conflict"
      /\ turn' = [turn EXCEPT ![k] = outcome]
      /\ receipt' = IF verdict = "replay" THEN receipt
                    ELSE [receipt EXCEPT ![id] =
                            [turn |-> k, exp |-> expected,
                             state |-> outcome.state, rev |-> outcome.rev]]
      /\ UNCHANGED <<threadBind, newest>>

-----------------------------------------------------------------------------
TurnRecords ==
  [state : TurnStates \cup {"Absent"}, rev : Nat,
   run : RunStates \cup {"None"}, effect : EffectStates \cup {"None"},
   text : Nat, answer : Nat, retryable : BOOLEAN,
   bind : Bindings \cup {NoBinding}, depth : Nat, ctx : SUBSET Keys]

Receipts == [turn : Keys \cup {NoTurn}, exp : Nat,
             state : TurnStates \cup {"Absent", "None"}, rev : Nat]

\* What a caller may plan for an active turn; "None" for a terminal one.
Plans == {"None", "Cancelled", "InterruptedNeedsReview"}

StoreTypeOK ==
  /\ turn \in [Keys -> TurnRecords]
  /\ threadBind \in Bindings \cup {NoBinding}
  /\ newest \in (Keys \cup {NoTurn}) \X {"user", "assistant"}
  /\ receipt \in [CancelIds -> Receipts]

-----------------------------------------------------------------------------
(* The daemon. *)

CONSTANTS
  Handlers,      \* concurrent IPC requests
  Slots,         \* permits, MAX_CONVERSATION_TASKS in the code
  NoSlot,
  MaxText,       \* provider output accepted, MAX_MESSAGE_BYTES in the code
  Coalesce,      \* CONVERSATION_TEXT_COALESCE_BYTES
  Deltas,        \* sizes of a text delta
  RecoveryLimit, \* turns one startup may recover
  Scenarios      \* bounds: what the environment may do

ASSUME NoSlotAssumption == NoSlot \notin Slots
ASSUME TextAssumption ==
  MaxText \in Nat /\ Coalesce \in Nat \ {0} /\ Deltas \subseteq Nat \ {0}

\* What the environment of one scenario may still do: store calls that fail or
\* answer ambiguously, daemon crashes, credential changes; detached store calls
\* and requests at a time; and the turns, cancellations and sizes of text
\* deltas it may use
Budgets ==
  [faults : Nat, crashes : Nat, rotations : Nat, detached : Nat, requests : Nat,
   keys : SUBSET Keys, cancels : SUBSET CancelKeys, deltas : SUBSET Deltas]

ASSUME ScenariosAssumption == Scenarios \subseteq Budgets

VARIABLES
  daemon,    \* [mode, todo, truncated]: lifecycle and startup recovery pass
  cred,      \* binding of the credential in the vault, NoBinding if none
  registry,  \* registry[k]: the slot that owns turn k, NoSlot if none
  slot,      \* slot[s]: the task that holds permit s
  handler,   \* handler[h]: the request it serves and how far it is
  detached,  \* store calls whose caller is gone
  calls,     \* history: provider requests issued for turn k
  budget     \* what the environment may still do

memVars == <<registry, slot, handler, detached>>
vars == <<storeVars, daemon, cred, memVars, calls, budget>>

FreeSlot == [pc |-> "free", k |-> NoTurn, out |-> 0, off |-> 0,
             fin |-> FALSE, retryable |-> FALSE, sig |-> FALSE,
             plan |-> "None", rev |-> 0]

IdleHandler == [pc |-> "idle", k |-> NoTurn, slot |-> NoSlot,
                seen |-> "None", bind |-> NoBinding, id |-> NoTurn,
                exp |-> 0, plan |-> "None", rev |-> 0]

\* The states of a dispatch task: `dispatch' is running, then it has exited.
DispatchPcs == {"guard", "start", "conflicted", "open", "opening", "stream",
                "append", "flush", "complete", "failing", "interrupt",
                "recheck"}
TaskPcs == DispatchPcs \cup {"reconcile", "recommit", "exit"}
\* Provider start has been committed by this task.
PostStartPcs == {"open", "opening", "stream", "append", "flush", "complete",
                 "failing", "interrupt", "recheck"}
\* The provider request has been issued and no outcome is recorded yet.
AnsweringPcs == {"opening", "stream", "append", "flush", "complete", "failing"}
\* The credential use guard is held.
LeasePcs == {"start", "conflicted", "open", "opening"}

StartPcs == {"owner", "preflight", "reserve", "launch"}
CancelPcs == {"load", "commit", "signal", "release"}

Init ==
  /\ StoreInit
  /\ daemon = [mode |-> "down", todo |-> {}, truncated |-> FALSE]
  /\ cred \in Bindings
  /\ registry = [k \in Keys |-> NoSlot]
  /\ slot = [s \in Slots |-> FreeSlot]
  /\ handler = [h \in Handlers |-> IdleHandler]
  /\ detached = {}
  /\ calls = [k \in Keys |-> 0]
  /\ budget \in Scenarios

Serving == daemon.mode = "serving"

Fault == budget.faults > 0 /\ budget' = [budget EXCEPT !.faults = @ - 1]

\* A store call that returns an error although it may have committed.
Ambiguously(commit) == Fault /\ (commit \/ UNCHANGED storeVars)

\* A completion inserts the assistant message.
SetTurn(k, t) ==
  /\ turn' = [turn EXCEPT ![k] = t]
  /\ newest' = IF t.state = "Completed" THEN <<k, "assistant">> ELSE newest
  /\ UNCHANGED <<threadBind, receipt>>

Quarantined(k) == registry[k] # NoSlot /\ slot[registry[k]].pc = "quarantined"

Freed(s) == [slot EXCEPT ![s] = FreeSlot]

-----------------------------------------------------------------------------
(* start_conversation_turn and retry_conversation_turn *)

ToHandler(h, next) == handler' = [handler EXCEPT ![h] = next]
EndRequest(h) == ToHandler(h, IdleHandler)

\* A client sends a request that names turn k.
Requested(k) ==
  /\ k \in budget.keys
  /\ Cardinality({h \in Handlers : handler[h].pc # "idle"}) < budget.requests

\* replay_start, replay_retry: the first store read of the request.
BeginStart(h, k) ==
  /\ Serving /\ handler[h].pc = "idle" /\ Requested(k)
  /\ Source[k] # NoTurn => turn[Source[k]].state # "Absent"
  /\ ToHandler(h, [IdleHandler EXCEPT !.pc = "owner", !.k = k,
                                      !.seen = turn[k].state])
  /\ UNCHANGED <<storeVars, daemon, cred, registry, slot, detached, calls, budget>>

\* conversation_replay_result: the exact replay is answered here.
AnswerReplay(h) ==
  LET k == handler[h].k
      seen == handler[h].seen
  IN /\ handler[h].pc = "owner"
     /\ seen # "Absent"
     /\ IsTerminal(seen) \/ registry[k] # NoSlot \/ seen = "ProviderStarted"
     /\ IF IsTerminal(seen) /\ Quarantined(k)   \* release_quarantined
          THEN /\ registry' = [registry EXCEPT ![k] = NoSlot]
               /\ slot' = Freed(registry[k])
          ELSE UNCHANGED <<registry, slot>>
     /\ EndRequest(h)
     /\ UNCHANGED <<storeVars, daemon, cred, detached, calls, budget>>

\* try_acquire: saturation refuses the request.
AcquirePermit(h) ==
  LET k == handler[h].k
      seen == handler[h].seen
      free == {s \in Slots : slot[s].pc = "free"}
  IN /\ handler[h].pc = "owner"
     /\ seen = "Absent" \/ (seen = "Reserved" /\ registry[k] = NoSlot)
     /\ \/ free = {} /\ EndRequest(h) /\ UNCHANGED slot
        \/ \E s \in free :
             /\ slot' = [slot EXCEPT ![s].pc = "held"]
             /\ ToHandler(h, [handler[h] EXCEPT !.pc = "preflight", !.slot = s,
                                                !.seen = "None"])
     /\ UNCHANGED <<storeVars, daemon, cred, registry, detached, calls, budget>>

\* The handler returns early and drops its permit.
Refuse(h) == EndRequest(h) /\ slot' = Freed(handler[h].slot)

\* prepare_start / prepare_retry up to the reservation: re-check the replay,
\* the source, the thread's binding, and list models with the credential.
Preflight(h) ==
  LET k == handler[h].k
  IN /\ handler[h].pc = "preflight"
     /\ \/ /\ turn[k].state \in {"Absent", "Reserved"}
           /\ cred # NoBinding
           /\ IF Source[k] = NoTurn
                THEN MayBind(cred)
                ELSE /\ RetryEligible(turn[Source[k]])
                     /\ turn[Source[k]].depth < MaxRetryDepth
                     /\ turn[k].state = "Absent" => RetrySourceIsLatest(Source[k])
                     /\ threadBind = cred /\ turn[Source[k]].bind = cred
           /\ ToHandler(h, [handler[h] EXCEPT !.pc = "reserve", !.bind = cred])
           /\ UNCHANGED slot
        \/ Refuse(h)
     /\ UNCHANGED <<storeVars, daemon, cred, registry, detached, calls, budget>>

\* reserve_turn, then the provider request is built from the frozen context.
\* The system prompt counts there but not in the store's context limit.
RequestFits(ctx) == Cardinality(ctx) + 2 =< ContextLimit

ReserveTurn(h) ==
  LET k == handler[h].k
      b == handler[h].bind
  IN /\ handler[h].pc = "reserve"
     /\ \/ /\ MayReserve(k, b)
           /\ Reserve(k, b)
           /\ IF RequestFits(ContextOf(k))
                THEN ToHandler(h, [handler[h] EXCEPT !.pc = "launch"]) /\ UNCHANGED slot
                ELSE Refuse(h)
           /\ UNCHANGED budget
        \/ /\ ReplaysReservation(k, b)
           /\ IF turn[k].state = "Reserved" /\ RequestFits(turn[k].ctx)
                THEN ToHandler(h, [handler[h] EXCEPT !.pc = "launch"]) /\ UNCHANGED slot
                ELSE Refuse(h)
           /\ UNCHANGED <<storeVars, budget>>
        \/ /\ ~MayReserve(k, b) /\ ~ReplaysReservation(k, b)
           /\ Refuse(h)
           /\ UNCHANGED <<storeVars, budget>>
        \/ Ambiguously(MayReserve(k, b) /\ Reserve(k, b)) /\ Refuse(h)
     /\ UNCHANGED <<daemon, cred, registry, detached, calls>>

\* launch_conversation_turn: register and spawn, or yield to the owner.
Launch(h) ==
  LET k == handler[h].k
      s == handler[h].slot
  IN /\ handler[h].pc = "launch"
     /\ IF registry[k] = NoSlot
          THEN /\ registry' = [registry EXCEPT ![k] = s]
               /\ slot' = [slot EXCEPT ![s] = [FreeSlot EXCEPT !.pc = "guard", !.k = k]]
               /\ EndRequest(h)
          ELSE Refuse(h) /\ UNCHANGED registry
     /\ UNCHANGED <<storeVars, daemon, cred, detached, calls, budget>>

-----------------------------------------------------------------------------
(* cancel_conversation_turn *)

\* ConversationService::cancel loads the turn and plans a terminal for it.
\* The expected revision is the client's, stale or not.
BeginCancel(h, id, k, expected) ==
  /\ Serving /\ handler[h].pc = "idle" /\ Requested(k) /\ id \in budget.cancels
  /\ turn[k].state # "Absent"
  /\ ToHandler(h, [IdleHandler EXCEPT !.pc = "commit", !.k = k, !.id = id,
                     !.exp = expected, !.plan = CancellationEdge(turn[k].state),
                     !.rev = turn[k].rev])
  /\ UNCHANGED <<storeVars, daemon, cred, registry, slot, detached, calls, budget>>

CommitCancel(h) ==
  LET c == handler[h]
      verdict == CancelVerdict(c.id, c.k, c.exp, c.plan, c.rev)
  IN /\ c.pc = "commit"
     /\ \/ /\ CommitCancellation(c.id, c.k, c.exp, c.plan, c.rev)
           /\ ToHandler(h, [IdleHandler EXCEPT !.pc = "signal", !.k = c.k,
                                               !.seen = turn'[c.k].state])
           /\ UNCHANGED budget
        \/ verdict = "conflict" /\ EndRequest(h) /\ UNCHANGED <<storeVars, budget>>
        \/ /\ Ambiguously(CommitCancellation(c.id, c.k, c.exp, c.plan, c.rev))
           /\ EndRequest(h)
     /\ UNCHANGED <<daemon, cred, registry, slot, detached, calls>>

\* ConversationTaskRegistry::signal removes any entry: an active task is told
\* to stop, a quarantined permit is dropped.  A turn that completed or failed
\* first is not signalled.
SignalTask(h) ==
  LET k == handler[h].k
      s == registry[k]
  IN /\ handler[h].pc = "signal"
     /\ IF /\ s # NoSlot
           /\ handler[h].seen \in {"Cancelled", "InterruptedNeedsReview"}
          THEN /\ registry' = [registry EXCEPT ![k] = NoSlot]
               /\ slot' = IF slot[s].pc = "quarantined" THEN Freed(s)
                          ELSE [slot EXCEPT ![s].sig = TRUE]
          ELSE UNCHANGED <<registry, slot>>
     /\ ToHandler(h, [handler[h] EXCEPT !.pc = "release"])
     /\ UNCHANGED <<storeVars, daemon, cred, detached, calls, budget>>

ReleaseQuarantined(h) ==
  LET k == handler[h].k
  IN /\ handler[h].pc = "release"
     /\ IF IsTerminal(handler[h].seen) /\ Quarantined(k)
          THEN /\ registry' = [registry EXCEPT ![k] = NoSlot]
               /\ slot' = Freed(registry[k])
          ELSE UNCHANGED <<registry, slot>>
     /\ EndRequest(h)
     /\ UNCHANGED <<storeVars, daemon, cred, detached, calls, budget>>

-----------------------------------------------------------------------------
(* Detached store calls and the request deadline *)

DetachedOp(op, k, bind, id, n, off, plan, rev) ==
  [op |-> op, k |-> k, bind |-> bind, id |-> id, n |-> n, off |-> off,
   plan |-> plan, rev |-> rev]

Detach(ops) ==
  /\ detached' = detached \cup ops
  /\ Cardinality(detached \cup ops) =< budget.detached

\* The outer request timeout drops the handler wherever it is, with its
\* permit; a store call in flight goes on without it.
RequestTimeout(h) ==
  LET c == handler[h]
  IN /\ c.pc # "idle"
     /\ Detach(CASE c.pc = "reserve" ->
                    {DetachedOp("reserve", c.k, c.bind, NoTurn, 0, 0, "None", 0)}
               [] c.pc = "commit" ->
                    {DetachedOp("cancel", c.k, NoBinding, c.id, c.exp, 0, c.plan, c.rev)}
               [] OTHER -> {})
     /\ slot' = IF c.slot = NoSlot THEN slot ELSE Freed(c.slot)
     /\ EndRequest(h)
     /\ UNCHANGED <<storeVars, daemon, cred, registry, calls, budget>>

\* A detached call commits, or is refused; nobody is told.
RunDetached(d) ==
  /\ detached' = detached \ {d}
  /\ \/ d.op = "reserve" /\ MayReserve(d.k, d.bind) /\ Reserve(d.k, d.bind)
     \/ d.op = "cancel" /\ CommitCancellation(d.id, d.k, d.n, d.plan, d.rev)
     \/ /\ d.op = "append" /\ MayAppend(d.k, d.off)
        /\ SetTurn(d.k, AppendedTurn(turn[d.k], d.off, d.n))
     \/ /\ d.op = "complete" /\ ValidTerminal(d.k, "Completed", 1, d.n)
        /\ SetTurn(d.k, TerminalTurn(turn[d.k], "Completed", d.n, FALSE))
     \/ UNCHANGED storeVars
  /\ UNCHANGED <<daemon, cred, registry, slot, handler, calls, budget>>

-----------------------------------------------------------------------------
(* ConversationService::dispatch, run by the spawned task of slot s *)

Goto(s, next) == slot' = [slot EXCEPT ![s].pc = next]

\* The task's store call on its turn: `may' and the record it commits; where
\* the task goes when it commits, is refused, or fails without an answer.
TaskCommit(s, may, new, onOk, onConflict, onError) ==
  /\ \/ may /\ SetTurn(slot[s].k, new) /\ Goto(s, onOk) /\ UNCHANGED budget
     \/ ~may /\ UNCHANGED storeVars /\ Goto(s, onConflict) /\ UNCHANGED budget
     \/ Ambiguously(may /\ SetTurn(slot[s].k, new)) /\ Goto(s, onError)
  /\ UNCHANGED <<daemon, cred, registry, handler, detached, calls>>

\* A step of the task that touches nothing but its own slot.
TaskLocal == UNCHANGED <<storeVars, daemon, cred, registry, handler, detached,
                         calls, budget>>

\* acquire_xai_credential_use: the lease is granted for the current binding.
AcquireCredentialUse(s) ==
  /\ slot[s].pc = "guard"
  /\ Goto(s, IF cred = turn[slot[s].k].bind THEN "start" ELSE "reconcile")
  /\ TaskLocal

\* start_provider; a regressed clock is one of the errors.
StartProvider(s) ==
  LET k == slot[s].k
  IN /\ slot[s].pc = "start"
     /\ TaskCommit(s, MayStartProvider(k), StartedTurn(turn[k]),
                   "open", "conflicted", "reconcile")

\* After a conflict dispatch returns the turn as it is; a turn that is still
\* reserved needs reconciliation.
LoadAfterConflict(s) ==
  /\ slot[s].pc = "conflicted"
  /\ \/ /\ Goto(s, IF turn[slot[s].k].state = "Reserved" THEN "reconcile" ELSE "exit")
        /\ UNCHANGED budget
     \/ Fault /\ Goto(s, "reconcile")
  /\ UNCHANGED <<storeVars, daemon, cred, registry, handler, detached, calls>>

\* Mutant: a request that fails before its answer is sent once more.
CallProviderAgain(s) ==
  /\ slot[s].pc \in {"open", "opening"}
  /\ Goto(s, "opening")
  /\ calls' = [calls EXCEPT ![slot[s].k] = @ + 1]
  /\ UNCHANGED <<storeVars, daemon, cred, registry, handler, detached, budget>>

\* model.stream(request): polled before the cancellation signal, so the
\* request is sent even when the turn has been cancelled meanwhile.
CallProvider(s) ==
  /\ slot[s].pc = "open"
  /\ Goto(s, "opening")
  /\ calls' = [calls EXCEPT ![slot[s].k] = @ + 1]
  /\ UNCHANGED <<storeVars, daemon, cred, registry, handler, detached, budget>>

\* Mutant: a request that could not be issued is recorded as a known failure.
ProviderErrorBeforeCall(s) ==
  /\ slot[s].pc \in {"open", "opening", "stream"}
  /\ slot' = [slot EXCEPT ![s].pc = "failing", ![s].retryable = TRUE]
  /\ TaskLocal

\* finish_provider_error: an unknown outcome, or a failure the domain
\* rejects, is reviewed; a known failure is recorded.
ProviderError(s) ==
  /\ slot[s].pc \in {"opening", "stream"}
  /\ \/ Goto(s, "interrupt")
     \/ /\ ~slot[s].fin
        /\ \E r \in BOOLEAN :
             slot' = [slot EXCEPT ![s].pc = "failing", ![s].retryable = r]
  /\ TaskLocal

StreamOpened(s) == slot[s].pc = "opening" /\ Goto(s, "stream") /\ TaskLocal

\* consume_stream: the signal or the dispatch deadline.
StreamCancelled(s) ==
  slot[s].pc \in {"opening", "stream"} /\ Goto(s, "interrupt") /\ TaskLocal

NeedsAppend(out, off) == out - off >= Coalesce

TextDelta(s, n) ==
  LET out == slot[s].out + n
  IN /\ slot[s].pc = "stream" /\ n \in budget.deltas
     /\ IF slot[s].fin \/ out > MaxText
          THEN Goto(s, "interrupt")
          ELSE slot' = [slot EXCEPT ![s].out = out,
                 ![s].pc = IF NeedsAppend(out, slot[s].off) THEN "append" ELSE "stream"]
     /\ TaskLocal

\* Completed twice, or anything else after Completed, is contradictory.
StreamCompleted(s) ==
  /\ slot[s].pc = "stream"
  /\ slot' = IF slot[s].fin THEN [slot EXCEPT ![s].pc = "interrupt"]
                            ELSE [slot EXCEPT ![s].fin = TRUE]
  /\ TaskLocal

StreamEnd(s, usage) ==
  /\ slot[s].pc = "stream"
  /\ Goto(s, IF ~usage \/ ~slot[s].fin \/ slot[s].out = 0 THEN "interrupt"
             ELSE IF slot[s].out > slot[s].off THEN "flush" ELSE "complete")
  /\ TaskLocal

ChunkSize(s) == IF slot[s].pc = "append" THEN Coalesce ELSE slot[s].out - slot[s].off

\* Mutant: a failed append is skipped and the stream goes on.
AppendTextIgnoringErrors(s) ==
  LET n == ChunkSize(s)
  IN /\ slot[s].pc \in {"append", "flush"}
     /\ \/ /\ MayAppend(slot[s].k, slot[s].off)
           /\ SetTurn(slot[s].k, AppendedTurn(turn[slot[s].k], slot[s].off, n))
           /\ UNCHANGED budget
        \/ Fault /\ UNCHANGED storeVars
     /\ slot' = [slot EXCEPT ![s].off = @ + n,
                 ![s].pc = IF @ = "flush" THEN "complete" ELSE "stream"]
     /\ UNCHANGED <<daemon, cred, registry, handler, detached, calls>>

\* append_normalized_text_or_cancel: the signal is polled first.
AppendText(s) ==
  LET k == slot[s].k
      n == ChunkSize(s)
      off == slot[s].off + n
      next == IF slot[s].pc = "flush" THEN "complete"
              ELSE IF NeedsAppend(slot[s].out, off) THEN "append" ELSE "stream"
      new == AppendedTurn(turn[k], slot[s].off, n)
  IN /\ slot[s].pc \in {"append", "flush"}
     /\ \/ /\ MayAppend(k, slot[s].off) /\ ~slot[s].sig
           /\ SetTurn(k, new)
           /\ slot' = [slot EXCEPT ![s].off = off, ![s].pc = next]
           /\ UNCHANGED budget
        \/ /\ ~MayAppend(k, slot[s].off)
           /\ Goto(s, "interrupt") /\ UNCHANGED <<storeVars, budget>>
        \/ /\ Ambiguously(MayAppend(k, slot[s].off) /\ SetTurn(k, new))
           /\ Goto(s, "interrupt")
     /\ UNCHANGED <<daemon, cred, registry, handler, detached, calls>>

\* complete; a result the domain rejects is reviewed instead.
CompleteTurn(s) ==
  LET k == slot[s].k
      out == slot[s].out
  IN /\ slot[s].pc = "complete"
     /\ \/ /\ ~slot[s].sig
           /\ TaskCommit(s, ValidTerminal(k, "Completed", 1, out),
                         TerminalTurn(turn[k], "Completed", out, FALSE),
                         "exit", "interrupt", "interrupt")
        \/ Goto(s, "interrupt") /\ TaskLocal

\* The signal or the deadline wins the race against the append or the
\* completion, whose transaction may be under way.
StoreRaceCancelled(s) ==
  LET k == slot[s].k
      op == IF slot[s].pc = "complete"
              THEN DetachedOp("complete", k, NoBinding, NoTurn, slot[s].out, 0, "None", 0)
              ELSE DetachedOp("append", k, NoBinding, NoTurn, ChunkSize(s),
                              slot[s].off, "None", 0)
  IN /\ slot[s].pc \in {"append", "flush", "complete"}
     /\ UNCHANGED detached \/ Detach({op})
     /\ Goto(s, "interrupt")
     /\ UNCHANGED <<storeVars, daemon, cred, registry, handler, calls, budget>>

FailTurn(s) ==
  LET k == slot[s].k
  IN /\ slot[s].pc = "failing"
     /\ TaskCommit(s, ValidTerminal(k, "Failed", 1, 0),
                   TerminalTurn(turn[k], "Failed", 0, slot[s].retryable),
                   "exit", "interrupt", "interrupt")

\* interrupt_or_reconcile
InterruptTurn(s) ==
  LET k == slot[s].k
  IN /\ slot[s].pc = "interrupt"
     /\ TaskCommit(s, ValidTerminal(k, "InterruptedNeedsReview", 1, 0),
                   TerminalTurn(turn[k], "InterruptedNeedsReview", 0, FALSE),
                   "exit", "recheck", "recheck")

\* Mutant: a turn that is still active after a failed interruption is left.
RecheckTurnAbandoning(s) ==
  /\ slot[s].pc = "recheck"
  /\ Goto(s, "exit")
  /\ TaskLocal

RecheckTurn(s) ==
  /\ slot[s].pc = "recheck"
  /\ \/ /\ Goto(s, IF IsTerminal(turn[slot[s].k].state) THEN "exit" ELSE "reconcile")
        /\ UNCHANGED budget
     \/ Fault /\ Goto(s, "reconcile")
  /\ UNCHANGED <<storeVars, daemon, cred, registry, handler, detached, calls>>

-----------------------------------------------------------------------------
(* Task exit: reconcile_dispatch_exit, finish and quarantine *)

\* The turn is loaded; unless it is terminal a cancellation is planned.
ReconcileLoad(s) ==
  LET t == turn[slot[s].k]
  IN /\ slot[s].pc = "reconcile"
     /\ slot' = IF IsTerminal(t.state) THEN [slot EXCEPT ![s].pc = "exit"]
                ELSE [slot EXCEPT ![s].pc = "recommit", ![s].rev = t.rev,
                                  ![s].plan = CancellationEdge(t.state)]
     /\ TaskLocal

\* commit_dispatch_exit_reconciliation under the turn's own exit key.  A
\* conflict or an error goes round again while attempts remain.
ReconcileCommit(s) ==
  LET c == slot[s]
      cancels == CommitCancellation(c.k, c.k, c.rev, c.plan, c.rev)
  IN /\ c.pc = "recommit"
     /\ \/ cancels /\ Goto(s, "exit") /\ UNCHANGED budget
        \/ /\ CancelVerdict(c.k, c.k, c.rev, c.plan, c.rev) = "conflict"
           /\ Goto(s, "reconcile") /\ UNCHANGED <<storeVars, budget>>
        \/ Ambiguously(cancels) /\ Goto(s, "reconcile")
     /\ UNCHANGED <<daemon, cred, registry, handler, detached, calls>>

\* Mutant: an unreconciled task is removed instead of quarantined.
GiveUpWithoutQuarantine(s) ==
  /\ slot[s].pc \in {"reconcile", "recommit"}
  /\ registry' = [registry EXCEPT ![slot[s].k] = NoSlot]
  /\ slot' = Freed(s)
  /\ UNCHANGED <<storeVars, daemon, cred, handler, detached, calls, budget>>

\* The reconciliation deadline passes or its attempts are used up.  Only the
\* registered generation is quarantined with its permit.
GiveUp(s) ==
  LET c == slot[s]
  IN /\ c.pc \in {"reconcile", "recommit"}
     /\ Detach(IF c.pc = "reconcile" THEN {}
               ELSE {DetachedOp("cancel", c.k, NoBinding, c.k, c.rev, 0, c.plan, c.rev)})
     /\ slot' = IF registry[c.k] = s
                  THEN [slot EXCEPT ![s] = [FreeSlot EXCEPT !.pc = "quarantined", !.k = c.k]]
                  ELSE Freed(s)
     /\ UNCHANGED <<storeVars, daemon, cred, registry, handler, calls, budget>>

\* ConversationTaskRegistry::finish leaves another generation alone.
FinishTask(s) ==
  LET k == slot[s].k
  IN /\ slot[s].pc = "exit"
     /\ registry' = IF registry[k] = s THEN [registry EXCEPT ![k] = NoSlot] ELSE registry
     /\ slot' = Freed(s)
     /\ UNCHANGED <<storeVars, daemon, cred, handler, detached, calls, budget>>

-----------------------------------------------------------------------------
(* Credential rotation, crash and startup recovery *)

\* Mutant: the credential gate is not taken for writing.
RotateCredentialUngated(b) ==
  /\ Serving /\ budget.rotations > 0 /\ b # cred
  /\ cred' = b
  /\ budget' = [budget EXCEPT !.rotations = @ - 1]
  /\ UNCHANGED <<storeVars, daemon, memVars, calls>>

\* configure_xai_api_key and delete_xai_api_key take the credential gate for
\* writing, so they wait for every credential use in progress.
RotateCredential(b) ==
  /\ Serving /\ budget.rotations > 0 /\ b # cred
  /\ \A s \in Slots : slot[s].pc \notin LeasePcs
  /\ cred' = b
  /\ budget' = [budget EXCEPT !.rotations = @ - 1]
  /\ UNCHANGED <<storeVars, daemon, memVars, calls>>

Halt ==
  /\ daemon' = [mode |-> "down", todo |-> {}, truncated |-> FALSE]
  /\ registry' = [k \in Keys |-> NoSlot]
  /\ slot' = [s \in Slots |-> FreeSlot]
  /\ handler' = [h \in Handlers |-> IdleHandler]
  /\ detached' = {}

Crash ==
  /\ daemon.mode # "down" /\ budget.crashes > 0
  /\ Halt
  /\ budget' = [budget EXCEPT !.crashes = @ - 1]
  /\ UNCHANGED <<storeVars, cred, calls>>

Incomplete == {k \in Keys : turn[k].state \in {"Reserved", "ProviderStarted"}}

\* recover_incomplete reads one page of incomplete turns before IPC opens.
BeginRecovery ==
  /\ daemon.mode = "down"
  /\ \E page \in SUBSET Incomplete :
       /\ IF Cardinality(Incomplete) =< RecoveryLimit
            THEN page = Incomplete ELSE Cardinality(page) = RecoveryLimit
       /\ daemon' = [mode |-> "recovering", todo |-> page,
                     truncated |-> page # Incomplete]
  /\ UNCHANGED <<storeVars, cred, memVars, calls, budget>>

\* Mutant: a crash-left reservation is not cancelled.
RecoverTurnSkippingReserved(k) ==
  LET to == CancellationEdge(turn[k].state)
  IN /\ daemon.mode = "recovering" /\ k \in daemon.todo
     /\ IF turn[k].state = "Reserved" THEN UNCHANGED storeVars
        ELSE SetTurn(k, TerminalTurn(turn[k], to, 0, FALSE))
     /\ daemon' = [daemon EXCEPT !.todo = @ \ {k}]
     /\ UNCHANGED <<cred, memVars, calls, budget>>

\* cancel_reserved or interrupt; an error aborts the startup.
RecoverTurn(k) ==
  LET to == CancellationEdge(turn[k].state)
      commit == /\ ValidTerminal(k, to, turn[k].rev, 0)
                /\ SetTurn(k, TerminalTurn(turn[k], to, 0, FALSE))
  IN /\ daemon.mode = "recovering" /\ k \in daemon.todo
     /\ \/ /\ commit
           /\ daemon' = [daemon EXCEPT !.todo = @ \ {k}]
           /\ UNCHANGED <<memVars, budget>>
        \/ Ambiguously(commit) /\ Halt
     /\ UNCHANGED <<cred, calls>>

\* Mutant: a truncated recovery opens IPC all the same.
EndRecoveryTruncated ==
  /\ daemon.mode = "recovering" /\ daemon.todo = {}
  /\ daemon' = [daemon EXCEPT !.mode = "serving"]
  /\ UNCHANGED <<storeVars, cred, memVars, calls, budget>>

\* A truncated pass is a startup error: the process is started again.
EndRecovery ==
  /\ daemon.mode = "recovering" /\ daemon.todo = {}
  /\ IF daemon.truncated THEN Halt
     ELSE daemon' = [daemon EXCEPT !.mode = "serving"] /\ UNCHANGED memVars
  /\ UNCHANGED <<storeVars, cred, calls, budget>>

-----------------------------------------------------------------------------
HandlerStep(h) ==
  \/ \E k \in Keys : BeginStart(h, k)
  \/ AnswerReplay(h)
  \/ AcquirePermit(h)
  \/ Preflight(h)
  \/ ReserveTurn(h)
  \/ Launch(h)
  \/ \E id \in CancelKeys, k \in Keys, expected \in 0..1 :
       BeginCancel(h, id, k, expected)
  \/ CommitCancel(h)
  \/ SignalTask(h)
  \/ ReleaseQuarantined(h)
  \/ RequestTimeout(h)

TaskStep(s) ==
  \/ AcquireCredentialUse(s)
  \/ StartProvider(s)
  \/ LoadAfterConflict(s)
  \/ CallProvider(s)
  \/ StreamOpened(s)
  \/ StreamCancelled(s)
  \/ ProviderError(s)
  \/ \E n \in Deltas : TextDelta(s, n)
  \/ StreamCompleted(s)
  \/ \E usage \in BOOLEAN : StreamEnd(s, usage)
  \/ AppendText(s)
  \/ CompleteTurn(s)
  \/ StoreRaceCancelled(s)
  \/ FailTurn(s)
  \/ InterruptTurn(s)
  \/ RecheckTurn(s)
  \/ ReconcileLoad(s)
  \/ ReconcileCommit(s)
  \/ GiveUp(s)
  \/ FinishTask(s)

RecoveryStep == BeginRecovery \/ EndRecovery \/ \E k \in Keys : RecoverTurn(k)

Next ==
  \/ \E h \in Handlers : HandlerStep(h)
  \/ \E s \in Slots : TaskStep(s)
  \/ \E d \in detached : RunDetached(d)
  \/ \E b \in Bindings \cup {NoBinding} : RotateCredential(b)
  \/ Crash
  \/ RecoveryStep

Spec == Init /\ [][Next]_vars

\* The runtime keeps polling a spawned task (its streams and store calls are
\* bounded by deadlines), a detached call finishes, and the supervisor starts
\* the daemon again.  Nothing is assumed of clients.
FairSpec ==
  /\ Spec
  /\ \A s \in Slots : WF_vars(TaskStep(s))
  /\ WF_vars(RecoveryStep)

-----------------------------------------------------------------------------
(* Properties *)

SlotRecords ==
  {c \in [pc : TaskPcs \cup {"free", "held", "quarantined"}, k : Keys \cup {NoTurn},
          out : Nat, off : Nat, fin : BOOLEAN, retryable : BOOLEAN, sig : BOOLEAN,
          plan : Plans, rev : Nat] :
     /\ c.pc \notin {"free", "held"} => c.k \in Keys
     /\ c.off =< c.out
     /\ c.pc = "append" => NeedsAppend(c.out, c.off)}

HandlerRecords ==
  {c \in [pc : StartPcs \cup CancelPcs \cup {"idle"}, k : Keys \cup {NoTurn},
          slot : Slots \cup {NoSlot}, seen : TurnStates \cup {"None", "Absent"},
          bind : Bindings \cup {NoBinding}, id : CancelKeys \cup {NoTurn},
          exp : Nat, plan : Plans, rev : Nat] :
     /\ c.pc # "idle" => c.k \in Keys
     /\ c.pc \in {"preflight", "reserve", "launch"} => c.slot \in Slots
     /\ c.pc = "reserve" => c.bind \in Bindings
     /\ c.pc = "commit" => c.id \in CancelKeys}

DetachedOps ==
  {d \in [op : {"reserve", "cancel", "append", "complete"}, k : Keys,
          bind : Bindings \cup {NoBinding}, id : CancelIds \cup {NoTurn},
          n : Nat, off : Nat, plan : Plans, rev : Nat] :
     /\ d.op = "reserve" => d.bind \in Bindings
     /\ d.op = "cancel" => d.id \in CancelIds}

\* Type invariant: the shape of the state, and that every request, task and
\* detached call names the turn, permit, binding and command it works with.
TypeOK ==
  /\ StoreTypeOK
  /\ daemon \in [mode : {"down", "recovering", "serving"}, todo : SUBSET Keys,
                 truncated : BOOLEAN]
  /\ cred \in Bindings \cup {NoBinding}
  /\ registry \in [Keys -> Slots \cup {NoSlot}]
  /\ slot \in [Slots -> SlotRecords]
  /\ handler \in [Handlers -> HandlerRecords]
  /\ detached \subseteq DetachedOps
  /\ calls \in [Keys -> Nat]
  /\ budget \in Budgets

\* Whatever is replayed, retried, timed out, relaunched or recovered, one turn
\* issues at most one provider request (the call is a non-idempotent effect).
ProviderCalledAtMostOnce == \A k \in Keys : calls[k] =< 1

\* The provider boundary is durable before the call: a turn that is still
\* reserved or was cancelled (and may therefore be retried) was never sent.
CancelledNeverCalled ==
  \A k \in Keys : turn[k].state \in {"Absent", "Reserved", "Cancelled"} => calls[k] = 0

\* A known outcome is that of a call, and so is one a detached completion
\* is about to commit.
OutcomeWasCalled ==
  /\ \A k \in Keys : turn[k].state \in {"Completed", "Failed"} => calls[k] = 1
  /\ \A d \in detached : d.op = "complete" => calls[d.k] = 1

\* A task past its start commit works on a durably started turn, alone.
StartedAlone ==
  /\ \A s \in Slots : slot[s].pc \in PostStartPcs =>
       turn[slot[s].k].state \notin {"Absent", "Reserved", "Cancelled"}
  /\ \A s, r \in Slots : slot[s].pc \in PostStartPcs /\ slot[r].pc \in PostStartPcs
                          /\ slot[s].k = slot[r].k => s = r

\* It calls the provider when it leaves `open'.
CallsFollowTask ==
  /\ \A s \in Slots : slot[s].pc = "open" => calls[slot[s].k] = 0
  /\ \A s \in Slots : slot[s].pc \in AnsweringPcs => calls[slot[s].k] = 1

\* The provider boundary as an inductive invariant: one task at most is past
\* the durable start of a turn, the provider is called by it and once, and a
\* known outcome is that of a call.
BoundaryInv ==
  /\ ProviderCalledAtMostOnce
  /\ CancelledNeverCalled
  /\ OutcomeWasCalled
  /\ StartedAlone
  /\ CallsFollowTask

\* While requests are served, a turn in flight at the provider has a
\* registered task or a quarantine that answers for it.
StartedTurnHasOwner ==
  Serving => \A k \in Keys : turn[k].state = "ProviderStarted" => registry[k] # NoSlot

\* A registry entry names a slot that works on that very turn, so a permit is
\* never lent to two turns and a quarantine never outlives its permit.
RegistryMatchesSlots ==
  \A k \in Keys : registry[k] # NoSlot =>
     /\ slot[registry[k]].k = k
     /\ slot[registry[k]].pc \in TaskPcs \cup {"quarantined"}

\* A task is told to stop only after its turn is durably terminal, so the
\* signal can never decide an outcome (cancel_conversation_turn).
SignalledTurnsAreTerminal ==
  \A s \in Slots : slot[s].sig => IsTerminal(turn[slot[s].k].state)

\* Permits are not leaked: one that is not free is held by a request in
\* progress, by a running task, or by a registered quarantine.
PermitsAccounted ==
  \A s \in Slots :
     \/ slot[s].pc \in TaskPcs \cup {"free"}
     \/ slot[s].pc = "held" /\ \E h \in Handlers : handler[h].slot = s
     \/ slot[s].pc = "quarantined" /\ registry[slot[s].k] = s

\* A completed answer is the streamed text in full: the event log, the
\* assistant message and the text the task accumulated agree, although
\* appends are chunked, may be answered ambiguously and may run detached.
CompletedTextExact ==
  /\ \A k \in Keys : turn[k].state = "Completed" =>
       turn[k].answer = turn[k].text /\ turn[k].answer > 0
  /\ \A s \in Slots : /\ slot[s].pc \in {"stream", "append", "flush", "complete"}
                       /\ turn[slot[s].k].state = "ProviderStarted"
                      => turn[slot[s].k].text = slot[s].off

\* A recorded cancellation outcome is what the turn says for ever, so an exact
\* replay of the command never meets a different winner
\* (commit_scoped_cancellation would report a corrupt aggregate).
ReceiptsMatchTurns ==
  \A id \in CancelIds : receipt[id].turn # NoTurn =>
     /\ IsTerminal(turn[receipt[id].turn].state)
     /\ receipt[id].state = turn[receipt[id].turn].state
     /\ receipt[id].rev = turn[receipt[id].turn].rev

\* A turn is retried at most once, and only after an outcome that is known to
\* have had no effect; all turns of a thread share its credential binding.
RetryLineageSound ==
  \A k \in Turns :
     /\ turn[k].bind = threadBind
     /\ Source[k] # NoTurn =>
          /\ \/ turn[Source[k]].state = "Cancelled"
             \/ turn[Source[k]].state = "Failed" /\ turn[Source[k]].retryable
          /\ turn[Source[k]].depth < turn[k].depth
          /\ \A j \in Turns : Source[j] = Source[k] => j = k

\* Tasks, permits and the registry agree: an entry names the slot that works on
\* its turn, a held permit has a holder, a turn at the provider has an owner,
\* and only a terminal turn is signalled (launch_conversation_turn, cancel).
TasksAccounted ==
  /\ RegistryMatchesSlots
  /\ PermitsAccounted
  /\ StartedTurnHasOwner
  /\ SignalledTurnsAreTerminal

\* What the store tells for ever is true: receipts, retry lineage and the text
\* of completed answers, whatever was replayed, retried or detached.
RecordsSound ==
  /\ ReceiptsMatchTurns
  /\ RetryLineageSound
  /\ CompletedTextExact

\* Terminal records never change, whoever commits late: tasks, detached calls,
\* cancels and recovery.
TerminalTurnsFinal ==
  [][\A k \in Keys : IsTerminal(turn[k].state) => turn'[k] = turn[k]]_vars

\* The provider is called only with the credential the turn is bound to, and
\* it is the current one: rotation waits for the use guard.
CallUsesBoundCredential ==
  [][\A k \in Keys : calls'[k] # calls[k] => cred = turn[k].bind /\ cred # NoBinding]_vars

\* A retry reuses the frozen context of its source; it is what a new start
\* would see, no completed exchange is missing from it.
RetryContextCurrent ==
  [][\A k \in Keys : turn[k].state = "Absent" /\ turn'[k].state # "Absent"
        => turn'[k].ctx = CompletedTurns]_vars

\* IPC opens only when no turn of an earlier process is left unclassified.
ServesOnlyRecovered ==
  [][~Serving /\ Serving' => \A k \in Keys : turn[k].state = "Absent"
                                              \/ IsTerminal(turn[k].state)]_vars

\* Every behaviour of the daemon is, turn by turn, a behaviour of the abstract
\* lifecycle: the provider request is one step of the turn between the durable
\* start and the outcome, whatever is replayed, detached or recovered.
Lifecycle == INSTANCE TurnLifecycle
               WITH state <- [k \in Keys |-> turn[k].state], called <- calls

RefinesTurnLifecycle == Lifecycle!Spec

\* A turn that reached the provider is classified, or its task is quarantined
\* until a cancellation, or the daemon goes down.
StartedTurnSettles ==
  \A k \in Keys : turn[k].state = "ProviderStarted"
     ~> IsTerminal(turn[k].state) \/ Quarantined(k) \/ ~Serving

\* The daemon gets through startup recovery, several passes if need be.
DaemonServesAgain == daemon.mode # "serving" ~> daemon.mode = "serving"
=============================================================================
