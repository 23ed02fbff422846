------------------------- MODULE DirectChatRecords --------------------------
(***************************************************************************)
(* What the store of DirectChat tells for ever: receipts, retry lineage,   *)
(* frozen contexts and the text of answers, for every set of commands,     *)
(* requests, permits and bindings.                                         *)
(***************************************************************************)
EXTENDS DirectChatProofs

USE DEF TurnStates, RunStates, EffectStates, Plans

-----------------------------------------------------------------------------
(* What one step does to the store *)

Reserves == \E k \in Keys, b \in Bindings : MayReserve(k, b) /\ Reserve(k, b)

\* One active turn moves on and keeps its lineage; a completion is the newest
\* message and its answer the logged text.
Advance(k, t) ==
  /\ turn' = [turn EXCEPT ![k] = t]
  /\ turn[k].state \in {"Reserved", "ProviderStarted"}
  /\ t.state \notin {"Absent", "Reserved", turn[k].state}
  /\ t.bind = turn[k].bind /\ t.depth = turn[k].depth /\ t.ctx = turn[k].ctx
  /\ t.text = turn[k].text
  /\ t.state = "Completed" => t.answer = t.text /\ t.answer > 0
  /\ newest' = IF t.state = "Completed" THEN <<k, "assistant">> ELSE newest
  /\ threadBind' = threadBind

Advances == \E k \in Keys, t \in TurnRecords : Advance(k, t)

AppendsTurn(k, off, n) ==
  MayAppend(k, off) /\ SetTurn(k, AppendedTurn(turn[k], off, n))

\* A receipt tells the outcome its turn has from this step on.
Receipted ==
  \/ receipt' = receipt
  \/ \E id \in CancelIds, k \in Keys, exp \in Nat :
       /\ IsTerminal(turn'[k].state)
       /\ receipt' = [receipt EXCEPT ![id] = [turn |-> k, exp |-> exp,
                         state |-> turn'[k].state, rev |-> turn'[k].rev]]

TurnsMove == \/ UNCHANGED <<turn, threadBind, newest>>
             \/ Reserves
             \/ Advances

StoreMoves == TurnsMove /\ Receipted

\* A step that leaves the store alone.
LEMMA SameStore ==
  ASSUME UNCHANGED storeVars
  PROVE  StoreMoves
  BY Zenon DEF storeVars, StoreMoves, TurnsMove, Receipted

\* A reservation is a store move.
LEMMA ReserveStore ==
  ASSUME NEW k \in Keys, NEW b \in Bindings, MayReserve(k, b), Reserve(k, b)
  PROVE  StoreMoves
  BY Zenon DEF StoreMoves, TurnsMove, Receipted, Reserves, Reserve

\* The durable start moves a reserved turn on.
LEMMA StartStore ==
  ASSUME StoreTypeOK, NEW k \in Keys, MayStartProvider(k), SetTurn(k, StartedTurn(turn[k]))
  PROVE  StoreMoves
<1> DEFINE t == StartedTurn(turn[k])
<1>1. turn[k] \in TurnRecords
  BY Zenon DEF StoreTypeOK
<1>2. t \in TurnRecords
  BY Zenon, <1>1, StartedTurnType
<1>3. /\ t.state = "ProviderStarted" /\ t.bind = turn[k].bind /\ t.depth = turn[k].depth
      /\ t.ctx = turn[k].ctx /\ t.text = turn[k].text
  BY Zenon, <1>1 DEF StartedTurn, TurnRecords
<1>4. turn[k].state = "Reserved"
  BY Zenon DEF MayStartProvider, TurnPermits
<1>5. /\ turn' = [turn EXCEPT ![k] = t] /\ threadBind' = threadBind /\ receipt' = receipt
      /\ newest' = newest
  BY Zenon, <1>3 DEF SetTurn
<1> HIDE DEF t
<1>6. Advance(k, t)
  BY Zenon, <1>3, <1>4, <1>5 DEF Advance
<1> QED BY Zenon, <1>2, <1>5, <1>6 DEF StoreMoves, TurnsMove, Advances, Receipted

\* The fields a terminal commit writes and those it keeps.
LEMMA TerminalFields ==
  ASSUME NEW t \in TurnRecords, NEW to, NEW a, NEW r
  PROVE  /\ TerminalTurn(t, to, a, r).state = to
         /\ TerminalTurn(t, to, a, r).answer = a
         /\ TerminalTurn(t, to, a, r).bind = t.bind
         /\ TerminalTurn(t, to, a, r).depth = t.depth
         /\ TerminalTurn(t, to, a, r).ctx = t.ctx
         /\ TerminalTurn(t, to, a, r).text = t.text
  BY Zenon DEF TerminalTurn, TurnRecords

\* A valid terminal commit moves an active turn on.
LEMMA TerminalAdvance ==
  ASSUME StoreTypeOK, NEW k \in Keys, NEW to, NEW exp, NEW a \in Nat, NEW r \in BOOLEAN,
         IsTerminal(to), ValidTerminal(k, to, exp, a),
         turn' = [turn EXCEPT ![k] = TerminalTurn(turn[k], to, a, r)],
         newest' = IF to = "Completed" THEN <<k, "assistant">> ELSE newest,
         threadBind' = threadBind
  PROVE  TurnsMove
<1> DEFINE t == TerminalTurn(turn[k], to, a, r)
<1>1. turn[k] \in TurnRecords
  BY Zenon DEF StoreTypeOK
<1>2. t \in TurnRecords
  BY Zenon, <1>1, TerminalTurnType
<1>3. /\ t.state = to /\ t.bind = turn[k].bind /\ t.depth = turn[k].depth
      /\ t.ctx = turn[k].ctx /\ t.text = turn[k].text /\ t.answer = a
  BY <1>1, TerminalFields
<1>4. turn[k].state \in {"Reserved", "ProviderStarted"} /\ to \notin {"Absent", "Reserved", "ProviderStarted"}
  BY Zenon DEF ValidTerminal, TurnPermits, IsTerminal
<1>5. to = "Completed" => a > 0 /\ a = turn[k].text
  BY Zenon DEF ValidTerminal
<1>6. turn' = [turn EXCEPT ![k] = t]
  BY Zenon
<1> HIDE DEF t
<1>7. Advance(k, t)
  BY Zenon, <1>3, <1>4, <1>5, <1>6 DEF Advance
<1> QED BY Zenon, <1>2, <1>7 DEF TurnsMove, Advances

\* A task's or the recovery's terminal commit is a store move.
LEMMA TerminalStore ==
  ASSUME StoreTypeOK, NEW k \in Keys, NEW to, NEW exp, NEW a \in Nat, NEW r \in BOOLEAN,
         IsTerminal(to), ValidTerminal(k, to, exp, a),
         SetTurn(k, TerminalTurn(turn[k], to, a, r))
  PROVE  StoreMoves
<1>1. TerminalTurn(turn[k], to, a, r).state = to
  BY TerminalFields DEF StoreTypeOK
<1>2. TurnsMove
  BY Zenon, <1>1, TerminalAdvance DEF SetTurn
<1> QED BY Zenon, <1>2 DEF StoreMoves, Receipted, SetTurn

\* A cancellation moves its turn on or leaves a terminal one, and says so.
LEMMA CancellationStore ==
  ASSUME StoreTypeOK, ReceiptsMatchTurns, NEW id \in CancelIds, NEW k \in Keys,
         NEW exp \in Nat, NEW plan \in Plans, NEW rev \in Nat,
         CommitCancellation(id, k, exp, plan, rev)
  PROVE  StoreMoves /\ IsTerminal(turn'[k].state)
<1> DEFINE verdict == CancelVerdict(id, k, exp, plan, rev)
<1>0. turn \in [Keys -> TurnRecords] /\ turn[k] \in TurnRecords
  BY Zenon DEF StoreTypeOK
<1>1. verdict \in {"replay", "winner", "commit"}
  BY Zenon DEF CommitCancellation, CancelVerdict
<1>2. CASE verdict = "commit"
  <2> DEFINE t == TerminalTurn(turn[k], plan, 0, FALSE)
  <2>1. ValidTerminal(k, plan, exp, 0) /\ plan # "None"
    BY Zenon, <1>2 DEF CancelVerdict
  <2>2. /\ turn' = [turn EXCEPT ![k] = t]
        /\ receipt' = [receipt EXCEPT ![id] = [turn |-> k, exp |-> exp,
                                              state |-> t.state, rev |-> t.rev]]
        /\ newest' = newest /\ threadBind' = threadBind
    BY Zenon, <1>2 DEF CommitCancellation
  <2>a. IsTerminal(plan) /\ plan # "Completed"
    BY Zenon, <2>1 DEF IsTerminal
  <2>b. t.state = plan
    BY Zenon, <1>0 DEF TerminalTurn, TurnRecords
  <2>3. t.state = plan /\ IsTerminal(plan) /\ plan # "Completed"
    BY Zenon, <2>a, <2>b
  <2>4. TurnsMove
    BY Zenon, <2>1, <2>2, <2>3, TerminalAdvance
  <2>5. turn'[k] = t
    BY Zenon, <1>0, <2>2
  <2> HIDE DEF t
  <2>6. Receipted
    BY Zenon, <2>2, <2>3, <2>5 DEF Receipted
  <2> QED BY Zenon, <2>3, <2>4, <2>5, <2>6 DEF StoreMoves
<1>3. CASE verdict # "commit"
  <2>1. turn' = turn /\ newest' = newest /\ threadBind' = threadBind
    BY Zenon, <1>0, <1>3 DEF CommitCancellation
  <2>2. IsTerminal(turn[k].state)
    BY Zenon, <1>1, <1>3, NoTurnAssumption DEF CancelVerdict, ReceiptsMatchTurns
  <2>3. \/ receipt' = receipt
        \/ receipt' = [receipt EXCEPT ![id] = [turn |-> k, exp |-> exp,
                         state |-> turn[k].state, rev |-> turn[k].rev]]
    BY Zenon, <1>3 DEF CommitCancellation
  <2>4. Receipted
    BY Zenon, <2>1, <2>2, <2>3 DEF Receipted
  <2> QED BY Zenon, <2>1, <2>2, <2>4 DEF StoreMoves, TurnsMove
<1> QED BY Zenon, <1>2, <1>3

\* Every step of a request is a store move; only a cancellation writes a receipt.
LEMMA HandlerStore ==
  ASSUME TypeOK, ReceiptsMatchTurns, NEW h \in Handlers, HandlerStep(h)
  PROVE  StoreMoves
<1>0. handler[h] \in HandlerRecords /\ StoreTypeOK
  BY Zenon DEF TypeOK
<1>1. CASE ReserveTurn(h)
  <2>1. handler[h].k \in Keys /\ handler[h].bind \in Bindings
    BY Zenon, <1>0, <1>1 DEF ReserveTurn, HandlerRecords
  <2> QED BY Zenon, <1>1, <2>1, ReserveStore, SameStore DEF ReserveTurn, Ambiguously
<1>2. CASE CommitCancel(h)
  <2>1. /\ handler[h].k \in Keys /\ handler[h].plan \in Plans /\ handler[h].id \in CancelIds
        /\ handler[h].exp \in Nat /\ handler[h].rev \in Nat
    BY Zenon, <1>0, <1>2 DEF CommitCancel, HandlerRecords, CancelIds
  <2> QED BY Zenon, <1>0, <1>2, <2>1, CancellationStore, SameStore DEF CommitCancel, Ambiguously
<1>3. CASE ~ReserveTurn(h) /\ ~CommitCancel(h)
  BY Zenon, <1>3, SameStore
  DEF HandlerStep, BeginStart, AnswerReplay, AcquirePermit, Preflight, Launch, BeginCancel,
      SignalTask, ReleaseQuarantined, RequestTimeout
<1> QED BY Zenon, <1>1, <1>2, <1>3

\* A task's terminal commit, however it is answered, is a store move.
LEMMA TaskTerminalStore ==
  ASSUME StoreTypeOK, NEW s \in Slots, slot[s].k \in Keys, NEW to, IsTerminal(to),
         NEW a \in Nat, NEW r \in BOOLEAN, NEW onOk, NEW onConflict, NEW onError,
         TaskCommit(s, ValidTerminal(slot[s].k, to, 1, a), TerminalTurn(turn[slot[s].k], to, a, r),
                    onOk, onConflict, onError)
  PROVE  StoreMoves
  BY Zenon, TerminalStore, SameStore DEF TaskCommit, Ambiguously

\* Every step of a task is a store move or the append of its next chunk.
LEMMA TaskStore ==
  ASSUME TypeOK, ReceiptsMatchTurns, NEW s \in Slots, TaskStep(s)
  PROVE  \/ StoreMoves
         \/ AppendText(s) /\ AppendsTurn(slot[s].k, slot[s].off, ChunkSize(s))
<1> DEFINE k == slot[s].k
<1>0. /\ StoreTypeOK /\ slot[s] \in SlotRecords /\ slot[s].retryable \in BOOLEAN
      /\ slot[s].out \in Nat /\ slot[s].rev \in Nat /\ slot[s].plan \in Plans
  BY Zenon DEF TypeOK, SlotRecords
<1>1. CASE StartProvider(s)
  <2>1. k \in Keys
    BY Zenon, <1>1, TaskTurn DEF StartProvider, TypeOK, TaskPcs, DispatchPcs
  <2> QED BY Zenon, <1>0, <1>1, <2>1, StartStore, SameStore DEF StartProvider, TaskCommit, Ambiguously
<1>2. CASE CompleteTurn(s) \/ FailTurn(s) \/ InterruptTurn(s)
  <2>1. k \in Keys
    BY Zenon, <1>2, TaskTurn DEF CompleteTurn, FailTurn, InterruptTurn, TypeOK, TaskPcs, DispatchPcs
  <2>2. IsTerminal("Completed") /\ IsTerminal("Failed") /\ IsTerminal("InterruptedNeedsReview")
    BY Zenon DEF IsTerminal
  <2> QED BY Zenon, <1>0, <1>2, <2>1, <2>2, TaskTerminalStore, SameStore
          DEF CompleteTurn, FailTurn, InterruptTurn, TaskLocal
<1>3. CASE AppendText(s)
  BY Zenon, <1>3, SameStore DEF AppendText, Ambiguously, AppendsTurn
<1>4. CASE ReconcileCommit(s)
  <2>1. k \in Keys /\ k \in CancelIds
    BY Zenon, <1>4, TaskTurn DEF ReconcileCommit, TypeOK, TaskPcs, DispatchPcs, CancelIds
  <2> QED BY Zenon, <1>0, <1>4, <2>1, CancellationStore, SameStore DEF ReconcileCommit, Ambiguously
<1>5. CASE \/ AcquireCredentialUse(s) \/ LoadAfterConflict(s) \/ CallProvider(s)
           \/ StreamOpened(s) \/ StreamCancelled(s) \/ ProviderError(s)
           \/ (\E n \in Deltas : TextDelta(s, n))
           \/ StreamCompleted(s) \/ (\E usage \in BOOLEAN : StreamEnd(s, usage))
           \/ StoreRaceCancelled(s) \/ RecheckTurn(s) \/ ReconcileLoad(s) \/ GiveUp(s)
           \/ FinishTask(s)
  BY Zenon, <1>5, SameStore
  DEF TaskLocal, AcquireCredentialUse, LoadAfterConflict, CallProvider, StreamOpened,
      StreamCancelled, ProviderError, TextDelta, StreamCompleted, StreamEnd,
      StoreRaceCancelled, RecheckTurn, ReconcileLoad, GiveUp, FinishTask
<1> QED BY Zenon, <1>1, <1>2, <1>3, <1>4, <1>5 DEF TaskStep

\* A detached call is a store move or a late append.
LEMMA DetachedStore ==
  ASSUME TypeOK, ReceiptsMatchTurns, NEW d \in detached, RunDetached(d)
  PROVE  StoreMoves \/ (d.op = "append" /\ AppendsTurn(d.k, d.off, d.n))
<1>0. /\ d.k \in Keys /\ d.n \in Nat /\ d.plan \in Plans /\ d.rev \in Nat
      /\ d.op = "reserve" => d.bind \in Bindings
      /\ d.op = "cancel" => d.id \in CancelIds
      /\ StoreTypeOK /\ IsTerminal("Completed")
  BY Zenon DEF TypeOK, DetachedOps, IsTerminal
<1> QED BY Zenon, <1>0, ReserveStore, CancellationStore, TerminalStore, SameStore
        DEF RunDetached, AppendsTurn

\* Rotation, crash and recovery are store moves.
LEMMA DaemonStore ==
  ASSUME TypeOK,
         \/ \E b \in Bindings \cup {NoBinding} : RotateCredential(b)
         \/ Crash \/ RecoveryStep
  PROVE  StoreMoves
<1>1. ASSUME NEW k \in Keys, RecoverTurn(k)  PROVE StoreMoves
  <2> DEFINE to == CancellationEdge(turn[k].state)
  <2>1. ValidTerminal(k, to, turn[k].rev, 0) => IsTerminal(to)
    BY Zenon DEF ValidTerminal, TurnPermits, CancellationEdge, IsTerminal
  <2>2. ValidTerminal(k, to, turn[k].rev, 0) /\ SetTurn(k, TerminalTurn(turn[k], to, 0, FALSE))
          => StoreMoves
    <3>1. StoreTypeOK
      BY Zenon DEF TypeOK
    <3> HIDE DEF to
    <3> QED BY Zenon, <2>1, <3>1, TerminalStore
  <2> QED BY Zenon, <1>1, <2>2, SameStore DEF RecoverTurn, Ambiguously
<1> QED BY Zenon, <1>1, SameStore
        DEF RotateCredential, Crash, RecoveryStep, BeginRecovery, EndRecovery

\* Every step is a store move or an append.
LEMMA NextStore ==
  ASSUME TypeOK, ReceiptsMatchTurns, Next
  PROVE  \/ StoreMoves
         \/ \E s \in Slots : AppendText(s) /\ AppendsTurn(slot[s].k, slot[s].off, ChunkSize(s))
         \/ \E d \in detached : /\ RunDetached(d) /\ d.op = "append"
                                /\ AppendsTurn(d.k, d.off, d.n)
  BY Zenon, HandlerStore, TaskStore, DetachedStore, DaemonStore DEF Next

-----------------------------------------------------------------------------
(* What the store tells is true for ever *)

\* A turn that exists is bound to a credential, and one that was not started
\* has an empty log.
TurnsFormed ==
  \A k \in Keys : /\ turn[k].state # "Absent" => turn[k].bind \in Bindings
                  /\ turn[k].state \in {"Absent", "Reserved"} => turn[k].text = 0

\* While a user message is the newest one, nothing was completed since its turn
\* was reserved: the context frozen there is the current one.
NewestContext ==
  newest[1] \in Keys /\ newest[2] = "user" => turn[newest[1]].ctx = CompletedTurns

AnswersExact ==
  \A k \in Keys : turn[k].state = "Completed" =>
     turn[k].answer = turn[k].text /\ turn[k].answer > 0

\* The inductive invariant of the store.
StoreSound ==
  /\ TurnsFormed
  /\ NewestContext
  /\ AnswersExact
  /\ ReceiptsMatchTurns
  /\ RetryLineageSound

\* What a step leaves of every turn: a turn that exists keeps its lineage, a
\* terminal one everything.
TurnsKept ==
  \A k \in Keys :
     /\ turn[k].state # "Absent" =>
          /\ turn'[k].state # "Absent" /\ turn'[k].bind = turn[k].bind
          /\ turn'[k].depth = turn[k].depth /\ turn'[k].ctx = turn[k].ctx
     /\ IsTerminal(turn[k].state) => turn'[k] = turn[k]

\* The fields of a reservation.
LEMMA ReservedFields ==
  ASSUME NEW k, NEW b
  PROVE  /\ ReservedTurn(k, b).state = "Reserved" /\ ReservedTurn(k, b).bind = b
         /\ ReservedTurn(k, b).text = 0 /\ ReservedTurn(k, b).ctx = ContextOf(k)
         /\ ReservedTurn(k, b).depth =
              IF Source[k] = NoTurn THEN 0 ELSE turn[Source[k]].depth + 1
  BY Zenon DEF ReservedTurn, AbsentTurn

\* The fields of a turn whose log grew.
LEMMA AppendedFields ==
  ASSUME NEW t \in TurnRecords, NEW off, NEW n
  PROVE  /\ AppendedTurn(t, off, n).state = t.state
         /\ AppendedTurn(t, off, n).bind = t.bind
         /\ AppendedTurn(t, off, n).depth = t.depth
         /\ AppendedTurn(t, off, n).ctx = t.ctx
         /\ AppendedTurn(t, off, n).rev = t.rev
         /\ AppendedTurn(t, off, n).retryable = t.retryable
         /\ AppendedTurn(t, off, n).text = IF off = t.text THEN t.text + n ELSE t.text
  BY Zenon DEF AppendedTurn, TurnRecords

\* An append changes the text of one started turn and nothing else.
LEMMA AppendEffect ==
  ASSUME StoreTypeOK, NEW k \in Keys, NEW off, NEW n, AppendsTurn(k, off, n)
  PROVE  /\ turn[k].state = "ProviderStarted" /\ newest' = newest
         /\ threadBind' = threadBind /\ receipt' = receipt
         /\ turn' = [turn EXCEPT ![k] = AppendedTurn(turn[k], off, n)]
<1>1. AppendedTurn(turn[k], off, n).state = turn[k].state
  BY AppendedFields DEF StoreTypeOK
<1> QED BY Zenon, <1>1 DEF AppendsTurn, MayAppend, SetTurn

\* No step rewrites the lineage of a turn, or anything of a terminal one.
LEMMA StepKeepsTurns ==
  ASSUME StoreTypeOK,
         TurnsMove \/ \E k \in Keys, off, n \in Nat : AppendsTurn(k, off, n)
  PROVE  TurnsKept
<1>0. turn \in [Keys -> TurnRecords]
  BY Zenon DEF StoreTypeOK
<1>1. CASE UNCHANGED <<turn, threadBind, newest>>
  BY Zenon, <1>1 DEF TurnsKept
<1>2. ASSUME NEW k \in Keys, NEW b \in Bindings, MayReserve(k, b), Reserve(k, b)
      PROVE  TurnsKept
  <2>1. turn[k].state = "Absent" /\ turn' = [turn EXCEPT ![k] = ReservedTurn(k, b)]
    BY Zenon, <1>2 DEF MayReserve, Reserve
  <2> QED BY Zenon, <1>0, <2>1 DEF TurnsKept, IsTerminal
<1>3. ASSUME NEW k \in Keys, NEW t \in TurnRecords, Advance(k, t)
      PROVE  TurnsKept
  BY Zenon, <1>0, <1>3 DEF TurnsKept, IsTerminal, Advance
<1>4. ASSUME NEW k \in Keys, NEW off \in Nat, NEW n \in Nat, AppendsTurn(k, off, n)
      PROVE  TurnsKept
  <2>1. turn[k].state = "ProviderStarted"
        /\ turn' = [turn EXCEPT ![k] = AppendedTurn(turn[k], off, n)]
    BY Zenon, <1>4, AppendEffect
  <2>2. turn[k] \in TurnRecords
    BY Zenon, <1>0
  <2> QED BY <1>0, <2>1, <2>2, AppendedFields DEF TurnsKept, IsTerminal
<1> QED BY Zenon, <1>1, <1>2, <1>3, <1>4 DEF TurnsMove, Reserves, Advances

\* A receipt keeps telling what its turn says.
LEMMA ReceiptsStep ==
  ASSUME StoreTypeOK, TurnsKept, Receipted, ReceiptsMatchTurns
  PROVE  ReceiptsMatchTurns'
<1> SUFFICES ASSUME NEW id \in CancelIds, receipt'[id].turn # NoTurn
             PROVE  /\ IsTerminal(turn'[receipt'[id].turn].state)
                    /\ receipt'[id].state = turn'[receipt'[id].turn].state
                    /\ receipt'[id].rev = turn'[receipt'[id].turn].rev
  BY Zenon DEF ReceiptsMatchTurns
<1>1. CASE receipt'[id] = receipt[id]
  <2>1. receipt[id].turn \in Keys
    BY Zenon, <1>1 DEF StoreTypeOK, Receipts
  <2> QED BY <1>1, <2>1 DEF ReceiptsMatchTurns, TurnsKept
<1>2. CASE receipt'[id] # receipt[id]
  BY <1>2 DEF Receipted, StoreTypeOK
<1> QED BY Zenon, <1>1, <1>2

\* The context a turn is reserved with is what a new start would see.
LEMMA ContextCurrent ==
  ASSUME StoreTypeOK, NewestContext, NEW k \in Keys, NEW b \in Bindings, MayReserve(k, b)
  PROVE  ContextOf(k) = CompletedTurns
<1>1. CASE Source[k] = NoTurn
  BY Zenon, <1>1 DEF ContextOf
<1>2. CASE Source[k] # NoTurn
  <2>1. newest = <<Source[k], "user">> /\ Source[k] \in Keys
    BY Zenon, <1>2, SourceAssumption DEF MayReserve, MayRetry, RetrySourceIsLatest
  <2> QED BY Zenon, <1>2, <2>1 DEF ContextOf, NewestContext
<1> QED BY Zenon, <1>1, <1>2

\* A reservation keeps the store sound: it is bound like the thread, and a retry
\* is the only one of its source, whose outcome is known and final.
LEMMA ReserveSound ==
  ASSUME StoreTypeOK, StoreSound, NEW k \in Keys, NEW b \in Bindings,
         MayReserve(k, b), Reserve(k, b), Receipted
  PROVE  StoreSound'
<1> DEFINE t == ReservedTurn(k, b)
<1>0. /\ turn \in [Keys -> TurnRecords] /\ turn[k].state = "Absent"
      /\ turn' = [turn EXCEPT ![k] = t] /\ threadBind' = b /\ newest' = <<k, "user">>
  BY Zenon DEF StoreTypeOK, MayReserve, Reserve
<1>1. /\ t.state = "Reserved" /\ t.bind = b /\ t.text = 0 /\ t.ctx = ContextOf(k)
      /\ t.depth = IF Source[k] = NoTurn THEN 0 ELSE turn[Source[k]].depth + 1
  BY Zenon, ReservedFields
<1>2. TurnsKept
  BY Zenon, StepKeepsTurns DEF TurnsMove, Reserves
<1> HIDE DEF t
<1>3. \A j \in Keys : turn'[j] = IF j = k THEN t ELSE turn[j]
  BY Zenon, <1>0
<1>4. TurnsFormed' /\ AnswersExact'
  BY Zenon, <1>1, <1>3 DEF StoreSound, TurnsFormed, AnswersExact
<1>5. NewestContext'
  <2>1. CompletedTurns' = CompletedTurns
    BY Zenon, <1>0, <1>1, <1>3 DEF CompletedTurns
  <2>2. ContextOf(k) = CompletedTurns
    BY Zenon, ContextCurrent DEF StoreSound
  <2> QED BY Zenon, <1>0, <1>1, <1>3, <2>1, <2>2 DEF NewestContext
<1>6. ReceiptsMatchTurns'
  BY Zenon, <1>2, ReceiptsStep DEF StoreSound
<1>7. RetryLineageSound'
  <2>0. Turns' = Turns \cup {k} /\ k \notin Turns
    BY Zenon, <1>0, <1>1, <1>3 DEF Turns
  <2>1. \A j \in Turns : turn[j].bind = b
    BY NoBindingAssumption
    DEF StoreSound, RetryLineageSound, TurnsFormed, MayReserve, MayBind, MayRetry, Turns
  <2>2. ASSUME NEW j \in Turns'  PROVE turn'[j].bind = threadBind'
    BY Zenon, <1>0, <1>1, <1>3, <2>0, <2>1, <2>2 DEF Turns
  <2>3. ASSUME NEW j \in Turns, Source[j] # NoTurn
        PROVE  /\ Source[j] \in Keys \ {k} /\ Source[j] # Source[k]
               /\ \/ turn[Source[j]].state = "Cancelled"
                  \/ turn[Source[j]].state = "Failed" /\ turn[Source[j]].retryable
               /\ turn[Source[j]].depth < turn[j].depth
               /\ \A i \in Turns : Source[i] = Source[j] => i = j
    <3>1. j \in Keys /\ Source[j] \in Keys
      BY Zenon, <2>3, SourceAssumption DEF Turns
    <3>2. /\ \/ turn[Source[j]].state = "Cancelled"
             \/ turn[Source[j]].state = "Failed" /\ turn[Source[j]].retryable
          /\ turn[Source[j]].depth < turn[j].depth
          /\ \A i \in Turns : Source[i] = Source[j] => i = j
      BY Zenon, <2>3 DEF StoreSound, RetryLineageSound
    <3>3. Source[j] # Source[k]
      BY Zenon, <2>3 DEF MayReserve, MayRetry, RetrySourceIsLatest, AlreadyRetried
    <3> QED BY Zenon, <1>0, <3>1, <3>2, <3>3
  <2>4. ASSUME Source[k] # NoTurn
        PROVE  /\ Source[k] \in Keys \ {k}
               /\ \/ turn[Source[k]].state = "Cancelled"
                  \/ turn[Source[k]].state = "Failed" /\ turn[Source[k]].retryable
               /\ turn[Source[k]].depth < t.depth
               /\ \A i \in Turns : Source[i] # Source[k]
    <3>1. MayRetry(Source[k], b)
      BY Zenon, <2>4 DEF MayReserve
    <3>2. Source[k] \in Keys
      BY Zenon, <2>4, SourceAssumption
    <3>3. turn[Source[k]].depth \in Nat
      BY Zenon, <1>0, <3>2 DEF TurnRecords
    <3>4. turn[Source[k]].depth < t.depth
      BY <1>1, <2>4, <3>3
    <3> QED BY Zenon, <1>0, <3>1, <3>2, <3>4
            DEF MayRetry, RetryEligible, RetrySourceIsLatest, AlreadyRetried
  <2>5. ASSUME NEW j \in Turns', Source[j] # NoTurn
        PROVE  /\ \/ turn'[Source[j]].state = "Cancelled"
                  \/ turn'[Source[j]].state = "Failed" /\ turn'[Source[j]].retryable
               /\ turn'[Source[j]].depth < turn'[j].depth
               /\ \A i \in Turns' : Source[i] = Source[j] => i = j
    <3>1. CASE j = k
      BY Zenon, <1>3, <2>0, <2>4, <2>5, <3>1
    <3>2. CASE j # k
      <4>1. j \in Turns /\ j \in Keys
        BY Zenon, <2>0, <2>5, <3>2 DEF Turns
      <4> QED BY Zenon, <1>3, <2>0, <2>3, <2>5, <3>2, <4>1
    <3> QED BY Zenon, <3>1, <3>2
  <2> QED BY Zenon, <2>2, <2>5 DEF RetryLineageSound
<1> QED BY Zenon, <1>4, <1>5, <1>6, <1>7 DEF StoreSound

\* A step that reserves nothing keeps the retry lineage.
LEMMA LineageStep ==
  ASSUME StoreTypeOK, RetryLineageSound, TurnsKept, threadBind' = threadBind,
         \A k \in Keys : turn[k].state = "Absent" => turn'[k].state = "Absent"
  PROVE  RetryLineageSound'
<1>1. Turns' = Turns
  BY Zenon DEF Turns, TurnsKept
<1>2. ASSUME NEW k \in Turns
      PROVE  turn'[k].bind = threadBind' /\ turn'[k].depth = turn[k].depth
  BY ZenonT(30) DEF Turns, TurnsKept, RetryLineageSound
<1>3. ASSUME NEW k \in Turns, Source[k] # NoTurn
      PROVE  turn'[Source[k]] = turn[Source[k]]
  <2>1. Source[k] \in Keys
    BY Zenon, <1>3, SourceAssumption DEF Turns
  <2>2. IsTerminal(turn[Source[k]].state)
    BY Zenon, <1>3 DEF RetryLineageSound, IsTerminal
  <2> QED BY Zenon, <2>1, <2>2 DEF TurnsKept
<1> QED BY <1>1, <1>2, <1>3 DEF RetryLineageSound

\* A turn that moves on keeps the store sound.
LEMMA AdvanceSound ==
  ASSUME StoreTypeOK, StoreSound, NEW k \in Keys, NEW t \in TurnRecords,
         Advance(k, t), Receipted
  PROVE  StoreSound'
<1>0. turn \in [Keys -> TurnRecords]
  BY Zenon DEF StoreTypeOK
<1>1. TurnsKept
  BY Zenon, StepKeepsTurns DEF TurnsMove, Advances
<1>2. \A j \in Keys : turn'[j] = IF j = k THEN t ELSE turn[j]
  BY Zenon, <1>0 DEF Advance
<1>3. TurnsFormed' /\ AnswersExact'
  BY <1>2 DEF StoreSound, TurnsFormed, AnswersExact, Advance
<1>4. NewestContext'
  <2>1. CASE t.state = "Completed"
    BY Zenon, <2>1 DEF NewestContext, Advance
  <2>2. CASE t.state # "Completed"
    <3>1. CompletedTurns' = CompletedTurns
      BY Zenon, <1>2, <2>2 DEF CompletedTurns, Advance
    <3>2. newest' = newest /\ \A j \in Keys : turn'[j].ctx = turn[j].ctx
      BY Zenon, <1>2, <2>2 DEF Advance
    <3> QED BY Zenon, <3>1, <3>2 DEF NewestContext, StoreSound
  <2> QED BY Zenon, <2>1, <2>2
<1>5. ReceiptsMatchTurns'
  BY Zenon, <1>1, ReceiptsStep DEF StoreSound
<1>6. RetryLineageSound'
  BY Zenon, <1>1, <1>2, LineageStep DEF StoreSound, Advance
<1> QED BY Zenon, <1>3, <1>4, <1>5, <1>6 DEF StoreSound

\* An append keeps the store sound.
LEMMA AppendSound ==
  ASSUME StoreTypeOK, StoreSound, NEW k \in Keys, NEW off \in Nat, NEW n \in Nat,
         AppendsTurn(k, off, n)
  PROVE  StoreSound'
<1> DEFINE t == AppendedTurn(turn[k], off, n)
<1>0. turn \in [Keys -> TurnRecords] /\ turn[k] \in TurnRecords
  BY Zenon DEF StoreTypeOK
<1>1. /\ turn[k].state = "ProviderStarted" /\ turn' = [turn EXCEPT ![k] = t]
      /\ newest' = newest /\ threadBind' = threadBind /\ receipt' = receipt
  BY Zenon, AppendEffect
<1>2. TurnsKept
  BY Zenon, StepKeepsTurns
<1>3. /\ t.state = turn[k].state /\ t.bind = turn[k].bind /\ t.ctx = turn[k].ctx
  BY <1>0, AppendedFields
<1> HIDE DEF t
<1>4. \A j \in Keys : turn'[j] = IF j = k THEN t ELSE turn[j]
  BY Zenon, <1>0, <1>1
<1>5. TurnsFormed' /\ AnswersExact'
  BY <1>1, <1>3, <1>4 DEF StoreSound, TurnsFormed, AnswersExact
<1>6. NewestContext'
  <2>1. CompletedTurns' = CompletedTurns
    BY Zenon, <1>3, <1>4 DEF CompletedTurns
  <2> QED BY Zenon, <1>1, <1>3, <1>4, <2>1 DEF NewestContext, StoreSound
<1>7. ReceiptsMatchTurns'
  BY Zenon, <1>1, <1>2, ReceiptsStep DEF StoreSound, Receipted
<1>8. RetryLineageSound'
  BY Zenon, <1>1, <1>2, <1>3, <1>4, LineageStep DEF StoreSound
<1> QED BY Zenon, <1>5, <1>6, <1>7, <1>8 DEF StoreSound

\* Every step keeps the store sound and every turn what it was.
LEMMA StoreStep ==
  ASSUME TypeOK, StoreSound, Next
  PROVE  StoreSound' /\ TurnsKept
<1>0. StoreTypeOK /\ ReceiptsMatchTurns
  BY Zenon DEF TypeOK, StoreSound
<1>1. CASE StoreMoves
  <2>1. TurnsKept
    BY Zenon, <1>0, <1>1, StepKeepsTurns DEF StoreMoves
  <2>2. CASE UNCHANGED <<turn, threadBind, newest>>
    <3>1. TurnsFormed' /\ AnswersExact' /\ NewestContext'
      BY Zenon, <2>2 DEF StoreSound, TurnsFormed, AnswersExact, NewestContext, CompletedTurns
    <3>2. ReceiptsMatchTurns'
      BY Zenon, <1>0, <1>1, <2>1, ReceiptsStep DEF StoreMoves
    <3>3. RetryLineageSound'
      BY Zenon, <1>0, <2>1, <2>2, LineageStep DEF StoreSound
    <3> QED BY Zenon, <2>1, <3>1, <3>2, <3>3 DEF StoreSound
  <2> QED BY Zenon, <1>0, <1>1, <2>1, <2>2, ReserveSound, AdvanceSound
          DEF StoreMoves, TurnsMove, Reserves, Advances
<1>2. ASSUME NEW k \in Keys, NEW off \in Nat, NEW n \in Nat, AppendsTurn(k, off, n)
      PROVE  StoreSound' /\ TurnsKept
  BY Zenon, <1>0, <1>2, AppendSound, StepKeepsTurns
<1>3. ASSUME NEW s \in Slots, AppendText(s)
      PROVE  slot[s].k \in Keys /\ slot[s].off \in Nat /\ ChunkSize(s) \in Nat
  <2>1. slot[s] \in SlotRecords /\ slot[s].pc \in {"append", "flush"}
    BY Zenon, <1>3 DEF AppendText, TypeOK
  <2>2. slot[s].k \in Keys
    BY Zenon, <2>1, TaskTurn DEF TypeOK, TaskPcs, DispatchPcs
  <2> QED BY Zenon, <2>1, <2>2, ChunkSizeType DEF SlotRecords
<1>4. \A d \in detached : d.k \in Keys /\ d.off \in Nat /\ d.n \in Nat
  BY Zenon DEF TypeOK, DetachedOps
<1> QED BY Zenon, <1>0, <1>1, <1>2, <1>3, <1>4, NextStore

\* A stuttering step keeps the store sound.
LEMMA StoreStutter ==
  ASSUME StoreSound, UNCHANGED vars
  PROVE  StoreSound'
  BY DEF vars, storeVars, StoreSound, TurnsFormed, AnswersExact, NewestContext,
         CompletedTurns, ReceiptsMatchTurns, RetryLineageSound, Turns

\* The empty store is sound.
LEMMA StoreSoundInit ==
  ASSUME Init
  PROVE  StoreSound
<1>1. \A k \in Keys : turn[k].state = "Absent" /\ turn[k].text = 0
  BY Zenon DEF Init, StoreInit, AbsentTurn
<1>2. \A id \in CancelIds : receipt[id].turn = NoTurn
  BY Zenon DEF Init, StoreInit, NoReceipt
<1>3. newest[1] \notin Keys
  BY Zenon, NoTurnAssumption DEF Init, StoreInit
<1> QED BY Zenon, <1>1, <1>2, <1>3
        DEF StoreSound, TurnsFormed, AnswersExact, NewestContext, ReceiptsMatchTurns,
            RetryLineageSound, Turns

\* The store is sound in every reachable state.
THEOREM StoreHolds == Spec => []StoreSound
<1>1. Init => TypeOK /\ StoreSound
  BY Zenon, InitType, StoreSoundInit
<1>2. TypeOK /\ StoreSound /\ [Next]_vars => TypeOK' /\ StoreSound'
  BY Zenon, NextType, StoreStep, StoreStutter
<1> QED BY <1>1, <1>2, PTL DEF Spec

\* A retry sends the context frozen at its source, and no exchange completed
\* since then is missing from it (capture_retry_context).
THEOREM RetriesSeeCurrentContext == Spec => RetryContextCurrent
<1>1. TypeOK /\ StoreSound /\ [Next]_vars
        => [\A k \in Keys : turn[k].state = "Absent" /\ turn'[k].state # "Absent"
              => turn'[k].ctx = CompletedTurns]_vars
  <2> SUFFICES ASSUME TypeOK, StoreSound, Next, NEW k \in Keys,
                      turn[k].state = "Absent", turn'[k].state # "Absent"
               PROVE  turn'[k].ctx = CompletedTurns
    BY Zenon
  <2>0. turn \in [Keys -> TurnRecords] /\ StoreTypeOK /\ ReceiptsMatchTurns /\ NewestContext
    BY Zenon DEF TypeOK, StoreTypeOK, StoreSound
  <2>1. ASSUME NEW j \in Keys, NEW off, NEW n, AppendsTurn(j, off, n)  PROVE FALSE
    <3>1. turn[j].state = "ProviderStarted" /\ turn' = [turn EXCEPT ![j] = AppendedTurn(turn[j], off, n)]
      BY Zenon, <2>0, <2>1, AppendEffect
    <3> QED BY Zenon, <2>0, <3>1
  <2>2. ASSUME NEW j \in Keys, NEW t \in TurnRecords, Advance(j, t)  PROVE FALSE
    BY Zenon, <2>0, <2>2 DEF Advance
  <2>3. ASSUME NEW j \in Keys, NEW b \in Bindings, MayReserve(j, b), Reserve(j, b)
        PROVE  turn'[k].ctx = CompletedTurns
    <3>1. turn' = [turn EXCEPT ![j] = ReservedTurn(j, b)]
      BY Zenon, <2>3 DEF Reserve
    <3>2. k = j /\ turn'[k] = ReservedTurn(j, b)
      BY Zenon, <2>0, <3>1
    <3>3. ReservedTurn(j, b).ctx = ContextOf(j)
      BY Zenon, ReservedFields
    <3> QED BY Zenon, <2>0, <2>3, <3>2, <3>3, ContextCurrent
  <2>4. \A s \in Slots : AppendText(s) => slot[s].k \in Keys
    BY Zenon, TaskTurn DEF AppendText, TypeOK, TaskPcs, DispatchPcs
  <2>5. \A d \in detached : d.k \in Keys
    BY Zenon DEF TypeOK, DetachedOps
  <2>6. CASE TurnsMove
    BY Zenon, <2>2, <2>3, <2>6 DEF TurnsMove, Reserves, Advances
  <2> QED BY Zenon, <2>0, <2>1, <2>4, <2>5, <2>6, NextStore DEF StoreMoves
<1> QED BY <1>1, TypeCorrect, StoreHolds, PTL DEF Spec, RetryContextCurrent

-----------------------------------------------------------------------------
(* The text of an answer *)

\* Where a task awaits its start, and where it writes the log of its turn.
EarlyPcs == {"guard", "start", "conflicted"}
LogPcs == {"open", "opening", "stream", "append", "flush", "complete"}

\* While its turn is in flight, a task that writes the log is at its end.
SlotText(s) ==
  /\ slot[s].pc \in EarlyPcs => slot[s].off = 0
  /\ slot[s].pc \in LogPcs /\ turn[slot[s].k].state = "ProviderStarted" =>
       turn[slot[s].k].text = slot[s].off

\* No task writes the log of k, now or later.
PastLog(k) ==
  /\ turn[k].state \notin {"Absent", "Reserved"}
  /\ \A s \in Slots : slot[s].k = k => slot[s].pc \notin LogPcs

\* The inductive invariant of the logs: a detached append is left behind by the
\* only task that wrote the log.
TextSound ==
  /\ \A s \in Slots : SlotText(s)
  /\ \A d \in detached : d.op = "append" => PastLog(d.k)

\* A turn in flight after the step was so before, with the same text.
TextKept(k) ==
  turn'[k].state = "ProviderStarted" =>
    turn[k].state = "ProviderStarted" /\ turn'[k].text = turn[k].text

\* A started turn stays started.
StaysStarted ==
  \A k \in Keys : turn[k].state \notin {"Absent", "Reserved"} =>
                    turn'[k].state \notin {"Absent", "Reserved"}

\* A slot that neither starts to write a log nor writes it.
SlotLog(s) ==
  /\ slot'[s].pc \in LogPcs =>
       slot[s].pc \in LogPcs /\ slot'[s].k = slot[s].k /\ slot'[s].off = slot[s].off
  /\ slot'[s].pc \in EarlyPcs =>
       slot'[s].off = 0 \/ (slot[s].pc \in EarlyPcs /\ slot'[s].off = slot[s].off)

NoLogWritten == \A s \in Slots : SlotLog(s)

\* No append is left behind by the step.
NoNewAppend == \A d \in detached' : d.op = "append" => d \in detached

\* No turn is started, or only k.
NoStartBut(k) ==
  \A j \in Keys : turn'[j].state = "ProviderStarted" =>
                    turn[j].state = "ProviderStarted" \/ j = k

\* The slot of a task moves; it keeps its turn and its signal.
SlotMoves(s) ==
  /\ \A r \in Slots : r # s => slot'[r] = slot[r]
  /\ slot'[s].k = slot[s].k /\ slot'[s].sig = slot[s].sig

\* A task that goes elsewhere keeps its turn and its signal.
LEMMA GotoMoves ==
  ASSUME TypeOK, NEW s \in Slots, NEW next, Goto(s, next)
  PROVE  SlotMoves(s) /\ slot'[s].pc = next
  BY Zenon DEF Goto, TypeOK, SlotRecords, SlotMoves

\* Only the task of a turn starts it.
LEMMA OnlyTasksStart ==
  ASSUME TypeOK, BoundaryInv, Next
  PROVE  (\E s \in Slots : StartProvider(s)) \/ NoStartBut(NoTurn)
<1>1. turn \in [Keys -> TurnRecords]
  BY Zenon DEF TypeOK, StoreTypeOK
<1>2. CASE QuietStep
  BY Zenon, <1>1, <1>2 DEF QuietStep, QuietMoves, QuietMove, NoStartBut
<1>3. ASSUME NEW s \in Slots, CallProvider(s)  PROVE NoStartBut(NoTurn)
  BY Zenon, <1>3 DEF CallProvider, storeVars, NoStartBut
<1> QED BY Zenon, <1>2, <1>3, StepKinds

\* A slot that does not write keeps what it knows of the log.
LEMMA SlotTextKept ==
  ASSUME NEW s \in Slots, SlotText(s), SlotLog(s), slot[s].pc \in LogPcs => TextKept(slot[s].k)
  PROVE  SlotText(s)'
  BY Zenon DEF SlotText, SlotLog, TextKept

\* A log that is past stays past unless a task starts to write it.
LEMMA PastLogKept ==
  ASSUME NEW k \in Keys, PastLog(k), StaysStarted,
         \A r \in Slots : SlotLog(r) \/ slot'[r].k # k
  PROVE  PastLog(k)'
  BY Zenon DEF PastLog, StaysStarted, SlotLog

\* A task writes the log of a turn in Keys, and does so past its start.
LEMMA LogTurn ==
  ASSUME TypeOK, NEW s \in Slots, slot[s].pc \in LogPcs
  PROVE  slot[s].k \in Keys /\ slot[s].pc \in PostStartPcs
  BY Zenon, TaskTurn DEF TypeOK, LogPcs, TaskPcs, DispatchPcs, PostStartPcs

\* A step that writes no log keeps the logs sound.
LEMMA QuietText ==
  ASSUME TypeOK, TextSound, StaysStarted, \A k \in Keys : TextKept(k),
         NoLogWritten, NoNewAppend
  PROVE  TextSound'
<1>1. ASSUME NEW s \in Slots  PROVE SlotText(s)'
  BY Zenon, LogTurn, SlotTextKept DEF TextSound, NoLogWritten
<1>2. ASSUME NEW d \in detached', d.op = "append"  PROVE PastLog(d.k)'
  <2>1. d \in detached /\ d.k \in Keys /\ PastLog(d.k)
    BY Zenon, <1>2 DEF NoNewAppend, TypeOK, DetachedOps, TextSound
  <2> QED BY Zenon, <2>1, PastLogKept DEF NoLogWritten
<1> QED BY Zenon, <1>1, <1>2 DEF TextSound

\* A step that moves no turn to the provider and appends nothing keeps every
\* text, and no step takes a start back.
LEMMA StoreText ==
  ASSUME StoreTypeOK, TurnsMove
  PROVE  StaysStarted /\ (NoStartBut(NoTurn) => \A k \in Keys : TextKept(k))
<1>0. turn \in [Keys -> TurnRecords]
  BY Zenon DEF StoreTypeOK
<1>1. CASE turn' = turn
  BY Zenon, <1>1 DEF StaysStarted, TextKept
<1>2. CASE Reserves
  <2>1. PICK k \in Keys, b \in Bindings : MayReserve(k, b) /\ Reserve(k, b)
    BY Zenon, <1>2 DEF Reserves
  <2>2. turn[k].state = "Absent" /\ turn' = [turn EXCEPT ![k] = ReservedTurn(k, b)]
    BY Zenon, <2>1 DEF MayReserve, Reserve
  <2>3. ReservedTurn(k, b).state = "Reserved"
    BY Zenon, ReservedFields
  <2> QED BY Zenon, <1>0, <2>2, <2>3 DEF StaysStarted, TextKept
<1>3. CASE Advances
  <2>1. PICK k \in Keys, t \in TurnRecords : Advance(k, t)
    BY Zenon, <1>3 DEF Advances
  <2> QED BY Zenon, <1>0, <2>1, NoTurnAssumption DEF Advance, StaysStarted, TextKept, NoStartBut
<1> QED BY Zenon, <1>1, <1>2, <1>3 DEF TurnsMove

\* A task that goes elsewhere, but not to write a log, writes none.
LEMMA GotoLog ==
  ASSUME TypeOK, NEW s \in Slots, NEW next, Goto(s, next),
         next \in LogPcs => slot[s].pc \in LogPcs,
         next \in EarlyPcs => slot[s].pc \in EarlyPcs
  PROVE  NoLogWritten
<1>1. /\ \A r \in Slots : r # s => slot'[r] = slot[r]
      /\ slot'[s].pc = next /\ slot'[s].k = slot[s].k /\ slot'[s].off = slot[s].off
  BY Zenon DEF Goto, TypeOK, SlotRecords
<1> QED BY Zenon, <1>1 DEF SlotLog, NoLogWritten

\* Dropping a permit writes no log.
LEMMA FreedLog ==
  ASSUME TypeOK, NEW s, slot' = Freed(s)
  PROVE  NoLogWritten
<1>1. \A r \in Slots : slot'[r] = slot[r] \/ slot'[r].pc = "free"
  BY Zenon DEF Freed, TypeOK, FreeSlot
<1> QED BY Zenon, <1>1 DEF SlotLog, NoLogWritten, LogPcs, EarlyPcs

\* Neither does a step that leaves the slots alone.
LEMMA SameSlotsLog ==
  ASSUME slot' = slot
  PROVE  NoLogWritten
  BY Zenon DEF SlotLog, NoLogWritten

\* No request writes a log.
LEMMA HandlerLog ==
  ASSUME TypeOK, NEW h \in Handlers, HandlerStep(h)
  PROVE  NoLogWritten /\ NoNewAppend
<1>0. slot \in [Slots -> SlotRecords]
  BY Zenon DEF TypeOK
<1>1. NoNewAppend
  <2>1. CASE RequestTimeout(h)
    BY <2>1 DEF RequestTimeout, Detach, DetachedOp, NoNewAppend
  <2>2. CASE detached' = detached
    BY Zenon, <2>2 DEF NoNewAppend
  <2> QED BY Zenon, <2>1, <2>2 DEF HandlerStep, BeginStart, AnswerReplay, AcquirePermit, Preflight,
          ReserveTurn, Launch, BeginCancel, CommitCancel, SignalTask, ReleaseQuarantined
<1> SUFFICES NoLogWritten
  BY Zenon, <1>1
<1>2. CASE AcquirePermit(h)
  <2>1. ASSUME NEW s \in Slots, slot' = [slot EXCEPT ![s].pc = "held"]
        PROVE  NoLogWritten
    <3>1. \A r \in Slots : slot'[r] = slot[r] \/ slot'[r].pc = "held"
      BY Zenon, <1>0, <2>1 DEF SlotRecords
    <3> QED BY Zenon, <3>1 DEF SlotLog, NoLogWritten, LogPcs, EarlyPcs
  <2> QED BY Zenon, <1>2, <2>1, SameSlotsLog DEF AcquirePermit
<1>3. CASE Launch(h)
  <2> DEFINE new == [FreeSlot EXCEPT !.pc = "guard", !.k = handler[h].k]
  <2>1. CASE slot' = [slot EXCEPT ![handler[h].slot] = new]
    <3>1. new.pc = "guard" /\ new.off = 0
      BY Zenon DEF FreeSlot
    <3> HIDE DEF new
    <3>2. \A r \in Slots : slot'[r] = slot[r] \/ slot'[r] = new
      BY Zenon, <1>0, <2>1
    <3>3. \A r \in Slots : slot'[r] = slot[r] \/ (slot'[r].pc = "guard" /\ slot'[r].off = 0)
      BY Zenon, <3>1, <3>2
    <3> QED BY Zenon, <3>3 DEF SlotLog, NoLogWritten, LogPcs, EarlyPcs
  <2> QED BY Zenon, <1>3, <2>1, FreedLog DEF Launch, Refuse
<1>4. CASE SignalTask(h)
  <2>1. ASSUME NEW s, slot' = [slot EXCEPT ![s].sig = TRUE]
        PROVE  NoLogWritten
    <3>1. \A r \in Slots : slot'[r].pc = slot[r].pc /\ slot'[r].k = slot[r].k
                           /\ slot'[r].off = slot[r].off
      BY Zenon, <1>0, <2>1 DEF SlotRecords
    <3> QED BY Zenon, <3>1 DEF SlotLog, NoLogWritten
  <2> QED BY Zenon, <1>4, <2>1, FreedLog, SameSlotsLog DEF SignalTask
<1>5. CASE slot' = slot \/ \E s : slot' = Freed(s)
  BY Zenon, <1>5, FreedLog, SameSlotsLog
<1>6. CASE AnswerReplay(h) \/ ReleaseQuarantined(h) \/ Preflight(h) \/ ReserveTurn(h)
           \/ RequestTimeout(h)
  BY Zenon, <1>5, <1>6 DEF AnswerReplay, ReleaseQuarantined, Preflight, ReserveTurn, RequestTimeout,
     Refuse
<1>7. CASE (\E k \in Keys : BeginStart(h, k)) \/ CommitCancel(h)
           \/ \E id \in CancelKeys, k \in Keys, expected \in 0..1 : BeginCancel(h, id, k, expected)
  BY Zenon, <1>5, <1>7 DEF BeginStart, CommitCancel, BeginCancel
<1> QED BY Zenon, <1>2, <1>3, <1>4, <1>6, <1>7 DEF HandlerStep

\* A step of a task that reads the stream or ends the dispatch writes no log, nor
\* does one that gets no answer.
LEMMA TaskLog ==
  ASSUME TypeOK, NEW s \in Slots, TaskStep(s), ~StartProvider(s), ~AppendText(s)
  PROVE  NoLogWritten
<1>0. slot \in [Slots -> SlotRecords] /\ slot[s] \in SlotRecords
  BY Zenon DEF TypeOK
<1>1. CASE \/ AcquireCredentialUse(s) \/ LoadAfterConflict(s) \/ CallProvider(s)
           \/ StreamOpened(s) \/ StreamCancelled(s) \/ (\E usage \in BOOLEAN : StreamEnd(s, usage))
  <2>1. PICK next : /\ Goto(s, next) /\ (next \in LogPcs => slot[s].pc \in LogPcs)
                    /\ (next \in EarlyPcs => slot[s].pc \in EarlyPcs)
    BY <1>1 DEF AcquireCredentialUse, LoadAfterConflict, CallProvider, StreamOpened,
       StreamCancelled, StreamEnd, LogPcs, EarlyPcs
  <2> QED BY Zenon, <2>1, GotoLog
<1>2. CASE CompleteTurn(s) \/ StoreRaceCancelled(s) \/ FailTurn(s) \/ InterruptTurn(s)
           \/ RecheckTurn(s) \/ ReconcileCommit(s)
  <2>1. \E next \in {"interrupt", "exit", "recheck", "reconcile"} : Goto(s, next)
    BY Zenon, <1>2 DEF CompleteTurn, StoreRaceCancelled, FailTurn, InterruptTurn, RecheckTurn,
       ReconcileCommit, TaskCommit
  <2> QED BY Zenon, <2>1, GotoLog DEF LogPcs, EarlyPcs
<1>3. CASE ProviderError(s)
  <2>1. ASSUME NEW r \in BOOLEAN, slot' = [slot EXCEPT ![s].pc = "failing", ![s].retryable = r]
        PROVE  NoLogWritten
    <3>1. \A q \in Slots : slot'[q] = slot[q] \/ slot'[q].pc = "failing"
      BY Zenon, <1>0, <2>1 DEF SlotRecords
    <3> QED BY Zenon, <3>1 DEF SlotLog, NoLogWritten, LogPcs, EarlyPcs
  <2>2. Goto(s, "interrupt") => NoLogWritten
    BY Zenon, GotoLog DEF LogPcs, EarlyPcs
  <2> QED BY Zenon, <1>3, <2>1, <2>2 DEF ProviderError
<1>4. ASSUME NEW n \in Deltas, TextDelta(s, n)
      PROVE  NoLogWritten
  <2> DEFINE out == slot[s].out + n
             next == IF NeedsAppend(out, slot[s].off) THEN "append" ELSE "stream"
  <2>1. slot[s].pc = "stream"
    BY Zenon, <1>4 DEF TextDelta
  <2>2. Goto(s, "interrupt") \/ slot' = [slot EXCEPT ![s].out = out, ![s].pc = next]
    BY Zenon, <1>4 DEF TextDelta
  <2> HIDE DEF out, next
  <2>3. CASE slot' = [slot EXCEPT ![s].out = out, ![s].pc = next]
    <3>1. /\ \A q \in Slots : q # s => slot'[q] = slot[q]
          /\ slot'[s].k = slot[s].k /\ slot'[s].off = slot[s].off /\ slot'[s].pc = next
      BY Zenon, <1>0, <2>3 DEF SlotRecords
    <3>2. next \notin EarlyPcs
      BY Zenon DEF next, EarlyPcs
    <3> QED BY Zenon, <2>1, <3>1, <3>2 DEF SlotLog, NoLogWritten, LogPcs
  <2>4. Goto(s, "interrupt") => NoLogWritten
    BY Zenon, GotoLog DEF LogPcs, EarlyPcs
  <2> QED BY Zenon, <2>2, <2>3, <2>4
<1>5. CASE StreamCompleted(s)
  <2>1. \A q \in Slots : \/ slot'[q].pc = "interrupt"
                         \/ /\ slot'[q].k = slot[q].k /\ slot'[q].off = slot[q].off
                            /\ slot'[q].pc = slot[q].pc
    BY Zenon, <1>0, <1>5 DEF StreamCompleted, SlotRecords
  <2> QED BY Zenon, <2>1 DEF SlotLog, NoLogWritten, LogPcs, EarlyPcs
<1>6. CASE ReconcileLoad(s) \/ GiveUp(s) \/ FinishTask(s)
  <2>1. \A q \in Slots : slot'[q] = slot[q]
                         \/ slot'[q].pc \in {"exit", "recommit", "quarantined", "free"}
    <3>1. CASE ReconcileLoad(s)
      <4> DEFINE t == turn[slot[s].k]
                 plan == CancellationEdge(t.state)
      <4>1. slot' = [slot EXCEPT ![s].pc = "exit"]
            \/ slot' = [slot EXCEPT ![s].pc = "recommit", ![s].rev = t.rev, ![s].plan = plan]
        BY Zenon, <3>1 DEF ReconcileLoad
      <4> HIDE DEF t, plan
      <4> QED BY <1>0, <4>1 DEF SlotRecords
    <3>2. CASE GiveUp(s)
      BY Zenon, <1>0, <3>2 DEF GiveUp, Freed, FreeSlot
    <3>3. CASE FinishTask(s)
      BY Zenon, <1>0, <3>3 DEF FinishTask, Freed, FreeSlot
    <3> QED BY Zenon, <1>6, <3>1, <3>2, <3>3
  <2> QED BY Zenon, <2>1 DEF SlotLog, NoLogWritten, LogPcs, EarlyPcs
<1> QED BY Zenon, <1>1, <1>2, <1>3, <1>4, <1>5, <1>6 DEF TaskStep

\* Only a task that leaves its append behind detaches one.
LEMMA TaskAppends ==
  ASSUME TypeOK, NEW s \in Slots, TaskStep(s), ~StoreRaceCancelled(s)
  PROVE  NoNewAppend
<1>1. CASE GiveUp(s)
  BY <1>1 DEF GiveUp, Detach, DetachedOp, NoNewAppend
<1>2. CASE detached' = detached
  BY Zenon, <1>2 DEF NoNewAppend
<1> QED BY Zenon, <1>1, <1>2 DEF TaskStep, AcquireCredentialUse, StartProvider, LoadAfterConflict,
        CallProvider, StreamOpened, StreamCancelled, ProviderError, TextDelta, StreamCompleted,
        StreamEnd, AppendText, CompleteTurn, FailTurn, InterruptTurn, RecheckTurn, ReconcileLoad,
        ReconcileCommit, FinishTask, TaskCommit, TaskLocal

\* The task that leaves its append behind was the only one to write the log.
LEMMA RaceText ==
  ASSUME TypeOK, BoundaryInv, TextSound, NEW s \in Slots, StoreRaceCancelled(s)
  PROVE  TextSound'
<1> DEFINE k == slot[s].k
<1>0. slot[s].pc \in LogPcs /\ slot[s].pc \in {"append", "flush", "complete"}
  BY Zenon DEF StoreRaceCancelled, LogPcs
<1>1. k \in Keys /\ slot[s].pc \in PostStartPcs
  BY Zenon, <1>0, LogTurn
<1>2. turn' = turn /\ SlotMoves(s) /\ slot'[s].pc = "interrupt"
  BY Zenon, GotoMoves DEF StoreRaceCancelled, storeVars
<1>3. \A r \in Slots : SlotLog(r)
  BY Zenon, <1>2 DEF SlotLog, SlotMoves, LogPcs, EarlyPcs
<1>4. StaysStarted /\ \A j \in Keys : TextKept(j)
  BY Zenon, <1>2 DEF StaysStarted, TextKept
<1>5. \A d \in detached' : d \in detached \/ d.k = k
  BY DEF StoreRaceCancelled, Detach, DetachedOp
<1>6. ASSUME NEW j \in Keys, j = k  PROVE PastLog(j)'
  <2>1. turn'[j].state \notin {"Absent", "Reserved"}
    BY Zenon, <1>1, <1>2, <1>6 DEF BoundaryInv, StartedAlone
  <2>2. ASSUME NEW r \in Slots, slot'[r].k = j  PROVE slot'[r].pc \notin LogPcs
    <3>1. CASE r = s
      BY Zenon, <1>2, <3>1 DEF LogPcs
    <3>2. CASE r # s
      <4>1. slot'[r] = slot[r]
        BY Zenon, <1>2, <3>2 DEF SlotMoves
      <4>2. slot[r].pc \in LogPcs => slot[r].pc \in PostStartPcs
        BY Zenon, LogTurn
      <4> QED BY Zenon, <1>1, <1>6, <2>2, <3>2, <4>1, <4>2 DEF BoundaryInv, StartedAlone
    <3> QED BY Zenon, <3>1, <3>2
  <2> QED BY Zenon, <2>1, <2>2 DEF PastLog
<1>7. ASSUME NEW r \in Slots  PROVE SlotText(r)'
  BY Zenon, <1>3, <1>4, LogTurn, SlotTextKept DEF TextSound
<1>8. ASSUME NEW d \in detached', d.op = "append"  PROVE PastLog(d.k)'
  <2>1. CASE d \in detached
    <3>1. d.k \in Keys /\ PastLog(d.k)
      BY Zenon, <1>8, <2>1 DEF TypeOK, DetachedOps, TextSound
    <3> QED BY Zenon, <1>3, <1>4, <3>1, PastLogKept
  <2>2. CASE d.k = k
    BY Zenon, <1>1, <1>6, <2>2
  <2> QED BY Zenon, <1>5, <2>1, <2>2
<1> QED BY Zenon, <1>7, <1>8 DEF TextSound

\* The step of the only task that writes the log of its turn keeps all logs
\* sound when it knows the end of that log afterwards.
LEMMA WriterText ==
  ASSUME TypeOK, TextSound, NEW s \in Slots, SlotMoves(s), NoNewAppend, StaysStarted,
         NEW k \in Keys, slot[s].k = k,
         \A j \in Keys : j # k => TextKept(j),
         \A r \in Slots : r # s /\ slot[r].k = k => slot[r].pc \notin LogPcs,
         \A d \in detached : d.op = "append" => d.k # k,
         SlotText(s)'
  PROVE  TextSound'
<1>1. ASSUME NEW r \in Slots  PROVE SlotText(r)'
  <2>1. CASE r # s
    <3>1. slot'[r] = slot[r] /\ SlotLog(r) /\ SlotText(r)
      BY Zenon, <2>1 DEF SlotMoves, SlotLog, TextSound
    <3>2. slot[r].pc \in LogPcs => TextKept(slot[r].k)
      BY Zenon, <2>1, LogTurn
    <3> QED BY Zenon, <3>1, <3>2, SlotTextKept
  <2> QED BY Zenon, <2>1
<1>2. ASSUME NEW d \in detached', d.op = "append"  PROVE PastLog(d.k)'
  <2>1. d \in detached /\ d.k \in Keys /\ PastLog(d.k) /\ d.k # k
    BY Zenon, <1>2 DEF NoNewAppend, TypeOK, DetachedOps, TextSound
  <2>2. \A r \in Slots : SlotLog(r) \/ slot'[r].k # d.k
    BY Zenon, <2>1 DEF SlotMoves, SlotLog
  <2> QED BY Zenon, <2>1, <2>2, PastLogKept
<1> QED BY Zenon, <1>1, <1>2 DEF TextSound

\* The task that starts a turn finds its log empty.
LEMMA StartText ==
  ASSUME TypeOK, StoreSound, BoundaryInv, TextSound, NEW s \in Slots, StartProvider(s)
  PROVE  TextSound'
<1>0. /\ slot[s].k \in Keys /\ turn \in [Keys -> TurnRecords] /\ slot[s].pc = "start"
      /\ slot \in [Slots -> SlotRecords]
  BY Zenon, TaskTurn DEF TypeOK, StoreTypeOK, StartProvider, TaskPcs, DispatchPcs
<1>1. PICK k \in Keys : k = slot[s].k
  BY Zenon, <1>0
<1>2. TaskCommit(s, MayStartProvider(k), StartedTurn(turn[k]), "open", "conflicted", "reconcile")
  BY Zenon, <1>1 DEF StartProvider
<1>3. NoNewAppend
  BY Zenon, <1>2 DEF TaskCommit, NoNewAppend
<1>4. slot[s].off = 0
  BY Zenon, <1>0 DEF TextSound, SlotText, EarlyPcs
<1>5. CASE turn' = turn /\ (Goto(s, "conflicted") \/ Goto(s, "reconcile"))
  <2>1. StaysStarted /\ \A j \in Keys : TextKept(j)
    BY Zenon, <1>5 DEF StaysStarted, TextKept
  <2>2. NoLogWritten
    BY Zenon, <1>0, <1>5, GotoLog DEF LogPcs, EarlyPcs
  <2> QED BY Zenon, <1>3, <2>1, <2>2, QuietText
<1>6. CASE /\ MayStartProvider(k) /\ SetTurn(k, StartedTurn(turn[k]))
           /\ Goto(s, "open") \/ Goto(s, "reconcile")
  <2>1. /\ turn' = [turn EXCEPT ![k] = StartedTurn(turn[k])] /\ turn[k].state = "Reserved"
    BY Zenon, <1>6 DEF SetTurn, MayStartProvider, TurnPermits
  <2>2. turn[k] \in TurnRecords /\ turn[k].text = 0
    BY Zenon, <1>0, <2>1 DEF StoreSound, TurnsFormed
  <2>3. StartedTurn(turn[k]).state = "ProviderStarted" /\ StartedTurn(turn[k]).text = 0
    BY Zenon, <2>2 DEF StartedTurn, TurnRecords
  <2>4. StaysStarted /\ \A j \in Keys : j # k => TextKept(j)
    BY Zenon, <1>0, <2>1, <2>3 DEF StaysStarted, TextKept
  <2>5. /\ SlotMoves(s) /\ slot'[s].pc \in {"open", "reconcile"} /\ slot'[s].off = 0
    <3>1. slot'[s].off = slot[s].off
      BY ZenonT(30), <1>0, <1>6 DEF Goto, SlotRecords
    <3> QED BY Zenon, <1>4, <1>6, <3>1, GotoMoves
  <2>6. SlotText(s)'
    <3>1. slot'[s].k = k /\ turn'[k].text = 0
      BY Zenon, <1>0, <1>1, <2>1, <2>3, <2>5 DEF SlotMoves
    <3> QED BY Zenon, <2>5, <3>1 DEF SlotText
  <2>7. ASSUME NEW r \in Slots, r # s, slot[r].k = k  PROVE slot[r].pc \notin LogPcs
    BY Zenon, <2>1, <2>7, LogTurn DEF BoundaryInv, StartedAlone
  <2>8. \A d \in detached : d.op = "append" => d.k # k
    BY Zenon, <2>1 DEF TextSound, PastLog
  <2> QED BY Zenon, <1>1, <1>3, <2>4, <2>5, <2>6, <2>7, <2>8, WriterText
<1> QED BY Zenon, <1>1, <1>2, <1>5, <1>6 DEF TaskCommit, Ambiguously, storeVars

\* What an append does to the turns.
LEMMA AppendTurns ==
  ASSUME TypeOK, NEW k \in Keys, NEW off, NEW n, AppendsTurn(k, off, n)
  PROVE  /\ turn[k].state = "ProviderStarted" /\ StaysStarted
         /\ \A j \in Keys : j # k => TextKept(j)
         /\ turn'[k].text = IF off = turn[k].text THEN turn[k].text + n ELSE turn[k].text
<1>0. StoreTypeOK /\ turn \in [Keys -> TurnRecords] /\ turn[k] \in TurnRecords
  BY Zenon DEF TypeOK, StoreTypeOK
<1> DEFINE t == AppendedTurn(turn[k], off, n)
<1>1. turn[k].state = "ProviderStarted" /\ turn' = [turn EXCEPT ![k] = t]
  BY Zenon, <1>0, AppendEffect
<1>2. /\ t.state = turn[k].state
      /\ t.text = IF off = turn[k].text THEN turn[k].text + n ELSE turn[k].text
  BY <1>0, AppendedFields
<1> HIDE DEF t
<1> QED BY Zenon, <1>0, <1>1, <1>2 DEF StaysStarted, TextKept

\* A task appends at the end of the log, and goes on at the new end; when it is
\* not told what became of its append, it writes no more.
LEMMA OwnAppendText ==
  ASSUME TypeOK, BoundaryInv, TextSound, NEW s \in Slots, AppendText(s)
  PROVE  TextSound'
<1>0. /\ slot[s].k \in Keys /\ slot \in [Slots -> SlotRecords] /\ slot[s].pc \in {"append", "flush"}
      /\ slot[s].pc \in LogPcs /\ slot[s].pc \in PostStartPcs /\ slot[s].off \in Nat
  <2>1. slot[s].pc \in {"append", "flush"} /\ slot[s].pc \in LogPcs
    BY Zenon DEF AppendText, LogPcs
  <2> QED BY Zenon, <2>1, LogTurn DEF TypeOK, SlotRecords
<1>1. PICK k \in Keys : k = slot[s].k
  BY Zenon, <1>0
<1> DEFINE n == ChunkSize(s)
           off == slot[s].off
           next == IF slot[s].pc = "flush" THEN "complete"
                   ELSE IF NeedsAppend(slot[s].out, off + n) THEN "append" ELSE "stream"
<1>2. NoNewAppend
  BY Zenon DEF AppendText, NoNewAppend
<1>3. \/ turn' = turn /\ Goto(s, "interrupt")
      \/ /\ AppendsTurn(k, off, n)
         /\ \/ Goto(s, "interrupt")
            \/ slot' = [slot EXCEPT ![s].off = off + n, ![s].pc = next]
  BY Zenon, <1>1 DEF AppendText, Ambiguously, AppendsTurn, storeVars
<1> HIDE DEF n, next
<1>4. CASE turn' = turn /\ Goto(s, "interrupt")
  <2>1. StaysStarted /\ \A j \in Keys : TextKept(j)
    BY Zenon, <1>4 DEF StaysStarted, TextKept
  <2>2. NoLogWritten
    BY Zenon, <1>4, GotoLog DEF LogPcs, EarlyPcs
  <2> QED BY Zenon, <1>2, <2>1, <2>2, QuietText
<1>5. CASE /\ AppendsTurn(k, off, n)
           /\ \/ Goto(s, "interrupt")
              \/ slot' = [slot EXCEPT ![s].off = off + n, ![s].pc = next]
  <2>1. /\ turn[k].state = "ProviderStarted" /\ StaysStarted
        /\ \A j \in Keys : j # k => TextKept(j)
        /\ turn'[k].text = IF off = turn[k].text THEN turn[k].text + n ELSE turn[k].text
    BY Zenon, <1>5, AppendTurns
  <2>2. turn[k].text = off /\ turn'[k].text = off + n
    BY Zenon, <1>0, <1>1, <2>1 DEF TextSound, SlotText
  <2>3. /\ SlotMoves(s)
        /\ slot'[s].pc \notin EarlyPcs
        /\ slot'[s].pc \in LogPcs => slot'[s].off = off + n
    <3>1. CASE Goto(s, "interrupt")
      BY <3>1, GotoMoves DEF LogPcs, EarlyPcs
    <3>2. CASE slot' = [slot EXCEPT ![s].off = off + n, ![s].pc = next]
      <4>1. next \notin EarlyPcs
        BY Zenon DEF next, EarlyPcs
      <4> QED BY Zenon, <1>0, <3>2, <4>1 DEF SlotMoves, SlotRecords
    <3> QED BY Zenon, <1>5, <3>1, <3>2
  <2>4. SlotText(s)'
    BY Zenon, <1>1, <2>2, <2>3 DEF SlotText, SlotMoves
  <2>5. ASSUME NEW r \in Slots, r # s, slot[r].k = k  PROVE slot[r].pc \notin LogPcs
    BY Zenon, <1>0, <1>1, <2>5, LogTurn DEF BoundaryInv, StartedAlone
  <2>6. \A d \in detached : d.op = "append" => d.k # k
    BY Zenon, <1>0, <1>1 DEF TextSound, PastLog
  <2> QED BY Zenon, <1>1, <1>2, <2>1, <2>3, <2>4, <2>5, <2>6, WriterText
<1> QED BY Zenon, <1>3, <1>4, <1>5

\* A late append finds nobody at the end of the log.
LEMMA LateAppendText ==
  ASSUME TypeOK, TextSound, NEW d \in detached, d.op = "append", RunDetached(d),
         AppendsTurn(d.k, d.off, d.n)
  PROVE  TextSound'
<1>0. /\ d.k \in Keys /\ PastLog(d.k) /\ slot' = slot /\ NoNewAppend /\ NoLogWritten
  BY Zenon, SameSlotsLog DEF TypeOK, DetachedOps, TextSound, RunDetached, NoNewAppend
<1>1. StaysStarted /\ \A j \in Keys : j # d.k => TextKept(j)
  BY Zenon, <1>0, AppendTurns
<1>2. ASSUME NEW s \in Slots  PROVE SlotText(s)'
  <2>1. slot[s].pc \in LogPcs => TextKept(slot[s].k)
    BY Zenon, <1>0, <1>1, LogTurn DEF PastLog
  <2> QED BY Zenon, <1>0, <2>1, SlotTextKept DEF TextSound, NoLogWritten
<1>3. ASSUME NEW e \in detached', e.op = "append"  PROVE PastLog(e.k)'
  <2>1. e.k \in Keys /\ PastLog(e.k)
    BY Zenon, <1>0, <1>3 DEF TypeOK, DetachedOps, TextSound, NoNewAppend
  <2> QED BY Zenon, <1>0, <1>1, <2>1, PastLogKept DEF NoLogWritten
<1> QED BY Zenon, <1>2, <1>3 DEF TextSound

\* Nobody writes before IPC opens.
LEMMA HaltText ==
  ASSUME Halt
  PROVE  TextSound'
  BY Zenon DEF Halt, TextSound, SlotText, FreeSlot, EarlyPcs, LogPcs

\* A daemon step halts, or leaves slots and detached calls alone.
LEMMA DaemonLog ==
  ASSUME \/ \E b \in Bindings \cup {NoBinding} : RotateCredential(b)
         \/ Crash \/ RecoveryStep
  PROVE  Halt \/ (NoLogWritten /\ NoNewAppend)
<1>1. Halt \/ UNCHANGED memVars
  BY Zenon DEF RotateCredential, Crash, RecoveryStep, BeginRecovery, RecoverTurn, EndRecovery
<1>2. CASE UNCHANGED memVars
  BY Zenon, <1>2, SameSlotsLog DEF memVars, NoNewAppend
<1> QED BY Zenon, <1>1, <1>2

\* Every step keeps the logs sound.
LEMMA TextStep ==
  ASSUME TypeOK, StoreSound, BoundaryInv, TextSound, Next
  PROVE  TextSound'
<1>0. StoreTypeOK /\ ReceiptsMatchTurns
  BY Zenon DEF TypeOK, StoreSound
<1>1. ASSUME NEW s \in Slots, StartProvider(s)  PROVE TextSound'
  BY Zenon, <1>1, StartText
<1>2. CASE NoStartBut(NoTurn)
  <2>1. ASSUME StoreMoves, NoLogWritten, NoNewAppend  PROVE TextSound'
    BY Zenon, <1>0, <1>2, <2>1, StoreText, QuietText DEF StoreMoves
  <2>2. ASSUME NEW h \in Handlers, HandlerStep(h)  PROVE TextSound'
    BY Zenon, <1>0, <2>1, <2>2, HandlerStore, HandlerLog
  <2>3. ASSUME NEW s \in Slots, TaskStep(s)  PROVE TextSound'
    <3>1. CASE StartProvider(s) \/ AppendText(s) \/ StoreRaceCancelled(s)
      BY Zenon, <1>1, <3>1, OwnAppendText, RaceText
    <3>2. CASE ~(StartProvider(s) \/ AppendText(s) \/ StoreRaceCancelled(s))
      <4>1. NoLogWritten /\ NoNewAppend
        BY Zenon, <2>3, <3>2, TaskLog, TaskAppends
      <4>2. StoreMoves
        BY Zenon, <1>0, <2>3, <3>2, TaskStore
      <4> QED BY Zenon, <2>1, <4>1, <4>2
    <3> QED BY Zenon, <3>1, <3>2
  <2>4. ASSUME NEW d \in detached, RunDetached(d)  PROVE TextSound'
    <3>1. NoLogWritten /\ NoNewAppend
      BY Zenon, <2>4, SameSlotsLog DEF RunDetached, NoNewAppend
    <3> QED BY Zenon, <1>0, <2>1, <2>4, <3>1, DetachedStore, LateAppendText
  <2>5. ASSUME \/ \E b \in Bindings \cup {NoBinding} : RotateCredential(b)
               \/ Crash \/ RecoveryStep
        PROVE  TextSound'
    BY Zenon, <2>1, <2>5, DaemonStore, DaemonLog, HaltText
  <2> QED BY Zenon, <2>2, <2>3, <2>4, <2>5 DEF Next
<1> QED BY Zenon, <1>1, <1>2, OnlyTasksStart

\* The logs are empty at first.
LEMMA TextInit ==
  ASSUME Init
  PROVE  TextSound
  BY Zenon DEF Init, TextSound, SlotText, FreeSlot, EarlyPcs, LogPcs

\* A stuttering step keeps the logs sound.
LEMMA TextStutter ==
  ASSUME TextSound, UNCHANGED vars
  PROVE  TextSound'
<1>1. turn' = turn /\ slot' = slot /\ detached' = detached
  BY Zenon DEF vars, storeVars, memVars
<1> QED BY Zenon, <1>1 DEF TextSound, SlotText, PastLog

\* A task that streams an answer is at the end of the event log of its turn, and
\* a detached append never races another writer (append_normalized_text_or_cancel).
THEOREM TextHolds == Spec => []TextSound
<1>1. Init => TypeOK /\ StoreSound /\ BoundaryInv /\ TextSound
  BY Zenon, InitType, StoreSoundInit, BoundaryInit, TextInit
<1>2. TypeOK /\ StoreSound /\ BoundaryInv /\ TextSound /\ [Next]_vars
        => TypeOK' /\ StoreSound' /\ BoundaryInv' /\ TextSound'
  BY Zenon, NextType, StoreStep, StoreStutter, BoundaryStep, TextStep, TextStutter
<1> QED BY <1>1, <1>2, PTL DEF Spec

\* What the store tells for ever is true: a cancellation receipt names the
\* outcome of its turn, a turn is retried once and after a safe outcome, and a
\* completed answer is the streamed text in full.
THEOREM RecordsAlwaysSound == Spec => []RecordsSound
<1>1. StoreSound /\ TextSound => RecordsSound
  BY Zenon DEF StoreSound, TextSound, SlotText, LogPcs, AnswersExact, RecordsSound, CompletedTextExact
<1> QED BY <1>1, StoreHolds, TextHolds, PTL
=============================================================================
