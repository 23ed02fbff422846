-------------------------- MODULE DirectChatProofs --------------------------
(***************************************************************************)
(* Type correctness of DirectChat, then its provider boundary and what     *)
(* follows from it: one call per turn, none for a cancelled one, final     *)
(* terminals, and the refinement of TurnLifecycle; for every set of        *)
(* commands, requests, permits and bindings and every bound.               *)
(***************************************************************************)
EXTENDS DirectChat, TLAPS

USE DEF TurnStates, RunStates, EffectStates, Plans

-----------------------------------------------------------------------------
(* The records the store commits have the type of a turn *)

\* A context is a set of turns.
LEMMA ContextType ==
  ASSUME StoreTypeOK
  PROVE  \A k \in Keys : ContextOf(k) \in SUBSET Keys
  BY SourceAssumption DEF ContextOf, CompletedTurns, StoreTypeOK, TurnRecords

\* What reserve_turn inserts is a turn record.
LEMMA ReservedTurnType ==
  ASSUME StoreTypeOK, NEW k \in Keys, NEW b \in Bindings
  PROVE  ReservedTurn(k, b) \in TurnRecords
<1>1. Source[k] # NoTurn => turn[Source[k]] \in TurnRecords
  BY SourceAssumption DEF StoreTypeOK
<1>3. (IF Source[k] = NoTurn THEN 0 ELSE turn[Source[k]].depth + 1) \in Nat
  BY <1>1 DEF TurnRecords
<1>4. ContextOf(k) \in SUBSET Keys
  BY ContextType
<1> QED BY Zenon, <1>3, <1>4 DEF ReservedTurn, AbsentTurn, TurnRecords

\* What commit_provider_start writes is a turn record.
LEMMA StartedTurnType ==
  ASSUME NEW t \in TurnRecords
  PROVE  StartedTurn(t) \in TurnRecords
<1> DEFINE rev == t.rev + 1
<1>1. rev \in Nat
  BY DEF TurnRecords
<1>2. StartedTurn(t) = [t EXCEPT !.state = "ProviderStarted", !.rev = rev,
                                 !.run = "Running", !.effect = "Executing"]
  BY DEF StartedTurn
<1> HIDE DEF rev
<1> QED BY Zenon, <1>1, <1>2 DEF TurnRecords

\* What append_turn_text writes is a turn record.
LEMMA AppendedTurnType ==
  ASSUME NEW t \in TurnRecords, NEW off \in Nat, NEW n \in Nat
  PROVE  AppendedTurn(t, off, n) \in TurnRecords
  BY DEF AppendedTurn, TurnRecords

\* What commit_terminal writes is a turn record.
LEMMA TerminalTurnType ==
  ASSUME NEW t \in TurnRecords, NEW to, IsTerminal(to), NEW a \in Nat, NEW r \in BOOLEAN
  PROVE  TerminalTurn(t, to, a, r) \in TurnRecords
<1> DEFINE rev == t.rev + 1
           effect == EffectOutcome(to)
<1>1. effect \in EffectStates \cup {"None"}
  BY DEF EffectOutcome, IsTerminal
<1>2. rev \in Nat
  BY DEF TurnRecords
<1>3. to \in TurnStates \cap RunStates
  BY DEF IsTerminal
<1>4. TerminalTurn(t, to, a, r) = [t EXCEPT !.state = to, !.rev = rev, !.run = to,
         !.effect = effect, !.answer = a, !.retryable = r]
  BY DEF TerminalTurn
<1> HIDE DEF rev, effect
<1> QED BY <1>1, <1>2, <1>3, <1>4, ZenonT(30) DEF TurnRecords

\* Writing a turn record keeps the store well typed.
LEMMA SetTurnType ==
  ASSUME StoreTypeOK, NEW k \in Keys, NEW t \in TurnRecords, SetTurn(k, t)
  PROVE  StoreTypeOK'
  BY DEF SetTurn, StoreTypeOK

\* A reservation keeps the store well typed.
LEMMA ReserveType ==
  ASSUME StoreTypeOK, NEW k \in Keys, NEW b \in Bindings, Reserve(k, b)
  PROVE  StoreTypeOK'
  BY ReservedTurnType DEF Reserve, StoreTypeOK

\* A cancellation and its receipt keep the store well typed.
LEMMA CommitCancellationType ==
  ASSUME StoreTypeOK, NEW id \in CancelIds, NEW k \in Keys, NEW exp \in Nat,
         NEW plan \in Plans, NEW rev \in Nat,
         CommitCancellation(id, k, exp, plan, rev)
  PROVE  StoreTypeOK'
<1> DEFINE verdict == CancelVerdict(id, k, exp, plan, rev)
           outcome == IF verdict = "commit"
                        THEN TerminalTurn(turn[k], plan, 0, FALSE) ELSE turn[k]
<1>1. verdict = "commit" => IsTerminal(plan)
  BY DEF CancelVerdict, IsTerminal
<1>2. turn[k] \in TurnRecords
  BY DEF StoreTypeOK
<1>3. outcome \in TurnRecords
  BY Zenon, <1>1, <1>2, TerminalTurnType
<1>4. turn' \in [Keys -> TurnRecords]
  BY Zenon, <1>3 DEF CommitCancellation, StoreTypeOK
<1>5. [turn |-> k, exp |-> exp, state |-> outcome.state, rev |-> outcome.rev] \in Receipts
  BY Zenon, <1>3 DEF TurnRecords, Receipts
<1>6. receipt' \in [CancelIds -> Receipts]
  BY <1>5 DEF CommitCancellation, StoreTypeOK
<1> QED BY Zenon, <1>4, <1>6 DEF CommitCancellation, StoreTypeOK

-----------------------------------------------------------------------------
(* Single updates of the in-memory state *)

\* A task that moves on stays well typed; entering "append" is separate.
LEMMA GotoType ==
  ASSUME slot \in [Slots -> SlotRecords], NEW s \in Slots, slot[s].k \in Keys,
         NEW next \in TaskPcs \ {"append"}, Goto(s, next)
  PROVE  slot' \in [Slots -> SlotRecords]
<1>1. [slot[s] EXCEPT !.pc = next] \in SlotRecords
  BY DEF SlotRecords, TaskPcs, DispatchPcs
<1> QED BY <1>1 DEF Goto

\* A free permit is well typed.
LEMMA FreeSlotType == FreeSlot \in SlotRecords
  BY DEF FreeSlot, SlotRecords

\* A launched or quarantined slot is well typed.
LEMMA FreshTaskType ==
  ASSUME NEW c \in SlotRecords, NEW k \in Keys, NEW pc \in {"guard", "quarantined"}
  PROVE  [c EXCEPT !.pc = pc, !.k = k] \in SlotRecords
  BY Zenon DEF SlotRecords, TaskPcs, DispatchPcs

\* A signalled slot is well typed.
LEMMA SignalType ==
  ASSUME NEW c \in SlotRecords
  PROVE  [c EXCEPT !.sig = TRUE] \in SlotRecords
  BY Zenon DEF SlotRecords

\* A slot whose stream completed is well typed.
LEMMA FinishedSlotType ==
  ASSUME NEW c \in SlotRecords
  PROVE  [c EXCEPT !.fin = TRUE] \in SlotRecords
  BY Zenon DEF SlotRecords

\* A slot about to record a failure is well typed.
LEMMA FailingSlotType ==
  ASSUME NEW c \in SlotRecords, c.k \in Keys, NEW r \in BOOLEAN
  PROVE  [c EXCEPT !.pc = "failing", !.retryable = r] \in SlotRecords
  BY Zenon DEF SlotRecords, TaskPcs, DispatchPcs

\* A slot that took a text delta is well typed, appending or not.
LEMMA DeltaSlotType ==
  ASSUME NEW c \in SlotRecords, c.k \in Keys, NEW out \in Nat, c.off =< out
  PROVE  [c EXCEPT !.out = out,
                   !.pc = IF NeedsAppend(out, c.off) THEN "append" ELSE "stream"]
           \in SlotRecords
  BY Zenon DEF SlotRecords, TaskPcs, DispatchPcs

\* A slot whose append was acknowledged is well typed.
LEMMA AppendedSlotType ==
  ASSUME NEW c \in SlotRecords, c.k \in Keys, NEW off \in Nat, off =< c.out,
         NEW pc \in {"append", "stream", "complete"},
         pc = "append" => NeedsAppend(c.out, off)
  PROVE  [c EXCEPT !.off = off, !.pc = pc] \in SlotRecords
  BY Zenon DEF SlotRecords, TaskPcs, DispatchPcs

\* Dropping a permit keeps the slots well typed.
LEMMA FreedType ==
  ASSUME slot \in [Slots -> SlotRecords], NEW s, slot' = Freed(s)
  PROVE  slot' \in [Slots -> SlotRecords]
  BY Zenon, FreeSlotType DEF Freed

\* An idle handler is well typed.
LEMMA IdleHandlerType == IdleHandler \in HandlerRecords
  BY DEF IdleHandler, HandlerRecords

\* A request about to commit a cancellation is well typed.
LEMMA CancelHandlerType ==
  ASSUME NEW k \in Keys, NEW id \in CancelKeys, NEW exp \in Nat, NEW plan \in Plans,
         NEW rev \in Nat
  PROVE  [IdleHandler EXCEPT !.pc = "commit", !.k = k, !.id = id, !.exp = exp,
                             !.plan = plan, !.rev = rev] \in HandlerRecords
  BY Zenon DEF IdleHandler, HandlerRecords, CancelPcs

\* A task or a quarantine works on a turn.
LEMMA TaskTurn ==
  ASSUME slot \in [Slots -> SlotRecords], NEW s \in Slots,
         slot[s].pc \in TaskPcs \cup {"quarantined"}
  PROVE  slot[s].k \in Keys
  BY DEF SlotRecords, TaskPcs, DispatchPcs

\* Spending a store fault keeps the bounds natural numbers.
LEMMA FaultType ==
  ASSUME TypeOK, Fault
  PROVE  budget' \in Budgets
<1> DEFINE left == budget.faults - 1
<1>1. left \in Nat
  BY DEF TypeOK, Fault, Budgets
<1>2. budget' = [budget EXCEPT !.faults = left]
  BY DEF Fault
<1> HIDE DEF left
<1> QED BY <1>1, <1>2 DEF TypeOK, Budgets

\* A task's store call, however it ends, keeps the types.
LEMMA TaskCommitType ==
  ASSUME TypeOK, NEW s \in Slots, slot[s].k \in Keys,
         NEW may \in BOOLEAN, NEW new, may => new \in TurnRecords,
         NEW onOk \in TaskPcs \ {"append"}, NEW onConflict \in TaskPcs \ {"append"},
         NEW onError \in TaskPcs \ {"append"},
         TaskCommit(s, may, new, onOk, onConflict, onError)
  PROVE  TypeOK'
<1>1. StoreTypeOK'
  BY SetTurnType DEF TaskCommit, Ambiguously, TypeOK, storeVars, StoreTypeOK
<1>2. slot' \in [Slots -> SlotRecords]
  BY GotoType DEF TaskCommit, TypeOK
<1>3. budget' \in Budgets
  BY FaultType DEF TaskCommit, Ambiguously, TypeOK
<1> QED BY <1>1, <1>2, <1>3 DEF TaskCommit, TypeOK

\* A step of a task on its own slot keeps the types.
LEMMA TaskLocalType ==
  ASSUME TypeOK, TaskLocal, slot' \in [Slots -> SlotRecords]
  PROVE  TypeOK'
  BY DEF TaskLocal, TypeOK, storeVars, StoreTypeOK

-----------------------------------------------------------------------------
(* TypeOK is preserved by every step *)

\* The steps of a start or retry request keep the types.
LEMMA StartRequestType ==
  ASSUME TypeOK, NEW h \in Handlers,
         \/ \E k \in Keys : BeginStart(h, k)
         \/ AnswerReplay(h) \/ AcquirePermit(h) \/ Preflight(h)
         \/ ReserveTurn(h) \/ Launch(h)
  PROVE  TypeOK'
<1> USE DEF TypeOK
<1> DEFINE c == handler[h]
<1>0. c \in HandlerRecords
  OBVIOUS
<1>1. ASSUME NEW k \in Keys, BeginStart(h, k)  PROVE TypeOK'
  <2>1. turn[k].state \in TurnStates \cup {"Absent"}
    BY DEF StoreTypeOK, TurnRecords
  <2>2. [IdleHandler EXCEPT !.pc = "owner", !.k = k, !.seen = turn[k].state]
          \in HandlerRecords
    BY Zenon, <2>1 DEF IdleHandler, HandlerRecords, StartPcs
  <2> QED BY Zenon, <1>1, <2>2 DEF BeginStart, ToHandler, storeVars, StoreTypeOK
<1>2. CASE AnswerReplay(h)
  <2>1. handler' \in [Handlers -> HandlerRecords]
    BY <1>2, IdleHandlerType DEF AnswerReplay, EndRequest, ToHandler
  <2>2. registry' \in [Keys -> Slots \cup {NoSlot}] /\ slot' \in [Slots -> SlotRecords]
    BY <1>2, FreedType DEF AnswerReplay
  <2> QED BY <1>2, <2>1, <2>2 DEF AnswerReplay, storeVars, StoreTypeOK
<1>3. CASE AcquirePermit(h)
  <2>1. CASE EndRequest(h) /\ UNCHANGED slot
    BY Zenon, <1>3, <2>1, IdleHandlerType DEF AcquirePermit, EndRequest, ToHandler, storeVars, StoreTypeOK
  <2>2. ASSUME NEW s \in Slots, slot[s].pc = "free",
               slot' = [slot EXCEPT ![s].pc = "held"],
               ToHandler(h, [c EXCEPT !.pc = "preflight", !.slot = s, !.seen = "None"])
        PROVE  TypeOK'
    <3>1. [slot[s] EXCEPT !.pc = "held"] \in SlotRecords
      BY <2>2 DEF SlotRecords
    <3>2. [c EXCEPT !.pc = "preflight", !.slot = s, !.seen = "None"] \in HandlerRecords
      BY Zenon, <1>0, <1>3 DEF HandlerRecords, StartPcs, AcquirePermit
    <3> QED BY Zenon, <1>3, <2>2, <3>1, <3>2 DEF AcquirePermit, ToHandler, storeVars, StoreTypeOK
  <2> QED BY Zenon, <1>3, <2>1, <2>2 DEF AcquirePermit
<1>4. ASSUME Refuse(h)
      PROVE  handler' \in [Handlers -> HandlerRecords] /\ slot' \in [Slots -> SlotRecords]
  BY <1>4, IdleHandlerType, FreedType DEF Refuse, EndRequest, ToHandler
<1>5. CASE Preflight(h)
  <2>1. CASE Refuse(h)
    BY <1>4, <1>5, <2>1 DEF Preflight, storeVars, StoreTypeOK
  <2>2. CASE cred # NoBinding /\ UNCHANGED slot
             /\ ToHandler(h, [c EXCEPT !.pc = "reserve", !.bind = cred])
    <3>1. [c EXCEPT !.pc = "reserve", !.bind = cred] \in HandlerRecords
      BY Zenon, <1>0, <1>5, <2>2 DEF HandlerRecords, StartPcs, Preflight
    <3> QED BY <1>5, <2>2, <3>1 DEF Preflight, ToHandler, storeVars, StoreTypeOK
  <2> QED BY <1>5, <2>1, <2>2 DEF Preflight
<1>6. CASE ReserveTurn(h)
  <2>1. c.k \in Keys /\ c.bind \in Bindings
    BY <1>0, <1>6 DEF ReserveTurn, HandlerRecords
  <2>2. StoreTypeOK'
    BY <1>6, <2>1, ReserveType DEF ReserveTurn, Ambiguously, storeVars, StoreTypeOK
  <2>3. [c EXCEPT !.pc = "launch"] \in HandlerRecords
    BY <1>0, <1>6 DEF HandlerRecords, StartPcs, ReserveTurn
  <2>4. handler' \in [Handlers -> HandlerRecords] /\ slot' \in [Slots -> SlotRecords]
    BY <1>4, <1>6, <2>3 DEF ReserveTurn, ToHandler
  <2>5. budget' \in Budgets
    BY <1>6, FaultType DEF ReserveTurn, Ambiguously
  <2> QED BY <1>6, <2>2, <2>4, <2>5 DEF ReserveTurn
<1>7. CASE Launch(h)
  <2>1. c.k \in Keys /\ c.slot \in Slots
    BY <1>0, <1>7 DEF Launch, HandlerRecords
  <2>2. [FreeSlot EXCEPT !.pc = "guard", !.k = c.k] \in SlotRecords
    BY Zenon, <2>1, FreeSlotType, FreshTaskType
  <2>3. slot' \in [Slots -> SlotRecords] /\ handler' \in [Handlers -> HandlerRecords]
    BY <1>4, <1>7, <2>2, IdleHandlerType DEF Launch, EndRequest, ToHandler
  <2>4. registry' \in [Keys -> Slots \cup {NoSlot}]
    BY <1>7, <2>1 DEF Launch
  <2> QED BY <1>7, <2>3, <2>4 DEF Launch, storeVars, StoreTypeOK
<1> QED BY <1>1, <1>2, <1>3, <1>5, <1>6, <1>7

\* The steps of a cancel request and the request deadline keep the types.
LEMMA CancelRequestType ==
  ASSUME TypeOK, NEW h \in Handlers,
         \/ \E id \in CancelKeys, k \in Keys, expected \in 0..1 :
              BeginCancel(h, id, k, expected)
         \/ CommitCancel(h) \/ SignalTask(h) \/ ReleaseQuarantined(h)
         \/ RequestTimeout(h)
  PROVE  TypeOK'
<1> USE DEF TypeOK
<1> DEFINE c == handler[h]
<1>0. c \in HandlerRecords
  OBVIOUS
<1>1. ASSUME NEW id \in CancelKeys, NEW k \in Keys, NEW expected \in 0..1,
             BeginCancel(h, id, k, expected)
      PROVE  TypeOK'
  <2> DEFINE plan == CancellationEdge(turn[k].state)
             rev == turn[k].rev
  <2>1. plan \in Plans
    BY DEF CancellationEdge
  <2>2. rev \in Nat
    BY DEF StoreTypeOK, TurnRecords
  <2>3. [IdleHandler EXCEPT !.pc = "commit", !.k = k, !.id = id, !.exp = expected,
                            !.plan = plan, !.rev = rev] \in HandlerRecords
    <3>1. expected \in Nat
      OBVIOUS
    <3> HIDE DEF plan, rev, TypeOK
    <3> QED BY Zenon, <2>1, <2>2, <3>1, CancelHandlerType
  <2> QED BY Zenon, <1>1, <2>3 DEF BeginCancel, ToHandler, storeVars, StoreTypeOK
<1>2. CASE CommitCancel(h)
  <2>1. c.k \in Keys /\ c.id \in CancelIds /\ c.exp \in Nat /\ c.plan \in Plans /\ c.rev \in Nat
    BY <1>0, <1>2 DEF CommitCancel, HandlerRecords, CancelIds
  <2>2. StoreTypeOK'
    BY <1>2, <2>1, CommitCancellationType
    DEF CommitCancel, Ambiguously, storeVars, StoreTypeOK
  <2>3. turn'[c.k].state \in TurnStates \cup {"Absent"}
    BY <2>1, <2>2 DEF StoreTypeOK, TurnRecords
  <2>4. [IdleHandler EXCEPT !.pc = "signal", !.k = c.k, !.seen = turn'[c.k].state]
          \in HandlerRecords
    <3> DEFINE k == c.k
               seen == turn'[c.k].state
    <3>1. k \in Keys /\ seen \in TurnStates \cup {"Absent"}
      BY <2>1, <2>3
    <3> HIDE DEF k, seen
    <3>3. [IdleHandler EXCEPT !.pc = "signal", !.k = k, !.seen = seen] \in HandlerRecords
      BY Zenon, <3>1 DEF IdleHandler, HandlerRecords, CancelPcs
    <3> QED BY <3>3 DEF k, seen
  <2>5. handler' \in [Handlers -> HandlerRecords]
    BY <1>2, <2>4, IdleHandlerType DEF CommitCancel, EndRequest, ToHandler
  <2>6. budget' \in Budgets
    BY <1>2, FaultType DEF CommitCancel, Ambiguously
  <2> QED BY <1>2, <2>2, <2>5, <2>6 DEF CommitCancel
<1>3. CASE SignalTask(h)
  <2>1. [c EXCEPT !.pc = "release"] \in HandlerRecords
    BY <1>0, <1>3 DEF HandlerRecords, CancelPcs, SignalTask
  <2>2. \A s \in Slots : [slot[s] EXCEPT !.sig = TRUE] \in SlotRecords
    BY SignalType
  <2>3. slot' \in [Slots -> SlotRecords] /\ registry' \in [Keys -> Slots \cup {NoSlot}]
    BY <1>3, <2>2, FreedType DEF SignalTask
  <2> QED BY <1>3, <2>1, <2>3 DEF SignalTask, ToHandler, storeVars, StoreTypeOK
<1>4. CASE ReleaseQuarantined(h)
  <2>1. slot' \in [Slots -> SlotRecords] /\ registry' \in [Keys -> Slots \cup {NoSlot}]
    BY <1>4, FreedType DEF ReleaseQuarantined
  <2> QED BY <1>4, <2>1, IdleHandlerType
          DEF ReleaseQuarantined, EndRequest, ToHandler, storeVars, StoreTypeOK
<1>5. CASE RequestTimeout(h)
  <2>1. c.pc # "idle" => c.k \in Keys
    BY <1>0 DEF HandlerRecords
  <2>2. c.pc = "reserve" =>
          DetachedOp("reserve", c.k, c.bind, NoTurn, 0, 0, "None", 0) \in DetachedOps
    BY <1>0, <2>1 DEF DetachedOps, DetachedOp, HandlerRecords
  <2>3. c.pc = "commit" =>
          DetachedOp("cancel", c.k, NoBinding, c.id, c.exp, 0, c.plan, c.rev) \in DetachedOps
    BY <1>0, <2>1 DEF DetachedOps, DetachedOp, HandlerRecords, CancelIds
  <2>4. detached' \subseteq DetachedOps
    BY <1>5, <2>2, <2>3 DEF RequestTimeout, Detach
  <2>5. slot' \in [Slots -> SlotRecords]
    BY <1>5, FreedType DEF RequestTimeout
  <2> QED BY <1>5, <2>4, <2>5, IdleHandlerType
          DEF RequestTimeout, EndRequest, ToHandler, storeVars, StoreTypeOK
<1> QED BY <1>1, <1>2, <1>3, <1>4, <1>5

\* The guard, start, call and terminal steps of dispatch keep the types.
LEMMA DispatchStepType ==
  ASSUME TypeOK, NEW s \in Slots,
         \/ AcquireCredentialUse(s) \/ StartProvider(s) \/ LoadAfterConflict(s)
         \/ CallProvider(s) \/ FailTurn(s) \/ InterruptTurn(s) \/ RecheckTurn(s)
  PROVE  TypeOK'
<1> USE DEF TypeOK
<1> DEFINE k == slot[s].k
<1>0. k \in Keys
  BY Zenon, TaskTurn DEF AcquireCredentialUse, StartProvider, LoadAfterConflict, CallProvider,
                  FailTurn, InterruptTurn, RecheckTurn, TaskPcs, DispatchPcs
<1>a. turn[k] \in TurnRecords
  BY <1>0 DEF StoreTypeOK
<1>b. {"start", "reconcile", "open", "conflicted", "exit", "opening", "interrupt", "recheck"}
        \subseteq TaskPcs \ {"append"}
  BY DEF TaskPcs, DispatchPcs
<1>1. CASE AcquireCredentialUse(s)
  BY <1>0, <1>1, <1>b, GotoType, TaskLocalType DEF AcquireCredentialUse
<1>2. CASE StartProvider(s)
  <2>1. StartedTurn(turn[k]) \in TurnRecords
    BY <1>a, StartedTurnType
  <2>2. MayStartProvider(k) \in BOOLEAN
    BY DEF MayStartProvider, TurnPermits, RunPermits
  <2> QED BY <1>0, <1>2, <1>b, <2>1, <2>2, TaskCommitType DEF StartProvider
<1>3. CASE LoadAfterConflict(s)
  <2>1. slot' \in [Slots -> SlotRecords]
    BY <1>0, <1>3, <1>b, GotoType DEF LoadAfterConflict
  <2>2. budget' \in Budgets
    BY <1>3, FaultType DEF LoadAfterConflict
  <2> QED BY <1>3, <2>1, <2>2 DEF LoadAfterConflict, storeVars, StoreTypeOK
<1>4. CASE CallProvider(s)
  <2>1. slot' \in [Slots -> SlotRecords]
    BY <1>0, <1>4, <1>b, GotoType DEF CallProvider
  <2>2. calls[k] + 1 \in Nat
    BY <1>0
  <2>3. calls' \in [Keys -> Nat]
    BY Zenon, <1>4, <2>2 DEF CallProvider
  <2> QED BY <1>4, <2>1, <2>3 DEF CallProvider, storeVars, StoreTypeOK
<1>5. ASSUME NEW to \in {"Completed", "Failed", "InterruptedNeedsReview"}, NEW a \in Nat
      PROVE  ValidTerminal(k, to, 1, a) \in BOOLEAN
  BY DEF ValidTerminal, TurnPermits, RunPermits, EffectPermits
<1>6. CASE FailTurn(s)
  <2> DEFINE may == ValidTerminal(k, "Failed", 1, 0)
             new == TerminalTurn(turn[k], "Failed", 0, slot[s].retryable)
  <2>1. slot[s].retryable \in BOOLEAN
    BY DEF SlotRecords
  <2>2. new \in TurnRecords
    BY <1>a, <2>1, TerminalTurnType DEF IsTerminal
  <2>3. TaskCommit(s, may, new, "exit", "interrupt", "interrupt")
    BY <1>6 DEF FailTurn
  <2>4. may \in BOOLEAN
    BY <1>5
  <2> HIDE DEF TypeOK, may, new
  <2> QED BY <1>0, <1>b, <2>2, <2>3, <2>4, TaskCommitType
<1>7. CASE InterruptTurn(s)
  <2> DEFINE may == ValidTerminal(k, "InterruptedNeedsReview", 1, 0)
             new == TerminalTurn(turn[k], "InterruptedNeedsReview", 0, FALSE)
  <2>1. new \in TurnRecords
    BY Zenon, <1>a, TerminalTurnType DEF IsTerminal
  <2>2. TaskCommit(s, may, new, "exit", "recheck", "recheck")
    BY Zenon, <1>7 DEF InterruptTurn
  <2>3. may \in BOOLEAN
    BY <1>5
  <2> HIDE DEF TypeOK, may, new
  <2> QED BY <1>0, <1>b, <2>1, <2>2, <2>3, TaskCommitType
<1>8. CASE RecheckTurn(s)
  <2>1. slot' \in [Slots -> SlotRecords]
    BY <1>0, <1>8, <1>b, GotoType DEF RecheckTurn
  <2>2. budget' \in Budgets
    BY <1>8, FaultType DEF RecheckTurn
  <2> QED BY <1>8, <2>1, <2>2 DEF RecheckTurn, storeVars, StoreTypeOK
<1> QED BY <1>1, <1>2, <1>3, <1>4, <1>6, <1>7, <1>8

\* The steps of consume_stream keep the types.
LEMMA StreamStepType ==
  ASSUME TypeOK, NEW s \in Slots,
         \/ StreamOpened(s) \/ StreamCancelled(s) \/ ProviderError(s)
         \/ \E n \in Deltas : TextDelta(s, n)
         \/ StreamCompleted(s)
         \/ \E usage \in BOOLEAN : StreamEnd(s, usage)
  PROVE  TypeOK'
<1> USE DEF TypeOK
<1>0. slot[s] \in SlotRecords /\ slot[s].k \in Keys
  BY Zenon, TaskTurn DEF StreamOpened, StreamCancelled, ProviderError, TextDelta, StreamCompleted,
                  StreamEnd, TaskPcs, DispatchPcs
<1>a. {"stream", "interrupt", "failing", "flush", "complete"} \subseteq TaskPcs \ {"append"}
  BY DEF TaskPcs, DispatchPcs
<1>1. CASE StreamOpened(s) \/ StreamCancelled(s)
  BY <1>0, <1>1, <1>a, GotoType, TaskLocalType DEF StreamOpened, StreamCancelled
<1>2. CASE ProviderError(s)
  <2>1. ASSUME NEW r \in BOOLEAN
        PROVE  [slot[s] EXCEPT !.pc = "failing", !.retryable = r] \in SlotRecords
    BY Zenon, <1>0, FailingSlotType
  <2>2. ASSUME NEW r \in BOOLEAN,
               slot' = [slot EXCEPT ![s].pc = "failing", ![s].retryable = r]
        PROVE  slot' \in [Slots -> SlotRecords]
    BY Zenon, <2>1, <2>2
  <2>3. slot' \in [Slots -> SlotRecords]
    BY <1>0, <1>2, <1>a, <2>2, GotoType DEF ProviderError
  <2> QED BY <1>2, <2>3, TaskLocalType DEF ProviderError
<1>3. ASSUME NEW n \in Deltas, TextDelta(s, n)
      PROVE  TypeOK'
  <2> DEFINE out == slot[s].out + n
             next == IF NeedsAppend(out, slot[s].off) THEN "append" ELSE "stream"
  <2>1. out \in Nat /\ slot[s].off =< out
    BY <1>0, TextAssumption DEF SlotRecords
  <2>2. [slot[s] EXCEPT !.out = out, !.pc = next] \in SlotRecords
    <3> HIDE DEF out
    <3> QED BY Zenon, <1>0, <2>1, DeltaSlotType
  <2>3. slot' \in [Slots -> SlotRecords]
    BY Zenon, <1>0, <1>3, <1>a, <2>2, GotoType DEF TextDelta
  <2> QED BY <1>3, <2>3, TaskLocalType DEF TextDelta
<1>4. CASE StreamCompleted(s)
  <2>1. [slot[s] EXCEPT !.pc = "interrupt"] \in SlotRecords
    BY <1>0 DEF SlotRecords, TaskPcs, DispatchPcs
  <2>2. [slot[s] EXCEPT !.fin = TRUE] \in SlotRecords
    BY <1>0, FinishedSlotType
  <2>3. slot' \in [Slots -> SlotRecords]
    BY <1>4, <2>1, <2>2 DEF StreamCompleted
  <2> QED BY <1>4, <2>3, TaskLocalType DEF StreamCompleted
<1>5. ASSUME NEW usage \in BOOLEAN, StreamEnd(s, usage)
      PROVE  TypeOK'
  <2>1. slot' \in [Slots -> SlotRecords]
    BY <1>0, <1>5, <1>a, GotoType DEF StreamEnd
  <2> QED BY <1>5, <2>1, TaskLocalType DEF StreamEnd
<1> QED BY <1>1, <1>2, <1>3, <1>4, <1>5

\* An append never takes more than the output that is still unlogged.
LEMMA ChunkSizeType ==
  ASSUME NEW s \in Slots, slot[s] \in SlotRecords, slot[s].pc \in {"append", "flush"}
  PROVE  ChunkSize(s) \in Nat /\ slot[s].off + ChunkSize(s) =< slot[s].out
  BY TextAssumption DEF ChunkSize, SlotRecords, NeedsAppend

\* The append and completion steps of a task keep the types.
LEMMA StoreStepType ==
  ASSUME TypeOK, NEW s \in Slots,
         AppendText(s) \/ CompleteTurn(s) \/ StoreRaceCancelled(s)
  PROVE  TypeOK'
<1> USE DEF TypeOK
<1> DEFINE k == slot[s].k
<1>0. slot[s] \in SlotRecords /\ k \in Keys
  BY Zenon, TaskTurn DEF AppendText, CompleteTurn, StoreRaceCancelled, TaskPcs, DispatchPcs
<1>a. {"stream", "interrupt", "exit", "complete"} \subseteq TaskPcs \ {"append"}
  BY DEF TaskPcs, DispatchPcs
<1>b. turn[k] \in TurnRecords
  BY <1>0 DEF StoreTypeOK
<1>c. slot[s].off \in Nat /\ slot[s].out \in Nat
  BY <1>0 DEF SlotRecords
<1>1. CASE AppendText(s)
  <2> DEFINE n == ChunkSize(s)
             off == slot[s].off + n
             next == IF slot[s].pc = "flush" THEN "complete"
                     ELSE IF NeedsAppend(slot[s].out, off) THEN "append" ELSE "stream"
  <2>1. n \in Nat /\ off \in Nat /\ off =< slot[s].out
    BY <1>0, <1>1, <1>c, ChunkSizeType DEF AppendText
  <2>2. StoreTypeOK'
    <3>1. AppendedTurn(turn[k], slot[s].off, n) \in TurnRecords
      BY <1>b, <1>c, <2>1, AppendedTurnType
    <3> QED BY <1>0, <1>1, <3>1, SetTurnType
            DEF AppendText, Ambiguously, storeVars, StoreTypeOK
  <2>3. [slot[s] EXCEPT !.off = off, !.pc = next] \in SlotRecords
    <3>1. next = "append" => NeedsAppend(slot[s].out, off)
      OBVIOUS
    <3>2. next \in {"append", "stream", "complete"}
      OBVIOUS
    <3> HIDE DEF off, next
    <3> QED BY Zenon, <1>0, <2>1, <3>1, <3>2, AppendedSlotType
  <2>4. slot' \in [Slots -> SlotRecords]
    BY Zenon, <1>0, <1>1, <1>a, <2>3, GotoType DEF AppendText
  <2>5. budget' \in Budgets
    BY <1>1, FaultType DEF AppendText, Ambiguously
  <2> QED BY <1>1, <2>2, <2>4, <2>5 DEF AppendText
<1>2. CASE CompleteTurn(s)
  <2> DEFINE may == ValidTerminal(k, "Completed", 1, slot[s].out)
             new == TerminalTurn(turn[k], "Completed", slot[s].out, FALSE)
  <2>1. new \in TurnRecords
    BY Zenon, <1>b, <1>c, TerminalTurnType DEF IsTerminal
  <2>2. may \in BOOLEAN
    BY DEF ValidTerminal, TurnPermits, RunPermits, EffectPermits
  <2>3. CASE Goto(s, "interrupt") /\ TaskLocal
    BY <1>0, <1>a, <2>3, GotoType, TaskLocalType
  <2>4. CASE TaskCommit(s, may, new, "exit", "interrupt", "interrupt")
    <3> HIDE DEF TypeOK, may, new
    <3> QED BY <1>0, <1>a, <2>1, <2>2, <2>4, TaskCommitType
  <2> QED BY Zenon, <1>2, <2>3, <2>4 DEF CompleteTurn
<1>3. CASE StoreRaceCancelled(s)
  <2>1. DetachedOp("complete", k, NoBinding, NoTurn, slot[s].out, 0, "None", 0) \in DetachedOps
    BY Zenon, <1>0, <1>c DEF DetachedOps, DetachedOp
  <2>2. slot[s].pc \in {"append", "flush"} =>
          DetachedOp("append", k, NoBinding, NoTurn, ChunkSize(s), slot[s].off, "None", 0)
            \in DetachedOps
    BY <1>0, <1>c, ChunkSizeType DEF DetachedOps, DetachedOp
  <2>3. detached' \subseteq DetachedOps
    BY <1>3, <2>1, <2>2 DEF StoreRaceCancelled, Detach
  <2>4. slot' \in [Slots -> SlotRecords]
    BY <1>0, <1>3, <1>a, GotoType DEF StoreRaceCancelled
  <2> QED BY <1>3, <2>3, <2>4 DEF StoreRaceCancelled, storeVars, StoreTypeOK
<1> QED BY <1>1, <1>2, <1>3

\* Reconciliation, give-up and task exit keep the types.
LEMMA ExitStepType ==
  ASSUME TypeOK, NEW s \in Slots,
         ReconcileLoad(s) \/ ReconcileCommit(s) \/ GiveUp(s) \/ FinishTask(s)
  PROVE  TypeOK'
<1> USE DEF TypeOK
<1> DEFINE k == slot[s].k
<1>0. slot[s] \in SlotRecords /\ k \in Keys
  BY TaskTurn DEF ReconcileLoad, ReconcileCommit, GiveUp, FinishTask, TaskPcs, DispatchPcs
<1>a. {"reconcile", "exit"} \subseteq TaskPcs \ {"append"}
  BY DEF TaskPcs, DispatchPcs
<1>b. slot[s].rev \in Nat /\ slot[s].plan \in Plans /\ k \in CancelIds
  BY <1>0 DEF SlotRecords, CancelIds
<1>1. CASE ReconcileLoad(s)
  <2> DEFINE rev == turn[k].rev
             plan == CancellationEdge(turn[k].state)
  <2>1. rev \in Nat /\ plan \in Plans
    BY <1>0 DEF StoreTypeOK, TurnRecords, CancellationEdge
  <2>2. [slot[s] EXCEPT !.pc = "recommit", !.rev = rev, !.plan = plan] \in SlotRecords
    <3> HIDE DEF rev, plan
    <3> QED BY Zenon, <1>0, <2>1 DEF SlotRecords, TaskPcs, DispatchPcs
  <2>3. [slot[s] EXCEPT !.pc = "exit"] \in SlotRecords
    BY <1>0 DEF SlotRecords, TaskPcs, DispatchPcs
  <2>4. slot' \in [Slots -> SlotRecords]
    BY <1>1, <2>2, <2>3 DEF ReconcileLoad
  <2> QED BY <1>1, <2>4, TaskLocalType DEF ReconcileLoad
<1>2. CASE ReconcileCommit(s)
  <2>1. StoreTypeOK'
    <3>1. StoreTypeOK
      OBVIOUS
    <3> HIDE DEF TypeOK
    <3>2. CASE CommitCancellation(k, k, slot[s].rev, slot[s].plan, slot[s].rev)
      BY <1>0, <1>b, <3>1, <3>2, CommitCancellationType
    <3>3. CASE UNCHANGED storeVars
      BY <3>1, <3>3 DEF storeVars, StoreTypeOK
    <3> QED BY <1>2, <3>2, <3>3 DEF ReconcileCommit, Ambiguously
  <2>2. slot' \in [Slots -> SlotRecords]
    BY <1>0, <1>2, <1>a, GotoType DEF ReconcileCommit
  <2>3. budget' \in Budgets
    BY <1>2, FaultType DEF ReconcileCommit, Ambiguously
  <2> QED BY <1>2, <2>1, <2>2, <2>3 DEF ReconcileCommit
<1>3. CASE GiveUp(s)
  <2>1. DetachedOp("cancel", k, NoBinding, k, slot[s].rev, 0, slot[s].plan, slot[s].rev)
          \in DetachedOps
    BY <1>0, <1>b DEF DetachedOps, DetachedOp
  <2>2. detached' \subseteq DetachedOps
    BY <1>3, <2>1 DEF GiveUp, Detach
  <2>3. [FreeSlot EXCEPT !.pc = "quarantined", !.k = k] \in SlotRecords
    BY Zenon, <1>0, FreeSlotType, FreshTaskType
  <2>4. slot' \in [Slots -> SlotRecords]
    BY <1>3, <2>3, FreedType DEF GiveUp
  <2> QED BY <1>3, <2>2, <2>4 DEF GiveUp, storeVars, StoreTypeOK
<1>4. CASE FinishTask(s)
  <2>1. slot' \in [Slots -> SlotRecords]
    BY <1>4, FreedType DEF FinishTask
  <2>2. registry' \in [Keys -> Slots \cup {NoSlot}]
    BY Zenon, <1>4 DEF FinishTask
  <2> QED BY <1>4, <2>1, <2>2 DEF FinishTask, storeVars, StoreTypeOK
<1> QED BY <1>1, <1>2, <1>3, <1>4

\* A detached store call keeps the types.
LEMMA DetachedStepType ==
  ASSUME TypeOK, NEW d \in detached, RunDetached(d)
  PROVE  TypeOK'
<1> USE DEF TypeOK
<1>0. d \in DetachedOps
  OBVIOUS
<1>1. /\ d.k \in Keys /\ d.n \in Nat /\ d.off \in Nat /\ d.plan \in Plans /\ d.rev \in Nat
      /\ d.op = "reserve" => d.bind \in Bindings
      /\ d.op = "cancel" => d.id \in CancelIds
  BY <1>0 DEF DetachedOps
<1>2. turn[d.k] \in TurnRecords
  BY <1>1 DEF StoreTypeOK
<1>3. AppendedTurn(turn[d.k], d.off, d.n) \in TurnRecords
  BY <1>1, <1>2, AppendedTurnType
<1>4. TerminalTurn(turn[d.k], "Completed", d.n, FALSE) \in TurnRecords
  BY Zenon, <1>1, <1>2, TerminalTurnType DEF IsTerminal
<1>5. StoreTypeOK
  OBVIOUS
<1> HIDE DEF TypeOK
<1>6. StoreTypeOK'
  <2>1. CASE d.op = "reserve" /\ Reserve(d.k, d.bind)
    BY <1>1, <1>5, <2>1, ReserveType
  <2>2. CASE d.op = "cancel" /\ CommitCancellation(d.id, d.k, d.n, d.plan, d.rev)
    BY <1>1, <1>5, <2>2, CommitCancellationType
  <2>3. CASE SetTurn(d.k, AppendedTurn(turn[d.k], d.off, d.n))
    BY <1>1, <1>3, <1>5, <2>3, SetTurnType
  <2>4. CASE SetTurn(d.k, TerminalTurn(turn[d.k], "Completed", d.n, FALSE))
    BY Zenon, <1>1, <1>4, <1>5, <2>4, SetTurnType
  <2>5. CASE UNCHANGED storeVars
    BY <1>5, <2>5 DEF storeVars, StoreTypeOK
  <2> QED BY Zenon, <2>1, <2>2, <2>3, <2>4, <2>5 DEF RunDetached
<1> QED BY <1>6 DEF RunDetached, TypeOK

\* A daemon that goes down leaves empty memory, which is well typed.
LEMMA HaltType ==
  ASSUME TypeOK, Halt
  PROVE  /\ daemon' \in [mode : {"down", "recovering", "serving"}, todo : SUBSET Keys,
                         truncated : BOOLEAN]
         /\ registry' \in [Keys -> Slots \cup {NoSlot}]
         /\ slot' \in [Slots -> SlotRecords]
         /\ handler' \in [Handlers -> HandlerRecords]
         /\ detached' \subseteq DetachedOps
  BY FreeSlotType, IdleHandlerType DEF Halt

\* What startup recovery writes is a turn record.
LEMMA RecoveryTerminal ==
  ASSUME TypeOK, NEW k \in Keys, NEW to,
         ValidTerminal(k, to, turn[k].rev, 0), to = CancellationEdge(turn[k].state)
  PROVE  TerminalTurn(turn[k], to, 0, FALSE) \in TurnRecords
<1>1. IsTerminal(to)
  BY DEF ValidTerminal, TurnPermits, CancellationEdge, IsTerminal
<1>2. turn[k] \in TurnRecords
  BY DEF TypeOK, StoreTypeOK
<1> QED BY Zenon, <1>1, <1>2, TerminalTurnType

\* Rotation, crash and recovery keep the types.
LEMMA DaemonStepType ==
  ASSUME TypeOK,
         \/ \E b \in Bindings \cup {NoBinding} : RotateCredential(b)
         \/ Crash \/ RecoveryStep
  PROVE  TypeOK'
<1> USE DEF TypeOK
<1>1. ASSUME NEW b \in Bindings \cup {NoBinding}, RotateCredential(b)
      PROVE  TypeOK'
  <2> DEFINE left == budget.rotations - 1
  <2>1. left \in Nat /\ budget' = [budget EXCEPT !.rotations = left]
    BY <1>1 DEF RotateCredential, Budgets
  <2>2. budget' \in Budgets
    <3> HIDE DEF left
    <3> QED BY <2>1 DEF Budgets
  <2> QED BY <1>1, <2>2 DEF RotateCredential, storeVars, memVars, StoreTypeOK
<1>2. CASE Crash
  <2> DEFINE left == budget.crashes - 1
  <2>1. left \in Nat /\ budget' = [budget EXCEPT !.crashes = left]
    BY <1>2 DEF Crash, Budgets
  <2>2. budget' \in Budgets
    <3> HIDE DEF left
    <3> QED BY <2>1 DEF Budgets
  <2>3. Halt
    BY <1>2 DEF Crash
  <2> QED BY <1>2, <2>2, <2>3, HaltType DEF Crash, storeVars, StoreTypeOK
<1>3. CASE BeginRecovery
  <2>1. Incomplete \subseteq Keys
    BY DEF Incomplete
  <2>2. daemon' \in [mode : {"down", "recovering", "serving"}, todo : SUBSET Keys,
                     truncated : BOOLEAN]
    <3>1. PICK page \in SUBSET Incomplete :
            daemon' = [mode |-> "recovering", todo |-> page, truncated |-> page # Incomplete]
      BY <1>3 DEF BeginRecovery
    <3> QED BY <2>1, <3>1
  <2>3. StoreTypeOK'
    BY <1>3 DEF BeginRecovery, storeVars, StoreTypeOK
  <2> QED BY Zenon, <1>3, <2>2, <2>3 DEF BeginRecovery, memVars
<1>4. CASE EndRecovery
  <2>1. CASE Halt
    BY <1>4, <2>1, HaltType DEF EndRecovery, storeVars, StoreTypeOK
  <2>2. CASE daemon' = [daemon EXCEPT !.mode = "serving"] /\ UNCHANGED memVars
    <3>1. daemon' \in [mode : {"down", "recovering", "serving"}, todo : SUBSET Keys,
                       truncated : BOOLEAN]
      BY <2>2
    <3> QED BY <1>4, <2>2, <3>1 DEF EndRecovery, storeVars, memVars, StoreTypeOK
  <2> QED BY <1>4, <2>1, <2>2 DEF EndRecovery
<1>5. ASSUME NEW k \in Keys, RecoverTurn(k)
      PROVE  TypeOK'
  <2> DEFINE to == CancellationEdge(turn[k].state)
             commit == /\ ValidTerminal(k, to, turn[k].rev, 0)
                       /\ SetTurn(k, TerminalTurn(turn[k], to, 0, FALSE))
  <2>1. commit => StoreTypeOK'
    BY Zenon, RecoveryTerminal, SetTurnType
  <2>2. CASE commit /\ daemon' = [daemon EXCEPT !.todo = @ \ {k}] /\ UNCHANGED <<memVars, budget>>
    <3>1. daemon' \in [mode : {"down", "recovering", "serving"}, todo : SUBSET Keys,
                       truncated : BOOLEAN]
      BY <2>2
    <3>2. StoreTypeOK'
      BY <2>1, <2>2
    <3> QED BY <1>5, <2>2, <3>1, <3>2 DEF RecoverTurn, memVars
  <2>3. CASE Ambiguously(commit) /\ Halt
    <3>1. StoreTypeOK'
      <4>1. CASE commit
        BY <2>1, <4>1
      <4>2. CASE UNCHANGED storeVars
        BY <4>2 DEF storeVars, StoreTypeOK
      <4> QED BY Zenon, <2>3, <4>1, <4>2 DEF Ambiguously
    <3>2. budget' \in Budgets
      BY <2>3, FaultType DEF Ambiguously
    <3> QED BY <1>5, <2>3, <3>1, <3>2, HaltType DEF RecoverTurn
  <2> QED BY Zenon, <1>5, <2>2, <2>3 DEF RecoverTurn
<1> QED BY <1>1, <1>2, <1>3, <1>4, <1>5 DEF RecoveryStep

\* The initial state is well typed.
LEMMA InitType ==
  ASSUME Init
  PROVE  TypeOK
<1>1. AbsentTurn \in TurnRecords /\ NoReceipt \in Receipts
  BY DEF AbsentTurn, TurnRecords, NoReceipt, Receipts
<1>2. StoreTypeOK
  BY <1>1 DEF Init, StoreInit, StoreTypeOK
<1> QED BY Zenon, <1>2, FreeSlotType, IdleHandlerType, ScenariosAssumption DEF Init, TypeOK

\* Every step keeps the types.
LEMMA NextType ==
  ASSUME TypeOK, [Next]_vars
  PROVE  TypeOK'
<1>1. CASE UNCHANGED vars
  BY <1>1 DEF vars, storeVars, memVars, TypeOK, StoreTypeOK
<1>2. ASSUME NEW h \in Handlers, HandlerStep(h)  PROVE TypeOK'
  BY <1>2, StartRequestType, CancelRequestType DEF HandlerStep
<1>3. ASSUME NEW s \in Slots, TaskStep(s)  PROVE TypeOK'
  BY <1>3, DispatchStepType, StreamStepType, StoreStepType, ExitStepType DEF TaskStep
<1> QED BY <1>1, <1>2, <1>3, DetachedStepType, DaemonStepType DEF Next

\* The type invariant holds in every reachable state: every request, task and
\* detached call always works on a turn, permit and command that exist.
THEOREM TypeCorrect == Spec => []TypeOK
<1>1. Init => TypeOK
  BY InitType
<1>2. TypeOK /\ [Next]_vars => TypeOK'
  BY NextType
<1> QED BY <1>1, <1>2, PTL DEF Spec

-----------------------------------------------------------------------------
(* How a step may move a turn *)

\* One turn moves, along an edge other than the provider start; a known
\* outcome is that of a call.
QuietMove(k, t) ==
  /\ turn' = [turn EXCEPT ![k] = t]
  /\ \/ turn[k].state = "Absent" /\ t.state = "Reserved"
     \/ turn[k].state = "Reserved" /\ t.state = "Cancelled"
     \/ turn[k].state = "ProviderStarted"
          /\ t.state \in {"ProviderStarted", "InterruptedNeedsReview"}
     \/ /\ turn[k].state = "ProviderStarted"
        /\ t.state \in {"Completed", "Failed"}
        /\ calls[k] = 1

QuietMoves == turn' = turn \/ \E k \in Keys, t \in TurnRecords : QuietMove(k, t)

\* A reservation moves one turn from absent to reserved.
LEMMA ReserveMoves ==
  ASSUME StoreTypeOK, NEW k \in Keys, NEW b \in Bindings, MayReserve(k, b), Reserve(k, b)
  PROVE  QuietMoves
<1>1. ReservedTurn(k, b) \in TurnRecords
  BY ReservedTurnType
<1>2. ReservedTurn(k, b).state = "Reserved"
  BY DEF ReservedTurn, AbsentTurn
<1>3. QuietMove(k, ReservedTurn(k, b))
  BY <1>2 DEF QuietMove, Reserve, MayReserve
<1> QED BY <1>1, <1>3 DEF QuietMoves

\* An append leaves a started turn started.
LEMMA AppendMoves ==
  ASSUME StoreTypeOK, NEW k \in Keys, NEW off \in Nat, NEW n \in Nat,
         MayAppend(k, off), SetTurn(k, AppendedTurn(turn[k], off, n))
  PROVE  QuietMoves
<1>1. turn[k] \in TurnRecords
  BY DEF StoreTypeOK
<1>2. AppendedTurn(turn[k], off, n) \in TurnRecords
  BY <1>1, AppendedTurnType
<1>3. AppendedTurn(turn[k], off, n).state = turn[k].state
  BY <1>1 DEF AppendedTurn, TurnRecords
<1>4. QuietMove(k, AppendedTurn(turn[k], off, n))
  BY <1>3 DEF QuietMove, SetTurn, MayAppend
<1> QED BY <1>2, <1>4 DEF QuietMoves

\* A terminal commit puts the turn in the state asked for.
LEMMA TerminalState ==
  ASSUME NEW t \in TurnRecords, NEW to, NEW a, NEW r
  PROVE  TerminalTurn(t, to, a, r).state = to
  BY DEF TerminalTurn, TurnRecords

\* A valid terminal commit moves one active turn along its edge.
LEMMA TerminalMoves ==
  ASSUME StoreTypeOK, NEW k \in Keys, NEW to, NEW exp, NEW a \in Nat, NEW r \in BOOLEAN,
         ValidTerminal(k, to, exp, a), IsTerminal(to),
         to \in {"Completed", "Failed"} => calls[k] = 1,
         turn' = [turn EXCEPT ![k] = TerminalTurn(turn[k], to, a, r)]
  PROVE  QuietMoves
<1>1. turn[k] \in TurnRecords
  BY DEF StoreTypeOK
<1>2. TerminalTurn(turn[k], to, a, r) \in TurnRecords
  BY <1>1, TerminalTurnType
<1>3. TerminalTurn(turn[k], to, a, r).state = to
  BY <1>1, TerminalState
<1>4. QuietMove(k, TerminalTurn(turn[k], to, a, r))
  BY <1>3 DEF QuietMove, ValidTerminal, TurnPermits, IsTerminal
<1> QED BY <1>2, <1>4 DEF QuietMoves

\* A cancellation moves one active turn or none.
LEMMA CancellationMoves ==
  ASSUME StoreTypeOK, NEW id, NEW k \in Keys, NEW exp, NEW plan \in Plans, NEW rev,
         CommitCancellation(id, k, exp, plan, rev)
  PROVE  QuietMoves
<1> DEFINE verdict == CancelVerdict(id, k, exp, plan, rev)
<1>1. CASE verdict = "commit"
  <2>1. ValidTerminal(k, plan, exp, 0) /\ plan # "None"
    BY <1>1 DEF CancelVerdict
  <2>2. turn' = [turn EXCEPT ![k] = TerminalTurn(turn[k], plan, 0, FALSE)]
    BY <1>1 DEF CommitCancellation
  <2> QED BY Zenon, <2>1, <2>2, TerminalMoves DEF IsTerminal
<1>2. CASE verdict # "commit"
  <2>1. turn' = turn
    BY <1>2 DEF CommitCancellation, StoreTypeOK
  <2> QED BY <2>1 DEF QuietMoves
<1> QED BY <1>1, <1>2

-----------------------------------------------------------------------------
(* The provider boundary *)

\* A step of a slot that neither passes the start commit nor calls the provider.
QuietSlot(s) ==
  slot'[s].pc \in PostStartPcs =>
    /\ slot[s].pc \in PostStartPcs
    /\ slot'[s].k = slot[s].k
    /\ slot'[s].pc = "open" => slot[s].pc = "open"
    /\ slot'[s].pc \in AnsweringPcs => slot[s].pc \in AnsweringPcs

QuietDetached ==
  \A d \in detached' : d.op = "complete" => d \in detached \/ calls[d.k] = 1

QuietStep ==
  /\ QuietMoves
  /\ calls' = calls
  /\ \A s \in Slots : QuietSlot(s)
  /\ QuietDetached

\* A step that neither starts nor calls keeps the provider boundary.
LEMMA QuietStepKeepsBoundary ==
  ASSUME TypeOK, BoundaryInv, QuietStep
  PROVE  BoundaryInv'
<1>0. /\ ProviderCalledAtMostOnce /\ CancelledNeverCalled /\ OutcomeWasCalled
      /\ StartedAlone /\ CallsFollowTask
  BY DEF BoundaryInv
<1>1. /\ turn \in [Keys -> TurnRecords] /\ calls' = calls /\ QuietMoves /\ QuietDetached
      /\ \A s \in Slots : QuietSlot(s)
  BY DEF TypeOK, StoreTypeOK, QuietStep
<1>2. ASSUME NEW k \in Keys
      PROVE  /\ turn'[k].state \in {"Absent", "Reserved", "Cancelled"} =>
                  turn[k].state \in {"Absent", "Reserved", "Cancelled"}
             /\ turn'[k].state \in {"Completed", "Failed"} =>
                  turn[k].state \in {"Completed", "Failed"} \/ calls[k] = 1
  BY <1>1 DEF QuietMoves, QuietMove
<1>3. ProviderCalledAtMostOnce' /\ CancelledNeverCalled'
  BY <1>0, <1>1, <1>2 DEF ProviderCalledAtMostOnce, CancelledNeverCalled
<1>4. OutcomeWasCalled'
  BY <1>0, <1>1, <1>2 DEF OutcomeWasCalled, QuietDetached
<1>5. ASSUME NEW s \in Slots, slot'[s].pc \in PostStartPcs
      PROVE  slot[s].k \in Keys /\ slot'[s].k = slot[s].k /\ slot[s].pc \in PostStartPcs
  BY <1>1, <1>5, TaskTurn DEF QuietSlot, TypeOK, PostStartPcs, TaskPcs, DispatchPcs
<1>6. StartedAlone'
  BY <1>0, <1>2, <1>5 DEF StartedAlone
<1>7. CallsFollowTask'
  BY <1>0, <1>1 DEF CallsFollowTask, QuietSlot, PostStartPcs, AnsweringPcs
<1> QED BY <1>3, <1>4, <1>6, <1>7 DEF BoundaryInv

\* A task that moves on without starting or calling is quiet.
LEMMA GotoQuiet ==
  ASSUME TypeOK, NEW s \in Slots, NEW next, Goto(s, next), next # "open",
         next \in PostStartPcs => slot[s].pc \in PostStartPcs,
         next \in AnsweringPcs => slot[s].pc \in AnsweringPcs
  PROVE  \A r \in Slots : QuietSlot(r)
<1>1. \A r \in Slots : slot'[r].k = slot[r].k /\ slot'[r].pc = IF r = s THEN next ELSE slot[r].pc
  BY DEF Goto, TypeOK, SlotRecords
<1> QED BY <1>1 DEF QuietSlot

\* Dropping a permit is quiet.
LEMMA FreedQuiet ==
  ASSUME TypeOK, NEW s, slot' = Freed(s)
  PROVE  \A r \in Slots : QuietSlot(r)
<1>1. \A r \in Slots : slot'[r] = slot[r] \/ slot'[r].pc = "free"
  BY DEF Freed, TypeOK, FreeSlot
<1> QED BY <1>1 DEF QuietSlot, PostStartPcs

\* A step that leaves the slots alone is quiet for them.
LEMMA SameSlotsQuiet ==
  ASSUME slot' = slot
  PROVE  \A r \in Slots : QuietSlot(r)
  BY DEF QuietSlot

\* A step that leaves the store alone moves no turn.
LEMMA StoreUnchangedQuiet ==
  ASSUME UNCHANGED storeVars
  PROVE  QuietMoves
  BY DEF storeVars, QuietMoves

\* No IPC request starts or calls the provider by itself.
LEMMA HandlerStepQuiet ==
  ASSUME TypeOK, NEW h \in Handlers, HandlerStep(h)
  PROVE  QuietStep
<1> USE DEF HandlerStep
<1>0. handler[h] \in HandlerRecords /\ StoreTypeOK
  BY DEF TypeOK
<1>1. calls' = calls
  BY Zenon DEF BeginStart, AnswerReplay, AcquirePermit, Preflight, ReserveTurn, Launch, BeginCancel,
         CommitCancel, SignalTask, ReleaseQuarantined, RequestTimeout
<1>2. QuietDetached
  <2>1. CASE RequestTimeout(h)
    <3> DEFINE c == handler[h]
               reserve == DetachedOp("reserve", c.k, c.bind, NoTurn, 0, 0, "None", 0)
               cancel == DetachedOp("cancel", c.k, NoBinding, c.id, c.exp, 0, c.plan, c.rev)
    <3>1. reserve.op # "complete" /\ cancel.op # "complete"
      BY DEF DetachedOp
    <3>2. detached' \subseteq detached \cup {reserve, cancel}
      BY <2>1 DEF RequestTimeout, Detach
    <3> HIDE DEF reserve, cancel
    <3> QED BY Zenon, <3>1, <3>2 DEF QuietDetached
  <2>2. CASE ~RequestTimeout(h)
    <3>1. detached' = detached
      BY Zenon, <2>2 DEF BeginStart, AnswerReplay, AcquirePermit, Preflight, ReserveTurn, Launch,
                  BeginCancel, CommitCancel, SignalTask, ReleaseQuarantined
    <3> QED BY Zenon, <3>1 DEF QuietDetached
  <2> QED BY <2>1, <2>2
<1>3. QuietMoves
  <2>1. CASE ReserveTurn(h)
    <3>1. handler[h].k \in Keys /\ handler[h].bind \in Bindings
      BY <1>0, <2>1 DEF ReserveTurn, HandlerRecords
    <3> QED BY <1>0, <2>1, <3>1, ReserveMoves, StoreUnchangedQuiet DEF ReserveTurn, Ambiguously
  <2>2. CASE CommitCancel(h)
    <3>1. handler[h].k \in Keys /\ handler[h].plan \in Plans
      BY <1>0, <2>2 DEF CommitCancel, HandlerRecords
    <3> QED BY <1>0, <2>2, <3>1, CancellationMoves, StoreUnchangedQuiet
            DEF CommitCancel, Ambiguously
  <2>3. CASE ~ReserveTurn(h) /\ ~CommitCancel(h)
    BY Zenon, <2>3, StoreUnchangedQuiet
    DEF BeginStart, AnswerReplay, AcquirePermit, Preflight, Launch, BeginCancel,
        SignalTask, ReleaseQuarantined, RequestTimeout
  <2> QED BY <2>1, <2>2, <2>3
<1>4. \A s \in Slots : QuietSlot(s)
  <2>1. CASE AcquirePermit(h)
    <3>1. ASSUME NEW s \in Slots, slot' = [slot EXCEPT ![s].pc = "held"]
          PROVE  \A r \in Slots : QuietSlot(r)
      <4>1. \A r \in Slots : slot'[r] = slot[r] \/ slot'[r].pc = "held"
        BY <3>1 DEF TypeOK, SlotRecords
      <4> QED BY Zenon, <4>1 DEF QuietSlot, PostStartPcs
    <3> QED BY Zenon, <2>1, <3>1, SameSlotsQuiet DEF AcquirePermit
  <2>2. CASE Launch(h)
    <3>1. ASSUME NEW s, NEW k, slot' = [slot EXCEPT ![s] = [FreeSlot EXCEPT !.pc = "guard", !.k = k]]
          PROVE  \A r \in Slots : QuietSlot(r)
      <4>1. \A r \in Slots : slot'[r] = slot[r] \/ slot'[r].pc = "guard"
        BY <3>1 DEF TypeOK, FreeSlot
      <4> QED BY <4>1 DEF QuietSlot, PostStartPcs
    <3> QED BY Zenon, <2>2, <3>1, FreedQuiet DEF Launch, Refuse
  <2>3. CASE SignalTask(h)
    <3>1. ASSUME NEW s, slot' = [slot EXCEPT ![s].sig = TRUE]
          PROVE  \A r \in Slots : QuietSlot(r)
      <4>1. \A r \in Slots : slot'[r].pc = slot[r].pc /\ slot'[r].k = slot[r].k
        BY <3>1 DEF TypeOK, SlotRecords
      <4> QED BY <4>1 DEF QuietSlot
    <3> QED BY <2>3, <3>1, FreedQuiet, SameSlotsQuiet DEF SignalTask
  <2>4. CASE Preflight(h) \/ ReserveTurn(h)
    BY <2>4, FreedQuiet, SameSlotsQuiet DEF Preflight, ReserveTurn, Refuse
  <2>5. CASE AnswerReplay(h) \/ ReleaseQuarantined(h) \/ RequestTimeout(h)
    BY <2>5, FreedQuiet, SameSlotsQuiet DEF AnswerReplay, ReleaseQuarantined, RequestTimeout
  <2>6. CASE \/ \E k \in Keys : BeginStart(h, k)
             \/ \E id \in CancelKeys, k \in Keys, expected \in 0..1 : BeginCancel(h, id, k, expected)
             \/ CommitCancel(h)
    BY Zenon, <2>6, SameSlotsQuiet DEF BeginStart, BeginCancel, CommitCancel
  <2> QED BY <2>1, <2>2, <2>3, <2>4, <2>5, <2>6
<1> QED BY <1>1, <1>2, <1>3, <1>4 DEF QuietStep

\* A quiet step of a task on its own slot is a quiet step.
LEMMA TaskLocalQuiet ==
  ASSUME TaskLocal, \A r \in Slots : QuietSlot(r)
  PROVE  QuietStep
  BY StoreUnchangedQuiet DEF TaskLocal, QuietStep, QuietDetached

\* A terminal commit by the task that called is a quiet step.
LEMMA TaskTerminalQuiet ==
  ASSUME TypeOK, NEW s \in Slots, slot[s].k \in Keys, NEW to, IsTerminal(to),
         NEW a \in Nat, NEW r \in BOOLEAN,
         to \in {"Completed", "Failed"} => calls[slot[s].k] = 1,
         NEW next \in {"interrupt", "recheck"}, slot[s].pc \in PostStartPcs,
         TaskCommit(s, ValidTerminal(slot[s].k, to, 1, a), TerminalTurn(turn[slot[s].k], to, a, r),
                    "exit", next, next)
  PROVE  QuietStep
<1>0. StoreTypeOK
  BY DEF TypeOK
<1>1. QuietMoves
  BY Zenon, <1>0, TerminalMoves, StoreUnchangedQuiet DEF TaskCommit, Ambiguously, SetTurn
<1>2. \A q \in Slots : QuietSlot(q)
  BY Zenon, GotoQuiet DEF TaskCommit, PostStartPcs, AnsweringPcs
<1> QED BY <1>1, <1>2 DEF TaskCommit, QuietStep, QuietDetached

\* The guard, conflict, failure and interruption steps are quiet.
LEMMA DispatchStepQuiet ==
  ASSUME TypeOK, BoundaryInv, NEW s \in Slots,
         \/ AcquireCredentialUse(s) \/ LoadAfterConflict(s) \/ FailTurn(s)
         \/ InterruptTurn(s) \/ RecheckTurn(s)
  PROVE  QuietStep
<1> USE DEF PostStartPcs, AnsweringPcs
<1>0. slot[s] \in SlotRecords /\ slot[s].k \in Keys
  BY Zenon, TaskTurn DEF AcquireCredentialUse, LoadAfterConflict, FailTurn, InterruptTurn, RecheckTurn,
                  TaskPcs, DispatchPcs, TypeOK
<1>1. CASE AcquireCredentialUse(s)
  BY Zenon, <1>1, GotoQuiet, TaskLocalQuiet DEF AcquireCredentialUse
<1>2. CASE LoadAfterConflict(s) \/ RecheckTurn(s)
  <2>1. \A r \in Slots : QuietSlot(r)
    BY <1>2, GotoQuiet DEF LoadAfterConflict, RecheckTurn
  <2> QED BY <1>2, <2>1, StoreUnchangedQuiet
          DEF LoadAfterConflict, RecheckTurn, QuietStep, QuietDetached
<1>3. CASE FailTurn(s)
  <2>1. calls[slot[s].k] = 1
    BY <1>3 DEF FailTurn, BoundaryInv, CallsFollowTask
  <2>2. slot[s].retryable \in BOOLEAN
    BY <1>0 DEF SlotRecords
  <2> QED BY Zenon, <1>0, <1>3, <2>1, <2>2, TaskTerminalQuiet DEF FailTurn, IsTerminal
<1>4. CASE InterruptTurn(s)
  BY Zenon, <1>0, <1>4, TaskTerminalQuiet DEF InterruptTurn, IsTerminal
<1> QED BY <1>1, <1>2, <1>3, <1>4

\* Reading the provider's stream is quiet.
LEMMA StreamStepQuiet ==
  ASSUME TypeOK, NEW s \in Slots,
         \/ StreamOpened(s) \/ StreamCancelled(s) \/ ProviderError(s)
         \/ \E n \in Deltas : TextDelta(s, n)
         \/ StreamCompleted(s)
         \/ \E usage \in BOOLEAN : StreamEnd(s, usage)
  PROVE  QuietStep
<1>0. slot[s].pc \in {"opening", "stream"} /\ TaskLocal
  BY Zenon DEF StreamOpened, StreamCancelled, ProviderError, TextDelta, StreamCompleted, StreamEnd
<1> DEFINE Moves == \A r \in Slots : /\ slot'[r].k = slot[r].k
                                     /\ r # s => slot'[r].pc = slot[r].pc
                                     /\ r = s => slot'[r].pc # "open"
<1>a. ASSUME NEW next, next # "open", Goto(s, next)  PROVE Moves
  BY <1>a DEF Goto, TypeOK, SlotRecords
<1>1. StreamOpened(s) \/ StreamCancelled(s) => Moves
  BY Zenon, <1>a DEF StreamOpened, StreamCancelled
<1>2. ASSUME ProviderError(s)  PROVE Moves
  <2>1. ASSUME NEW r \in BOOLEAN, slot' = [slot EXCEPT ![s].pc = "failing", ![s].retryable = r]
        PROVE  Moves
    BY <2>1 DEF TypeOK, SlotRecords
  <2> QED BY <1>2, <1>a, <2>1 DEF ProviderError
<1>3. ASSUME NEW n \in Deltas, TextDelta(s, n)  PROVE Moves
  <2>1. ASSUME NEW out, NEW next \in {"append", "stream"},
               slot' = [slot EXCEPT ![s].out = out, ![s].pc = next]
        PROVE  Moves
    BY <2>1 DEF TypeOK, SlotRecords
  <2> QED BY <1>3, <1>a, <2>1 DEF TextDelta
<1>4. ASSUME StreamCompleted(s)  PROVE Moves
  <2>1. CASE slot' = [slot EXCEPT ![s].fin = TRUE]
    BY <1>0, <2>1 DEF TypeOK, SlotRecords
  <2> QED BY <1>4, <1>a, <2>1 DEF StreamCompleted, Goto
<1>5. ASSUME NEW usage \in BOOLEAN, StreamEnd(s, usage)  PROVE Moves
  BY <1>5, <1>a DEF StreamEnd
<1>6. Moves
  BY <1>1, <1>2, <1>3, <1>4, <1>5
<1>7. \A r \in Slots : QuietSlot(r)
  <2> SUFFICES ASSUME NEW r \in Slots PROVE QuietSlot(r)
    OBVIOUS
  <2>1. CASE r = s
    BY <1>0, <1>6, <2>1 DEF QuietSlot, PostStartPcs, AnsweringPcs
  <2>2. CASE r # s
    BY <1>6, <2>2 DEF QuietSlot
  <2> QED BY <2>1, <2>2
<1> QED BY <1>0, <1>7, TaskLocalQuiet

\* Appending and completing are quiet: the task has called.
LEMMA StoreStepQuiet ==
  ASSUME TypeOK, BoundaryInv, NEW s \in Slots,
         AppendText(s) \/ CompleteTurn(s) \/ StoreRaceCancelled(s)
  PROVE  QuietStep
<1> DEFINE k == slot[s].k
<1>0. /\ slot[s] \in SlotRecords /\ k \in Keys /\ StoreTypeOK
      /\ slot[s].off \in Nat /\ slot[s].out \in Nat
      /\ slot[s].pc \in {"append", "flush", "complete"}
  BY Zenon, TaskTurn DEF AppendText, CompleteTurn, StoreRaceCancelled, TaskPcs, DispatchPcs, TypeOK,
                  SlotRecords
<1>a. calls[k] = 1
  BY <1>0 DEF BoundaryInv, CallsFollowTask, AnsweringPcs
<1>b. Goto(s, "interrupt") => \A r \in Slots : QuietSlot(r)
  BY <1>0, GotoQuiet DEF PostStartPcs, AnsweringPcs
<1>1. CASE AppendText(s)
  <2> DEFINE n == ChunkSize(s)
  <2>1. n \in Nat
    BY <1>0, <1>1, ChunkSizeType DEF AppendText
  <2>2. QuietMoves
    BY <1>0, <1>1, <2>1, AppendMoves, StoreUnchangedQuiet DEF AppendText, Ambiguously
  <2>3. ASSUME NEW off, NEW next \in {"complete", "append", "stream"},
               slot' = [slot EXCEPT ![s].off = off, ![s].pc = next]
        PROVE  \A r \in Slots : QuietSlot(r)
    <3>1. \A r \in Slots : slot'[r].k = slot[r].k
                           /\ slot'[r].pc = IF r = s THEN next ELSE slot[r].pc
      BY <2>3 DEF TypeOK, SlotRecords
    <3> QED BY <1>0, <3>1 DEF QuietSlot, PostStartPcs, AnsweringPcs
  <2>4. \A r \in Slots : QuietSlot(r)
    BY <1>1, <1>b, <2>3 DEF AppendText
  <2> QED BY <1>1, <2>2, <2>4 DEF AppendText, QuietStep, QuietDetached
<1>2. CASE CompleteTurn(s)
  <2>1. CASE Goto(s, "interrupt") /\ TaskLocal
    BY <1>b, <2>1, TaskLocalQuiet
  <2>2. CASE TaskCommit(s, ValidTerminal(k, "Completed", 1, slot[s].out),
                        TerminalTurn(turn[k], "Completed", slot[s].out, FALSE),
                        "exit", "interrupt", "interrupt")
    BY Zenon, <1>0, <1>a, <2>2, TaskTerminalQuiet DEF IsTerminal, PostStartPcs
  <2> QED BY Zenon, <1>2, <2>1, <2>2 DEF CompleteTurn
<1>3. CASE StoreRaceCancelled(s)
  <2>1. DetachedOp("complete", k, NoBinding, NoTurn, slot[s].out, 0, "None", 0).k = k
    BY DEF DetachedOp
  <2>2. DetachedOp("append", k, NoBinding, NoTurn, ChunkSize(s), slot[s].off, "None", 0).k = k
    BY DEF DetachedOp
  <2>3. QuietDetached
    BY Zenon, <1>3, <1>a, <2>1, <2>2 DEF StoreRaceCancelled, Detach, QuietDetached
  <2> QED BY Zenon, <1>3, <1>b, <2>3, StoreUnchangedQuiet DEF StoreRaceCancelled, QuietStep
<1> QED BY <1>1, <1>2, <1>3

\* Reconciliation, give-up and task exit are quiet.
LEMMA ExitStepQuiet ==
  ASSUME TypeOK, NEW s \in Slots,
         ReconcileLoad(s) \/ ReconcileCommit(s) \/ GiveUp(s) \/ FinishTask(s)
  PROVE  QuietStep
<1> DEFINE k == slot[s].k
<1>0. slot[s] \in SlotRecords /\ k \in Keys /\ StoreTypeOK /\ slot[s].plan \in Plans
  BY TaskTurn DEF ReconcileLoad, ReconcileCommit, GiveUp, FinishTask, TaskPcs, DispatchPcs,
                  TypeOK, SlotRecords
<1>1. CASE ReconcileLoad(s)
  <2>1. \A r \in Slots : slot'[r] = slot[r] \/ slot'[r].pc \in {"exit", "recommit"}
    BY <1>1 DEF ReconcileLoad, TypeOK, SlotRecords
  <2>2. \A r \in Slots : QuietSlot(r)
    BY Zenon, <2>1 DEF QuietSlot, PostStartPcs
  <2> QED BY <1>1, <2>2, TaskLocalQuiet DEF ReconcileLoad
<1>2. CASE ReconcileCommit(s)
  <2>1. QuietMoves
    BY Zenon, <1>0, <1>2, CancellationMoves, StoreUnchangedQuiet DEF ReconcileCommit, Ambiguously
  <2>2. \A r \in Slots : QuietSlot(r)
    BY Zenon, <1>2, GotoQuiet DEF ReconcileCommit, PostStartPcs, AnsweringPcs
  <2> QED BY Zenon, <1>2, <2>1, <2>2 DEF ReconcileCommit, QuietStep, QuietDetached
<1>3. CASE GiveUp(s)
  <2> DEFINE op == DetachedOp("cancel", k, NoBinding, k, slot[s].rev, 0, slot[s].plan, slot[s].rev)
  <2>1. op.op # "complete"
    BY DEF DetachedOp
  <2>2. QuietDetached
    <3>1. detached' \subseteq detached \cup {op}
      BY <1>3 DEF GiveUp, Detach
    <3> HIDE DEF op
    <3> QED BY <2>1, <3>1 DEF QuietDetached
  <2>3. \A r \in Slots : slot'[r] = slot[r] \/ slot'[r].pc \in {"free", "quarantined"}
    BY <1>3 DEF GiveUp, Freed, FreeSlot, TypeOK
  <2>4. \A r \in Slots : QuietSlot(r)
    BY <2>3 DEF QuietSlot, PostStartPcs
  <2> QED BY <1>3, <2>2, <2>4, StoreUnchangedQuiet DEF GiveUp, QuietStep
<1>4. CASE FinishTask(s)
  BY Zenon, <1>4, FreedQuiet, StoreUnchangedQuiet DEF FinishTask, QuietStep, QuietDetached
<1> QED BY <1>1, <1>2, <1>3, <1>4

\* A detached store call is quiet, a completion because its task had called.
LEMMA DetachedStepQuiet ==
  ASSUME TypeOK, BoundaryInv, NEW d \in detached, RunDetached(d)
  PROVE  QuietStep
<1>0. /\ d.k \in Keys /\ d.n \in Nat /\ d.off \in Nat /\ d.plan \in Plans
      /\ d.op = "reserve" => d.bind \in Bindings
      /\ StoreTypeOK
  BY DEF TypeOK, DetachedOps
<1>1. QuietMoves
  <2>1. CASE d.op = "reserve" /\ MayReserve(d.k, d.bind) /\ Reserve(d.k, d.bind)
    BY <1>0, <2>1, ReserveMoves
  <2>2. CASE CommitCancellation(d.id, d.k, d.n, d.plan, d.rev)
    BY <1>0, <2>2, CancellationMoves
  <2>3. CASE MayAppend(d.k, d.off) /\ SetTurn(d.k, AppendedTurn(turn[d.k], d.off, d.n))
    BY <1>0, <2>3, AppendMoves
  <2>4. CASE /\ d.op = "complete" /\ ValidTerminal(d.k, "Completed", 1, d.n)
             /\ SetTurn(d.k, TerminalTurn(turn[d.k], "Completed", d.n, FALSE))
    <3>1. calls[d.k] = 1
      BY <2>4 DEF BoundaryInv, OutcomeWasCalled
    <3> QED BY Zenon, <1>0, <2>4, <3>1, TerminalMoves DEF SetTurn, IsTerminal
  <2> QED BY Zenon, <2>1, <2>2, <2>3, <2>4, StoreUnchangedQuiet DEF RunDetached
<1> QED BY <1>1, SameSlotsQuiet DEF RunDetached, QuietStep, QuietDetached

\* A daemon that goes down leaves no task past the boundary.
LEMMA HaltQuiet ==
  ASSUME Halt
  PROVE  (\A r \in Slots : QuietSlot(r)) /\ QuietDetached
  BY DEF Halt, QuietSlot, QuietDetached, FreeSlot, PostStartPcs

\* Rotation, crash and recovery are quiet.
LEMMA DaemonStepQuiet ==
  ASSUME TypeOK,
         \/ \E b \in Bindings \cup {NoBinding} : RotateCredential(b)
         \/ Crash \/ RecoveryStep
  PROVE  QuietStep
<1>1. ASSUME NEW b \in Bindings \cup {NoBinding}, RotateCredential(b)
      PROVE  QuietStep
  BY <1>1, StoreUnchangedQuiet, SameSlotsQuiet
  DEF RotateCredential, memVars, QuietStep, QuietDetached
<1>2. CASE Crash
  BY <1>2, StoreUnchangedQuiet, HaltQuiet DEF Crash, QuietStep
<1>3. CASE BeginRecovery
  BY Zenon, <1>3, StoreUnchangedQuiet, SameSlotsQuiet
  DEF BeginRecovery, memVars, QuietStep, QuietDetached
<1>4. CASE EndRecovery
  BY <1>4, StoreUnchangedQuiet, SameSlotsQuiet, HaltQuiet
  DEF EndRecovery, memVars, QuietStep, QuietDetached
<1>5. ASSUME NEW k \in Keys, RecoverTurn(k)
      PROVE  QuietStep
  <2> DEFINE to == CancellationEdge(turn[k].state)
             commit == /\ ValidTerminal(k, to, turn[k].rev, 0)
                       /\ SetTurn(k, TerminalTurn(turn[k], to, 0, FALSE))
  <2>1. commit => QuietMoves
    <3>1. SUFFICES ASSUME commit PROVE QuietMoves
      OBVIOUS
    <3>2. IsTerminal(to) /\ to \notin {"Completed", "Failed"}
      BY <3>1 DEF ValidTerminal, TurnPermits, CancellationEdge, IsTerminal
    <3> QED BY Zenon, <3>1, <3>2, TerminalMoves DEF TypeOK, SetTurn
  <2>2. CASE commit /\ UNCHANGED memVars
    BY <1>5, <2>1, <2>2, SameSlotsQuiet DEF RecoverTurn, memVars, QuietStep, QuietDetached
  <2>3. CASE Ambiguously(commit) /\ Halt
    <3>1. QuietMoves
      <4> HIDE DEF commit
      <4> QED BY <2>1, <2>3, StoreUnchangedQuiet DEF Ambiguously
    <3> QED BY <1>5, <2>3, <3>1, HaltQuiet DEF RecoverTurn, QuietStep
  <2> QED BY Zenon, <1>5, <2>2, <2>3 DEF RecoverTurn, memVars
<1> QED BY <1>1, <1>2, <1>3, <1>4, <1>5 DEF RecoveryStep

\* The two steps of a task that are not quiet: the start commit and the call.
StartMove(s) ==
  /\ slot[s].k \in Keys
  /\ turn[slot[s].k].state = "Reserved"
  /\ \E t \in TurnRecords : /\ t.state = "ProviderStarted"
                            /\ turn' = [turn EXCEPT ![slot[s].k] = t]
  /\ calls' = calls

CallMove(s) ==
  /\ slot[s].k \in Keys
  /\ slot[s].pc = "open"
  /\ turn' = turn
  /\ calls' = [calls EXCEPT ![slot[s].k] = @ + 1]

\* start_provider passes the boundary alone or is quiet.
LEMMA StartProviderStep ==
  ASSUME TypeOK, BoundaryInv, NEW s \in Slots, StartProvider(s)
  PROVE  BoundaryInv' /\ (QuietStep \/ StartMove(s))
<1> DEFINE k == slot[s].k
           may == MayStartProvider(k)
           new == StartedTurn(turn[k])
<1>0. slot[s] \in SlotRecords /\ k \in Keys /\ slot[s].pc = "start"
  BY TaskTurn DEF StartProvider, TaskPcs, DispatchPcs, TypeOK
<1>1. turn[k] \in TurnRecords /\ new \in TurnRecords /\ new.state = "ProviderStarted"
  <2>1. turn[k] \in TurnRecords
    BY <1>0 DEF TypeOK, StoreTypeOK
  <2> QED BY Zenon, <2>1, StartedTurnType DEF StartedTurn, TurnRecords
<1>2. may => turn[k].state = "Reserved"
  BY DEF MayStartProvider, TurnPermits
<1>3. /\ detached' = detached /\ calls' = calls
      /\ \/ UNCHANGED storeVars /\ Goto(s, "conflicted")
         \/ UNCHANGED storeVars /\ Goto(s, "reconcile")
         \/ may /\ SetTurn(k, new) /\ Goto(s, "reconcile")
         \/ may /\ SetTurn(k, new) /\ Goto(s, "open")
  BY Zenon DEF StartProvider, TaskCommit, Ambiguously
<1> HIDE DEF may, new
<1>4. CASE UNCHANGED storeVars /\ (Goto(s, "conflicted") \/ Goto(s, "reconcile"))
  <2>1. QuietStep
    BY Zenon, <1>3, <1>4, GotoQuiet, StoreUnchangedQuiet
    DEF QuietStep, QuietDetached, PostStartPcs, AnsweringPcs
  <2> QED BY <2>1, QuietStepKeepsBoundary
<1>5. CASE may /\ SetTurn(k, new) /\ (Goto(s, "reconcile") \/ Goto(s, "open"))
  <2>1. StartMove(s)
    BY Zenon, <1>0, <1>1, <1>2, <1>3, <1>5 DEF StartMove, SetTurn
  <2>2. \A j \in Keys : turn'[j].state = IF j = k THEN "ProviderStarted" ELSE turn[j].state
    BY <1>1, <1>5 DEF SetTurn, TypeOK, StoreTypeOK
  <2>3. \A r \in Slots : slot'[r].k = slot[r].k /\ (r # s => slot'[r].pc = slot[r].pc)
    BY <1>5 DEF Goto, TypeOK, SlotRecords
  <2>4. slot'[s].pc \in {"reconcile", "open"}
    BY <1>5 DEF Goto, TypeOK, SlotRecords
  <2>5. calls[k] = 0
    BY <1>0, <1>2, <1>5 DEF BoundaryInv, CancelledNeverCalled
  <2>6. \A r \in Slots : slot[r].pc \in PostStartPcs => slot[r].k \in Keys /\ slot[r].k # k
    BY <1>2, <1>5, TaskTurn DEF BoundaryInv, StartedAlone, TypeOK, PostStartPcs, TaskPcs, DispatchPcs
  <2>7. BoundaryInv'
    <3>0. /\ ProviderCalledAtMostOnce /\ CancelledNeverCalled /\ OutcomeWasCalled
          /\ StartedAlone /\ CallsFollowTask
      BY DEF BoundaryInv
    <3>1. ProviderCalledAtMostOnce' /\ CancelledNeverCalled'
      BY Zenon, <1>3, <2>2, <3>0 DEF ProviderCalledAtMostOnce, CancelledNeverCalled
    <3>2. OutcomeWasCalled'
      BY <1>3, <2>2, <3>0 DEF OutcomeWasCalled
    <3>3. ASSUME NEW r \in Slots, slot'[r].pc \in PostStartPcs, r # s
          PROVE  slot[r].pc \in PostStartPcs /\ slot'[r].k = slot[r].k /\ slot[r].k \in Keys \ {k}
      BY <2>3, <2>6, <3>3
    <3>4. ASSUME NEW r \in Slots, slot'[r].pc \in PostStartPcs
          PROVE  turn'[slot'[r].k].state \notin {"Absent", "Reserved", "Cancelled"}
      <4>1. CASE r = s
        BY <1>0, <2>2, <2>3, <4>1
      <4>2. CASE r # s
        BY <2>2, <3>0, <3>3, <3>4, <4>2 DEF StartedAlone
      <4> QED BY <4>1, <4>2
    <3>5. ASSUME NEW q \in Slots, NEW r \in Slots, slot'[q].pc \in PostStartPcs,
                 slot'[r].pc \in PostStartPcs, slot'[q].k = slot'[r].k
          PROVE  q = r
      <4>1. CASE q # s /\ r # s
        BY <3>0, <3>3, <3>5, <4>1 DEF StartedAlone
      <4>2. CASE q = s \/ r = s
        BY <2>3, <3>3, <3>5, <4>2
      <4> QED BY <4>1, <4>2
    <3>6. StartedAlone'
      BY <3>4, <3>5 DEF StartedAlone
    <3>7. CallsFollowTask'
      BY <1>3, <2>3, <2>4, <2>5, <3>0 DEF CallsFollowTask, AnsweringPcs
    <3> QED BY <3>1, <3>2, <3>6, <3>7 DEF BoundaryInv
  <2> QED BY <2>1, <2>7
<1> QED BY <1>3, <1>4, <1>5

\* The call happens once, by the only task past the start of its turn.
LEMMA CallProviderStep ==
  ASSUME TypeOK, BoundaryInv, NEW s \in Slots, CallProvider(s)
  PROVE  BoundaryInv' /\ CallMove(s)
<1> DEFINE k == slot[s].k
<1>0. k \in Keys /\ slot[s].pc = "open" /\ slot[s].pc \in PostStartPcs
  BY TaskTurn DEF CallProvider, TaskPcs, DispatchPcs, TypeOK, PostStartPcs
<1>1. CallMove(s)
  BY <1>0 DEF CallProvider, CallMove, storeVars
<1>2. calls[k] = 0
  BY <1>0 DEF BoundaryInv, CallsFollowTask
<1>3. \A j \in Keys : calls'[j] = IF j = k THEN 1 ELSE calls[j]
  BY <1>1, <1>2 DEF CallMove, TypeOK
<1>4. \A r \in Slots : slot'[r].k = slot[r].k
                       /\ slot'[r].pc = IF r = s THEN "opening" ELSE slot[r].pc
  BY DEF CallProvider, Goto, TypeOK, SlotRecords
<1>5. turn[k].state \notin {"Absent", "Reserved", "Cancelled"}
  BY <1>0 DEF BoundaryInv, StartedAlone
<1>6. \A r \in Slots : slot[r].pc \in PostStartPcs => slot[r].k \in Keys
                                                      /\ (r # s => slot[r].k # k)
  BY <1>0, TaskTurn DEF BoundaryInv, StartedAlone, TypeOK, PostStartPcs, TaskPcs, DispatchPcs
<1>7. detached' = detached /\ turn' = turn /\ \A d \in detached : d.k \in Keys
  BY DEF CallProvider, storeVars, TypeOK, DetachedOps
<1>8. BoundaryInv'
  <2>0. /\ ProviderCalledAtMostOnce /\ CancelledNeverCalled /\ OutcomeWasCalled
        /\ StartedAlone /\ CallsFollowTask
    BY DEF BoundaryInv
  <2>1. ProviderCalledAtMostOnce'
    BY <1>3, <2>0 DEF ProviderCalledAtMostOnce
  <2>2. CancelledNeverCalled'
    BY <1>3, <1>5, <1>7, <2>0 DEF CancelledNeverCalled
  <2>3. OutcomeWasCalled'
    BY <1>3, <1>7, <2>0 DEF OutcomeWasCalled
  <2>4. \A r \in Slots : slot'[r].pc \in PostStartPcs => slot[r].pc \in PostStartPcs
    BY <1>0, <1>4
  <2>5. StartedAlone'
    BY Zenon, <1>4, <1>7, <2>0, <2>4 DEF StartedAlone
  <2>6. ASSUME NEW r \in Slots, slot'[r].pc \in PostStartPcs, r # s
        PROVE  slot[r].pc = slot'[r].pc /\ calls'[slot'[r].k] = calls[slot[r].k]
    BY <1>3, <1>4, <1>6, <2>6
  <2>7. {"open"} \cup AnsweringPcs \subseteq PostStartPcs
    BY DEF PostStartPcs, AnsweringPcs
  <2>8. slot'[s].pc = "opening" /\ calls'[slot'[s].k] = 1
    BY <1>0, <1>3, <1>4
  <2>9. CallsFollowTask'
    BY <2>0, <2>6, <2>7, <2>8 DEF CallsFollowTask
  <2> QED BY <2>1, <2>2, <2>3, <2>5, <2>9 DEF BoundaryInv
<1> QED BY <1>1, <1>8

\* Every step is quiet, a start or a call.
LEMMA StepKinds ==
  ASSUME TypeOK, BoundaryInv, Next
  PROVE  \/ QuietStep
         \/ \E s \in Slots : StartProvider(s) \/ CallProvider(s)
<1>1. ASSUME NEW s \in Slots, TaskStep(s)
      PROVE  QuietStep \/ StartProvider(s) \/ CallProvider(s)
  BY <1>1, DispatchStepQuiet, StreamStepQuiet, StoreStepQuiet, ExitStepQuiet DEF TaskStep
<1> QED BY <1>1, HandlerStepQuiet, DetachedStepQuiet, DaemonStepQuiet DEF Next

\* Every step keeps the provider boundary.
LEMMA BoundaryStep ==
  ASSUME TypeOK, BoundaryInv, [Next]_vars
  PROVE  BoundaryInv'
<1>1. CASE UNCHANGED vars
  BY Zenon, <1>1 DEF vars, storeVars, memVars, BoundaryInv, ProviderCalledAtMostOnce,
              CancelledNeverCalled, OutcomeWasCalled, StartedAlone, CallsFollowTask
<1>2. CASE Next
  BY <1>2, StepKinds, QuietStepKeepsBoundary, StartProviderStep, CallProviderStep
<1> QED BY <1>1, <1>2

\* The provider boundary holds initially.
LEMMA BoundaryInit ==
  ASSUME Init
  PROVE  BoundaryInv
<1>1. \A k \in Keys : turn[k].state = "Absent" /\ calls[k] = 0
  BY DEF Init, StoreInit, AbsentTurn
<1>2. \A s \in Slots : slot[s].pc \notin PostStartPcs \cup AnsweringPcs \cup {"open"}
  BY DEF Init, FreeSlot, PostStartPcs, AnsweringPcs
<1>3. ProviderCalledAtMostOnce /\ CancelledNeverCalled
  BY <1>1 DEF ProviderCalledAtMostOnce, CancelledNeverCalled
<1>4. detached = {}
  BY DEF Init
<1> QED BY <1>1, <1>2, <1>3, <1>4 DEF BoundaryInv, OutcomeWasCalled, StartedAlone, CallsFollowTask

\* The provider boundary is inductive: whatever is replayed, timed out,
\* detached, cancelled or recovered, one task at most is past the durable start
\* of a turn, and it calls the provider once.
THEOREM BoundaryHolds == Spec => []BoundaryInv
<1>1. Init => TypeOK /\ BoundaryInv
  BY InitType, BoundaryInit
<1>2. TypeOK /\ BoundaryInv /\ [Next]_vars => TypeOK' /\ BoundaryInv'
  BY NextType, BoundaryStep
<1> QED BY <1>1, <1>2, PTL DEF Spec

\* No turn issues a second provider request (ConversationService::dispatch).
THEOREM CalledAtMostOnce == Spec => []ProviderCalledAtMostOnce
<1>1. BoundaryInv => ProviderCalledAtMostOnce
  BY DEF BoundaryInv
<1> QED BY <1>1, BoundaryHolds, PTL

\* A reserved or cancelled turn was never sent, so its retry repeats nothing.
THEOREM CancelledUncalled == Spec => []CancelledNeverCalled
<1>1. BoundaryInv => CancelledNeverCalled
  BY DEF BoundaryInv
<1> QED BY <1>1, BoundaryHolds, PTL

-----------------------------------------------------------------------------
(* Finality and refinement *)

\* Terminal turns never change, whoever commits late.
THEOREM TerminalsFinal == Spec => TerminalTurnsFinal
<1>1. TypeOK /\ BoundaryInv /\ [Next]_vars
        => [\A k \in Keys : IsTerminal(turn[k].state) => turn'[k] = turn[k]]_vars
  <2> SUFFICES ASSUME TypeOK, BoundaryInv, Next, NEW k \in Keys, IsTerminal(turn[k].state)
               PROVE  turn'[k] = turn[k]
    OBVIOUS
  <2>1. turn \in [Keys -> TurnRecords]
    BY DEF TypeOK, StoreTypeOK
  <2>2. CASE QuietStep
    BY <2>1, <2>2 DEF QuietStep, QuietMoves, QuietMove, IsTerminal
  <2>3. ASSUME NEW s \in Slots, StartMove(s)  PROVE turn'[k] = turn[k]
    BY <2>1, <2>3 DEF StartMove, IsTerminal
  <2>4. ASSUME NEW s \in Slots, CallMove(s)  PROVE turn'[k] = turn[k]
    BY <2>4 DEF CallMove
  <2> QED BY <2>2, <2>3, <2>4, StepKinds, StartProviderStep, CallProviderStep
<1> QED BY <1>1, TypeCorrect, BoundaryHolds, PTL DEF Spec, TerminalTurnsFinal

\* Writing one turn maps to one move of the abstract turn.
LEMMA MapsMove ==
  ASSUME TypeOK, NEW k \in Keys, NEW t, turn' = [turn EXCEPT ![k] = t], calls' = calls
  PROVE  \A from, to : turn[k].state = from /\ t.state = to => Lifecycle!Move(k, from, to)
<1>1. [j \in Keys |-> turn'[j].state]
        = [[j \in Keys |-> turn[j].state] EXCEPT ![k] = t.state]
  BY Zenon DEF TypeOK, StoreTypeOK
<1> QED BY <1>1 DEF Lifecycle!Move

\* Every step of the daemon is a step of the abstract lifecycle or a stutter.
LEMMA StepRefines ==
  ASSUME TypeOK, BoundaryInv, [Next]_vars
  PROVE  [Lifecycle!Next]_(Lifecycle!vars)
<1> USE DEF Lifecycle!Next
<1>1. CASE UNCHANGED vars
  BY <1>1 DEF vars, storeVars, Lifecycle!vars
<1>2. CASE QuietStep
  <2>1. CASE turn' = turn
    BY <1>2, <2>1 DEF QuietStep, Lifecycle!vars
  <2>2. ASSUME NEW k \in Keys, NEW t \in TurnRecords, QuietMove(k, t)
        PROVE  [Lifecycle!Next]_(Lifecycle!vars)
    <3>0. /\ turn' = [turn EXCEPT ![k] = t] /\ calls' = calls
          /\ \A from, to : turn[k].state = from /\ t.state = to => Lifecycle!Move(k, from, to)
      BY Zenon, <1>2, <2>2, MapsMove DEF QuietMove, QuietStep
    <3>1. CASE turn[k].state = "Absent" /\ t.state = "Reserved"
      BY <3>0, <3>1 DEF Lifecycle!Reserve
    <3>2. CASE turn[k].state = "Reserved" /\ t.state = "Cancelled"
      BY <3>0, <3>2 DEF Lifecycle!Cancel
    <3>3. CASE turn[k].state = "ProviderStarted" /\ t.state = "InterruptedNeedsReview"
      BY <3>0, <3>3 DEF Lifecycle!Interrupt
    <3>4. CASE turn[k].state = "ProviderStarted" /\ t.state \in {"Completed", "Failed"}
               /\ calls[k] = 1
      BY <3>0, <3>4 DEF Lifecycle!Finish
    <3>5. CASE turn[k].state = "ProviderStarted" /\ t.state = "ProviderStarted"
      <4>1. [j \in Keys |-> turn'[j].state] = [j \in Keys |-> turn[j].state]
        BY <3>0, <3>5 DEF TypeOK, StoreTypeOK
      <4> QED BY <3>0, <4>1 DEF Lifecycle!vars
    <3> QED BY Zenon, <2>2, <3>1, <3>2, <3>3, <3>4, <3>5 DEF QuietMove
  <2> QED BY <1>2, <2>1, <2>2 DEF QuietStep, QuietMoves
<1>3. ASSUME NEW s \in Slots, StartMove(s)
      PROVE  [Lifecycle!Next]_(Lifecycle!vars)
  <2>1. Lifecycle!Move(slot[s].k, "Reserved", "ProviderStarted")
    <3>1. PICK t \in TurnRecords : /\ t.state = "ProviderStarted"
                                   /\ turn' = [turn EXCEPT ![slot[s].k] = t]
      BY Zenon, <1>3 DEF StartMove
    <3>2. slot[s].k \in Keys /\ turn[slot[s].k].state = "Reserved" /\ calls' = calls
      BY <1>3 DEF StartMove
    <3>3. \A from, to : turn[slot[s].k].state = from /\ t.state = to
                          => Lifecycle!Move(slot[s].k, from, to)
      BY Zenon, <3>1, <3>2, MapsMove
    <3> QED BY <3>1, <3>2, <3>3
  <2> QED BY <1>3, <2>1 DEF Lifecycle!Start, StartMove
<1>4. ASSUME NEW s \in Slots, CallMove(s)
      PROVE  [Lifecycle!Next]_(Lifecycle!vars)
  <2> DEFINE k == slot[s].k
  <2>1. k \in Keys /\ calls[k] = 0 /\ calls' = [calls EXCEPT ![k] = 1] /\ turn' = turn
    <3>1. k \in Keys /\ calls[k] = 0 /\ turn' = turn
      BY <1>4 DEF CallMove, BoundaryInv, CallsFollowTask
    <3>2. calls' = [calls EXCEPT ![k] = calls[k] + 1]
      BY <1>4 DEF CallMove
    <3>3. calls[k] + 1 = 1
      BY <3>1
    <3> QED BY <3>1, <3>2, <3>3
  <2>2. turn[k].state \notin {"Absent", "Reserved", "Cancelled", "Completed", "Failed"}
    <3>1. slot[s].pc \in PostStartPcs
      BY <1>4 DEF CallMove, PostStartPcs
    <3> QED BY <2>1, <3>1 DEF BoundaryInv, StartedAlone, OutcomeWasCalled
  <2>3. turn[k].state \in {"ProviderStarted", "InterruptedNeedsReview"}
    BY <2>1, <2>2 DEF TypeOK, StoreTypeOK, TurnRecords
  <2>4. Lifecycle!Call(k)
    BY Zenon, <2>1, <2>3 DEF Lifecycle!Call
  <2> QED BY <2>1, <2>4
<1> QED BY <1>1, <1>2, <1>3, <1>4, StepKinds, StartProviderStep, CallProviderStep

\* Turn by turn the daemon implements the abstract lifecycle: reserved, started,
\* called once, and only then given a known outcome.
THEOREM Refinement == Spec => RefinesTurnLifecycle
<1>1. Init => Lifecycle!Init
  <2> SUFFICES ASSUME Init PROVE Lifecycle!Init
    OBVIOUS
  <2>1. [k \in Keys |-> turn[k].state] = [k \in Keys |-> "Absent"]
    BY DEF Init, StoreInit, AbsentTurn
  <2>2. calls = [k \in Keys |-> 0]
    BY DEF Init
  <2> QED BY <2>1, <2>2 DEF Lifecycle!Init
<1>2. TypeOK /\ BoundaryInv /\ [Next]_vars => [Lifecycle!Next]_(Lifecycle!vars)
  BY StepRefines
<1> QED BY <1>1, <1>2, TypeCorrect, BoundaryHolds, PTL
        DEF Spec, RefinesTurnLifecycle, Lifecycle!Spec
=============================================================================
