------------------------------ MODULE HostWork ------------------------------
(***************************************************************************)
(* Host Work: a turn that an agent executes on the host with the daemon's  *)
(* tools.  HostWorkService owns the turn (start, execute_reserved,         *)
(* cancel), HostToolBridge serves the agent's tool calls, each on its own  *)
(* connection, HostWorkRuntime switches the official agent process between *)
(* its roles, and recover_host_work settles at startup what an earlier     *)
(* daemon left behind.                                                     *)
(*                                                                         *)
(* The daemon may crash at any step.  The execution tables and the policy  *)
(* survive; tasks, connections and the runtime role do not.                *)
(***************************************************************************)
EXTENDS Lifecycles, FiniteSets

-----------------------------------------------------------------------------
(* The durable execution tables and the three services that write them:    *)
(* runs with their command journal (RunService), approvals                 *)
(* (ApprovalService) and side effects (SideEffectService).                 *)
(*                                                                         *)
(* Every write is one SQL transaction guarded by the revisions its caller  *)
(* read earlier.  An operator here is that transaction; the read that      *)
(* supplied the revision is a step of whoever calls it.                    *)
(*                                                                         *)
(* A run carries the name of the start command that created it, and an     *)
(* approval or an effect the name of its intent: the host tool bridge      *)
(* derives both identities from the run and the tool call.                 *)

CONSTANTS Runs,      \* start commands, and the run each of them creates
          Calls,     \* tool-call identities an agent uses within a run
          Orphan,    \* the fixed key base of a cancel that finds no task
          None

VARIABLES runs,       \* Runs -> None or [state, revision]
          commands,   \* execution_commands: key -> None or [asked, outcome]
          approvals,  \* Intents -> None or [status, revision, asked]
          effects     \* Intents -> None or [kind, state, revision]

storeVars == <<runs, commands, approvals, effects>>

Intents == Runs \X Calls

Stages == {"run", "planning", "running", "completed", "failed",
           "failed-current", "cancelled", "assistant-message", "recovery"}

CommandKeys == (Runs \cup {Orphan}) \X Stages

ApprovalStatuses == {"Pending", "Granted", "Denied", "Expired", "Cancelled"}

StoreInit ==
  /\ runs = [r \in Runs |-> None]
  /\ commands = [k \in CommandKeys |-> None]
  /\ approvals = [i \in Intents |-> None]
  /\ effects = [i \in Intents |-> None]

-----------------------------------------------------------------------------
(* Runs. *)

Live(r) == runs[r] # None /\ ~RunIsTerminal(runs[r].state)

\* What cancel, fail_current and startup recovery leave alone.
Settled(r) ==
  RunIsTerminal(runs[r].state) \/ runs[r].state = "InterruptedNeedsReview"

\* Run::transition
Moved(run, next) == [run EXCEPT !.state = next, !.revision = @ + 1]

QueuedRun == [state |-> "Queued", revision |-> 0]

Record(key, asked, outcome) ==
  commands' = [commands EXCEPT ![key] = [asked |-> asked, outcome |-> outcome]]

\* RunService::create_work: an exact repeat answers from the journal.
CreateWork(r) ==
  IF commands[<<r, "run">>] = None
    THEN /\ runs' = [runs EXCEPT ![r] = QueuedRun]
         /\ Record(<<r, "run">>, r, QueuedRun)
    ELSE UNCHANGED <<runs, commands>>

CreateWorkResult(r) ==
  IF commands[<<r, "run">>] = None THEN QueuedRun
                                   ELSE commands[<<r, "run">>].outcome

TransitionAccepted(key, r, revision, next) ==
  /\ commands[key] = None
  /\ runs[r].revision = revision
  /\ RunPermits(runs[r].state, next)

\* RunService::transition
Transition(key, r, revision, next) ==
  IF TransitionAccepted(key, r, revision, next)
    THEN /\ runs' = [runs EXCEPT ![r] = Moved(runs[r], next)]
         /\ Record(key, <<r, revision, next>>, Moved(runs[r], next))
    ELSE UNCHANGED <<runs, commands>>

\* Its answer: the run it wrote, the outcome recorded by the first execution
\* of the same command, or None for an error.
TransitionResult(key, r, revision, next) ==
  IF TransitionAccepted(key, r, revision, next) THEN Moved(runs[r], next)
  ELSE IF commands[key] # None /\ commands[key].asked = <<r, revision, next>>
         THEN commands[key].outcome
         ELSE None

-----------------------------------------------------------------------------
(* Approvals. *)

\* ApprovalService::request.  The fingerprint holds the run revision and the
\* expiry, so only a repeat read at the same revision and the same clock
\* instant is a replay.
RequestAccepted(i, revision) ==
  /\ approvals[i] = None
  /\ runs[i[1]].revision = revision
  /\ RunPermits(runs[i[1]].state, "AwaitingApproval")

Request(i, revision, instant) ==
  IF RequestAccepted(i, revision)
    THEN /\ approvals' = [approvals EXCEPT ![i] =
              [status |-> "Pending", revision |-> 0,
               asked |-> <<revision, instant>>]]
         /\ runs' = [runs EXCEPT ![i[1]] = Moved(runs[i[1]], "AwaitingApproval")]
    ELSE UNCHANGED <<approvals, runs>>

RequestAnswered(i, revision, instant) ==
  \/ RequestAccepted(i, revision)
  \/ approvals[i] # None /\ approvals[i].asked = <<revision, instant>>

\* Approval::decide: a deadline that has passed wins over the decision.
DecidedStatus(decision, late) ==
  IF late THEN "Expired"
          ELSE IF decision = "Grant" THEN "Granted" ELSE "Denied"

\* The run's side of ApprovalService::decide.
RunAfter(status) == IF status = "Granted" THEN "Running" ELSE "Paused"

\* Mutant: a decided approval can be decided again.
DecideAgain(i, revision, runRevision, status) ==
  /\ approvals[i].revision = revision
  /\ runs[i[1]].revision = runRevision
  /\ RunPermits(runs[i[1]].state, RunAfter(status))

DecideAccepted(i, revision, runRevision, status) ==
  /\ approvals[i].status = "Pending"
  /\ approvals[i].revision = revision
  /\ runs[i[1]].revision = runRevision
  /\ RunPermits(runs[i[1]].state, RunAfter(status))

\* Mutant: a refusal closes the approval and forgets the run.
DecideAlone(i, revision, runRevision, decision, late) ==
  LET status == DecidedStatus(decision, late) IN
  IF DecideAccepted(i, revision, runRevision, status)
    THEN /\ approvals' = [approvals EXCEPT ![i].status = status,
                                           ![i].revision = @ + 1]
         /\ IF status = "Granted"
              THEN runs' = [runs EXCEPT ![i[1]] = Moved(runs[i[1]], "Running")]
              ELSE UNCHANGED runs
    ELSE UNCHANGED <<approvals, runs>>

\* ApprovalService::decide: the decision and the run move together.
Decide(i, revision, runRevision, decision, late) ==
  LET status == DecidedStatus(decision, late) IN
  IF DecideAccepted(i, revision, runRevision, status)
    THEN /\ approvals' = [approvals EXCEPT ![i].status = status,
                                           ![i].revision = @ + 1]
         /\ runs' = [runs EXCEPT ![i[1]] = Moved(runs[i[1]], RunAfter(status))]
    ELSE UNCHANGED <<approvals, runs>>

-----------------------------------------------------------------------------
(* Side effects. *)

EffectMoved(effect, next) == [effect EXCEPT !.state = next, !.revision = @ + 1]

\* create_effect inserts without looking at the run again.
CreateEffect(i, kind) ==
  effects' = [effects EXCEPT ![i] =
                [kind |-> kind, state |-> "Prepared", revision |-> 0]]

EffectAccepts(i, revision, next) ==
  /\ effects[i].revision = revision
  /\ EffectPermits(effects[i].state, next)

\* SideEffectService::start and ::finish
SaveEffect(i, revision, next) ==
  IF EffectAccepts(i, revision, next)
    THEN effects' = [effects EXCEPT ![i] = EffectMoved(effects[i], next)]
    ELSE UNCHANGED effects

InterruptAccepted(i, revision, runRevision) ==
  /\ EffectAccepts(i, revision, "NeedsReview")
  /\ runs[i[1]].revision = runRevision
  /\ RunPermits(runs[i[1]].state, "InterruptedNeedsReview")

\* SideEffectService::interrupt: the effect and its run move together or not
\* at all.
Interrupt(i, revision, runRevision) ==
  IF InterruptAccepted(i, revision, runRevision)
    THEN /\ effects' = [effects EXCEPT ![i] = EffectMoved(effects[i], "NeedsReview")]
         /\ runs' = [runs EXCEPT ![i[1]] =
                       Moved(runs[i[1]], "InterruptedNeedsReview")]
    ELSE UNCHANGED <<effects, runs>>

-----------------------------------------------------------------------------
(* The turn, the tools and the runtime. *)

CONSTANTS ThreadOf,       \* Runs -> the thread the start command names
          Conns,          \* connections the bridge may serve at once
          ProcessSlots,   \* HostToolServices::process_slots
          RecoveryBatch,  \* MAX_HOST_WORK_RECOVERY_BATCH
          Scopes          \* bounds: the scenarios explored

MutatingTools == {"FileWrite", "Process"}

\* A scenario: who acts (start commands sent, tool calls the agent makes, with
\* which tools, on which connections), what clock readings two requests share
\* and what the agent may answer, whether it begins enrolled with the work role
\* running, and bounds on policy revisions, requested role switches, how often
\* a start command is sent, and crashes still to come.
ScopeRecords ==
  [runs : SUBSET Runs, calls : SUBSET Calls, kinds : SUBSET MutatingTools,
   conns : SUBSET Conns, instants : SUBSET Nat, replies : SUBSET Nat,
   prepared : BOOLEAN, policies : Nat, switches : Nat, sends : Nat,
   crashes : Nat]

ASSUME ScopesAssumption ==
  Scopes \subseteq ScopeRecords /\ {ProcessSlots, RecoveryBatch} \subseteq Nat

\* What the tables and the daemon hold of a run, an approval, an effect, the
\* task of a run and the tool call of a connection, when they hold one.
RunRecords == [state : RunStates, revision : Nat]
ApprovalRecords == [status : ApprovalStatuses, revision : Nat, asked : Nat \X Nat]
EffectRecords == [kind : MutatingTools, state : EffectStates, revision : Nat]

EarlyPcs == {"opening", "initializing", "initialized"}
TaskPcs == EarlyPcs \cup {"running", "streaming", "closing", "failing", "cancelling",
                          "replying", "completing", "complete", "cancel", "erred", "fail"}
TaskRecords == [pc : TaskPcs, held : RunRecords, policy : Nat, cancelled : BOOLEAN,
                session : BOOLEAN, permit : BOOLEAN,
                then : {"err", "fail", "cancel", "complete"}]
StarterRecords == [run : Runs, pc : {"queued", "planned"}, policy : Nat, held : RunRecords]

StartedPcs == {"starting", "executing", "uncertain", "interrupting"}
GrantedPcs == {"revalidating", "preparing", "inserting"} \cup StartedPcs
ConnRecords == [intent : Intents, kind : MutatingTools,
                pc : {"asking", "requesting", "polling", "denying"} \cup GrantedPcs,
                run : Nat, revision : Nat]

ASSUME NoneAssumption ==
  /\ None \notin RunRecords /\ None \notin [asked : Runs, outcome : RunRecords]
  /\ None \notin ApprovalRecords /\ None \notin EffectRecords
  /\ None \notin TaskRecords /\ None \notin StarterRecords /\ None \notin ConnRecords

VARIABLES policy,      \* [revision, active]
          runtime,     \* [role, authenticated, preparing, deactivating,
                       \*  switches]
          waiting,     \* Runs -> None or the policy a start call has read
          starter,     \* the start call that holds start_lock, or None
          tasks,       \* Runs -> None or the task executing the run
          conns,       \* Conns -> None or the tool call it serves
          daemon,      \* [phase, closing]
          scope,       \* the scenario
          sends,       \* Runs -> times its start command arrived
          dispatches,  \* Intents -> times the tool reached the host
          abandoned    \* intents whose call lost its store and left an open approval

hostVars == <<policy, runtime, waiting, starter, tasks, conns, daemon, scope,
              sends, dispatches, abandoned>>
vars == <<storeVars, hostVars>>

Serving == daemon.phase = "serving"

HostInit ==
  /\ StoreInit
  /\ scope \in Scopes
  /\ policy = [revision |-> IF scope.prepared THEN 1 ELSE 0,
               active |-> scope.prepared]
  /\ runtime = [role |-> IF scope.prepared THEN "Work" ELSE "Control",
                authenticated |-> scope.prepared,
                preparing |-> FALSE, deactivating |-> FALSE, switches |-> 0]
  /\ waiting = [r \in Runs |-> None]
  /\ starter = None
  /\ tasks = [r \in Runs |-> None]
  /\ conns = [c \in Conns |-> None]
  /\ daemon = [phase |-> "serving", closing |-> None]
  /\ sends = [r \in Runs |-> 0]
  /\ dispatches = [i \in Intents |-> 0]
  /\ abandoned = {}

-----------------------------------------------------------------------------
(* Enrollment and the runtime role. *)

\* shutdown_current ends the agent process, and with it every session.
SessionsEnd ==
  tasks' = [r \in Runs |-> IF tasks[r] = None THEN None
                           ELSE [tasks[r] EXCEPT !.session = FALSE]]

PolicyReplaced(active) ==
  /\ Serving
  /\ policy.revision < scope.policies
  /\ policy' = [revision |-> policy.revision + 1, active |-> active]
  /\ runtime' = [runtime EXCEPT !.deactivating = TRUE]
  /\ UNCHANGED <<storeVars, waiting, starter, tasks, conns, daemon, scope,
                 sends, dispatches, abandoned>>

\* enroll_host_execution and revoke_host_execution: the new policy commits,
\* then the handler deactivates the runtime.
EnrollHostExecution == PolicyReplaced(TRUE)
RevokeHostExecution == PolicyReplaced(FALSE)

AuthenticateRuntime ==
  /\ Serving
  /\ runtime.role # "Unavailable"
  /\ runtime' = [runtime EXCEPT !.authenticated = TRUE]
  /\ UNCHANGED <<storeVars, policy, waiting, starter, tasks, conns, daemon,
                 scope, sends, dispatches, abandoned>>

\* prepare_host_work_runtime reads the policy ...
PrepareReads ==
  /\ Serving
  /\ policy.active
  /\ ~runtime.preparing
  /\ runtime.switches < scope.switches
  /\ runtime' = [runtime EXCEPT !.preparing = TRUE, !.switches = @ + 1]
  /\ UNCHANGED <<storeVars, policy, waiting, starter, tasks, conns, daemon,
                 scope, sends, dispatches, abandoned>>

\* ... and HostWorkRuntime::prepare acts on it: the control role is restored
\* when the work role cannot start, and the runtime is unavailable when
\* neither can.
PrepareRuntime ==
  /\ runtime.preparing
  /\ IF runtime.role = "Work" \/ ~runtime.authenticated
       THEN /\ runtime' = [runtime EXCEPT !.preparing = FALSE]
            /\ UNCHANGED tasks
       ELSE /\ \E role \in {"Work", "Control", "Unavailable"} :
                 runtime' = [runtime EXCEPT !.role = role, !.preparing = FALSE]
            /\ SessionsEnd
  /\ UNCHANGED <<storeVars, policy, waiting, starter, conns, daemon, scope,
                 sends, dispatches, abandoned>>

\* DeactivateHostWorkRuntime
DeactivateRequested ==
  /\ Serving
  /\ ~runtime.deactivating
  /\ runtime.switches < scope.switches
  /\ runtime' = [runtime EXCEPT !.deactivating = TRUE, !.switches = @ + 1]
  /\ UNCHANGED <<storeVars, policy, waiting, starter, tasks, conns, daemon,
                 scope, sends, dispatches, abandoned>>

\* HostWorkRuntime::deactivate, on request or after a policy change.
DeactivateRuntime ==
  /\ runtime.deactivating
  /\ IF runtime.role = "Control"
       THEN /\ runtime' = [runtime EXCEPT !.deactivating = FALSE]
            /\ UNCHANGED tasks
       ELSE /\ \E role \in {"Control", "Unavailable"} :
                 runtime' = [runtime EXCEPT !.role = role,
                                            !.deactivating = FALSE]
            /\ SessionsEnd
  /\ UNCHANGED <<storeVars, policy, waiting, starter, conns, daemon, scope,
                 sends, dispatches, abandoned>>

-----------------------------------------------------------------------------
(* HostWorkService::start. *)

PermitHeld ==
  \/ starter # None /\ starter.pc = "planned"
  \/ \E r \in Runs : tasks[r] # None /\ tasks[r].permit

\* Readiness and policy are read before the start lock is taken.
StartArrives(r) ==
  /\ Serving
  /\ waiting[r] = None
  /\ runtime.role = "Work"
  /\ policy.active
  /\ sends[r] < scope.sends
  /\ sends' = [sends EXCEPT ![r] = @ + 1]
  /\ waiting' = [waiting EXCEPT ![r] = policy.revision]
  /\ UNCHANGED <<storeVars, policy, runtime, starter, tasks, conns, daemon,
                 scope, dispatches, abandoned>>

\* Mutant: only a run with a task keeps its thread busy.
ThreadTasked(r) ==
  \E q \in Runs : ThreadOf[q] = ThreadOf[r] /\ Live(q) /\ tasks[q] # None

ThreadBusy(r) == \E q \in Runs : ThreadOf[q] = ThreadOf[r] /\ Live(q)

\* Under the lock: refuse a thread with a live run, otherwise create the run
\* or find the outcome of the same command.
StartCreates(r) ==
  /\ waiting[r] # None
  /\ starter = None
  /\ waiting' = [waiting EXCEPT ![r] = None]
  /\ IF ThreadBusy(r) \/ CreateWorkResult(r).state # "Queued"
       THEN /\ starter' = None
            /\ IF ThreadBusy(r) THEN UNCHANGED <<runs, commands>>
                                ELSE CreateWork(r)
       ELSE /\ CreateWork(r)
            /\ starter' = [run |-> r, pc |-> "queued", policy |-> waiting[r],
                           held |-> CreateWorkResult(r)]
  /\ UNCHANGED <<approvals, effects, policy, runtime, tasks, conns, daemon,
                 scope, sends, dispatches, abandoned>>

\* The one permit, then queued -> planning.
StartPlans ==
  /\ starter # None
  /\ starter.pc = "queued"
  /\ LET r == starter.run
         key == <<r, "planning">>
         result == TransitionResult(key, r, starter.held.revision, "Planning")
     IN IF PermitHeld
          THEN starter' = None /\ UNCHANGED <<runs, commands>>
          ELSE /\ Transition(key, r, starter.held.revision, "Planning")
               /\ starter' = IF result = None THEN None
                             ELSE [starter EXCEPT !.pc = "planned",
                                                  !.held = result]
  /\ UNCHANGED <<approvals, effects, policy, runtime, waiting, tasks, conns,
                 daemon, scope, sends, dispatches, abandoned>>

NewTask ==
  [pc |-> "opening", held |-> starter.held, policy |-> starter.policy,
   cancelled |-> FALSE, session |-> FALSE, permit |-> TRUE, then |-> "err"]

\* The user message is stored and the task registered and spawned, unless the
\* run already has one.
StartSpawns ==
  /\ starter # None
  /\ starter.pc = "planned"
  /\ starter' = None
  /\ tasks' = IF tasks[starter.run] # None THEN tasks
              ELSE [tasks EXCEPT ![starter.run] = NewTask]
  /\ UNCHANGED <<storeVars, policy, runtime, waiting, conns, daemon, scope,
                 sends, dispatches, abandoned>>

\* A store error, or the caller going away, ends the call where it is.
StartAborts ==
  /\ starter # None
  /\ starter' = None
  /\ UNCHANGED <<storeVars, policy, runtime, waiting, tasks, conns, daemon,
                 scope, sends, dispatches, abandoned>>

-----------------------------------------------------------------------------
(* HostWorkService::execute_reserved.  A task that must stop closes its     *)
(* bridge first and then does what "then" says.                             *)

TaskAt(r, pc) == tasks[r] # None /\ tasks[r].pc = pc

Goto(r, pc) == tasks' = [tasks EXCEPT ![r].pc = pc]

Closes(r, then) ==
  tasks' = [tasks EXCEPT ![r].pc = "closing", ![r].then = then]

TaskOnly == UNCHANGED <<approvals, effects, policy, runtime, waiting, starter,
                        conns, daemon, scope, sends, dispatches, abandoned>>

\* Roots and bridge ("err" on failure), then a session with the agent.
OpenSession(r) ==
  /\ TaskAt(r, "opening")
  /\ \/ /\ runtime.role = "Work"
        /\ tasks' = [tasks EXCEPT ![r].pc = "initializing",
                                  ![r].session = TRUE]
     \/ \E then \in {"err", "fail"} : Closes(r, then)
  /\ UNCHANGED <<runs, commands>>
  /\ TaskOnly

\* wait_until_initialized: the agent connects to the bridge, or does not.
Initialize(r) ==
  /\ TaskAt(r, "initializing")
  /\ \/ tasks[r].session /\ Goto(r, "initialized")
     \/ Closes(r, "fail")
  /\ UNCHANGED <<runs, commands>>
  /\ TaskOnly

\* planning -> running at the revision the start call wrote.
BeginRunning(r) ==
  /\ TaskAt(r, "initialized")
  /\ LET key == <<r, "running">>
         revision == tasks[r].held.revision
         result == TransitionResult(key, r, revision, "Running")
     IN /\ Transition(key, r, revision, "Running")
        /\ IF result = None
             THEN Closes(r, "err")
             ELSE tasks' = [tasks EXCEPT ![r].pc = "running",
                                         ![r].held = result]
  /\ TaskOnly

Prompt(r) ==
  /\ TaskAt(r, "running")
  /\ \/ /\ tasks[r].session
        /\ Goto(r, "streaming")
     \/ Closes(r, "fail")
  /\ UNCHANGED <<runs, commands>>
  /\ TaskOnly

\* The stream completes with an answer, or fails, ends early or overflows.
StreamEnds(r) ==
  /\ TaskAt(r, "streaming")
  /\ \/ tasks[r].session /\ Closes(r, "complete")
     \/ Closes(r, "fail")
  /\ UNCHANGED <<runs, commands>>
  /\ TaskOnly

\* Mutant: the token is ignored while an approval is open.
CancelSeenRunning(r) ==
  /\ TaskAt(r, "streaming")
  /\ tasks[r].cancelled
  /\ runs[r].state = "Running"
  /\ Closes(r, "cancel")
  /\ UNCHANGED <<runs, commands>>
  /\ TaskOnly

\* Only the stream loop looks at the cancellation token.
CancelSeen(r) ==
  /\ TaskAt(r, "streaming")
  /\ tasks[r].cancelled
  /\ Closes(r, "cancel")
  /\ UNCHANGED <<runs, commands>>
  /\ TaskOnly

\* HostToolBridge::shutdown waits for every connection.
BridgeCloses(r) ==
  /\ TaskAt(r, "closing")
  /\ \A c \in Conns : conns[c] # None => conns[c].intent[1] # r
  /\ tasks' = [tasks EXCEPT ![r].session = FALSE, ![r].pc =
       CASE tasks[r].then = "fail" -> "failing"
         [] tasks[r].then = "cancel" -> "cancelling"
         [] tasks[r].then = "complete" -> "replying"
         [] tasks[r].then = "err" -> "erred"]
  /\ UNCHANGED <<runs, commands>>
  /\ TaskOnly

\* fail_run uses the revision the task read when the run began.
FailRun(r) ==
  /\ TaskAt(r, "failing")
  /\ Transition(<<r, "failed">>, r, tasks[r].held.revision, "Failed")
  /\ Goto(r, "erred")
  /\ TaskOnly

\* The assistant message: the same key with another text is a conflict.
PersistReply(r) ==
  /\ TaskAt(r, "replying")
  /\ LET key == <<r, "assistant-message">> IN
     \/ \E reply \in scope.replies :
          \/ /\ commands[key] = None
             /\ Record(key, reply, reply)
             /\ Goto(r, "completing")
          \/ /\ commands[key] # None
             /\ UNCHANGED commands
             /\ Goto(r, IF commands[key].asked = reply THEN "completing"
                                                      ELSE "erred")
     \/ UNCHANGED commands /\ Goto(r, "erred")
  /\ UNCHANGED runs
  /\ TaskOnly

\* get_run before completed, cancelled and failed-current.  Cancelling and
\* failing leave a settled run alone; only an error path releases the permit
\* before its last write.
Reload(r) ==
  /\ \/ /\ TaskAt(r, "completing")
        /\ tasks' = [tasks EXCEPT ![r].pc = "complete",
                                  ![r].held = runs[r]]
     \/ /\ TaskAt(r, "cancelling")
        /\ tasks' = [tasks EXCEPT ![r].pc = IF Settled(r) THEN "erred"
                                            ELSE "cancel",
                                  ![r].held = runs[r]]
     \/ /\ TaskAt(r, "erred")
        /\ tasks' = IF Settled(r) THEN [tasks EXCEPT ![r] = None]
                    ELSE [tasks EXCEPT ![r].pc = "fail", ![r].permit = FALSE,
                                       ![r].held = runs[r]]
  /\ UNCHANGED <<runs, commands>>
  /\ TaskOnly

CompleteRun(r) ==
  /\ TaskAt(r, "complete")
  /\ LET key == <<r, "completed">>
         revision == tasks[r].held.revision
     IN /\ Transition(key, r, revision, "Completed")
        /\ IF TransitionResult(key, r, revision, "Completed") = None
             THEN Goto(r, "erred")
             ELSE tasks' = [tasks EXCEPT ![r] = None]
  /\ TaskOnly

\* cancel_current, then the error path of the spawned task.
CancelRun(r) ==
  /\ TaskAt(r, "cancel")
  /\ Transition(<<r, "cancelled">>, r, tasks[r].held.revision, "Cancelled")
  /\ Goto(r, "erred")
  /\ TaskOnly

\* fail_current: its error is ignored and the task is over either way.
FailCurrent(r) ==
  /\ TaskAt(r, "fail")
  /\ Transition(<<r, "failed-current">>, r, tasks[r].held.revision, "Failed")
  /\ tasks' = [tasks EXCEPT ![r] = None]
  /\ TaskOnly

TaskStep(r) ==
  \/ OpenSession(r) \/ Initialize(r) \/ BeginRunning(r) \/ Prompt(r)
  \/ CancelSeen(r) \/ BridgeCloses(r) \/ FailRun(r) \/ PersistReply(r)
  \/ Reload(r) \/ CompleteRun(r) \/ CancelRun(r) \/ FailCurrent(r)

\* HostWorkService::cancel: signal the task, or commit the cancellation of a
\* run no task owns, under one key for every such run.
CancelHostWork(r) ==
  /\ Serving
  /\ runs[r] # None
  /\ ~Settled(r)
  /\ IF tasks[r] # None
       THEN /\ ~tasks[r].cancelled
            /\ tasks' = [tasks EXCEPT ![r].cancelled = TRUE]
            /\ UNCHANGED <<runs, commands>>
       ELSE /\ Transition(<<Orphan, "cancelled">>, r, runs[r].revision,
                          "Cancelled")
            /\ UNCHANGED tasks
  /\ TaskOnly

-----------------------------------------------------------------------------
(* HostToolBridge: one mutating tool call on one connection.  Listing and   *)
(* reading write nothing and are left out.                                  *)

ConnAt(c, pc) == conns[c] # None /\ conns[c].pc = pc

Step(c, pc) == conns' = [conns EXCEPT ![c].pc = pc]

Ends(c) == conns' = [conns EXCEPT ![c] = None]

\* The bridge's token is a child of the task's, cancelled by either.
Cancelling(c) ==
  /\ conns[c] # None
  /\ LET task == tasks[conns[c].intent[1]]
     IN task.cancelled \/ task.pc = "closing"

PolicyBound(r) == policy.active /\ policy.revision = tasks[r].policy

ProcessesOf(r) == {c \in Conns : /\ conns[c] # None
                                 /\ conns[c].kind = "Process"
                                 /\ conns[c].intent[1] = r}

ConnOnly == UNCHANGED <<commands, policy, runtime, waiting, starter, tasks,
                        daemon, scope, sends>>

\* dispatch: the call is admitted while policy and run allow it, a process
\* call only into a free slot.
CallArrives(c, r, call, kind) ==
  /\ conns[c] = None
  /\ TaskAt(r, "streaming")
  /\ tasks[r].session
  /\ PolicyBound(r)
  /\ runs[r].state \in {"Planning", "AwaitingApproval", "Running"}
  /\ kind = "Process" => Cardinality(ProcessesOf(r)) < ProcessSlots
  /\ conns' = [conns EXCEPT ![c] =
                 [intent |-> <<r, call>>, kind |-> kind, pc |-> "asking",
                  run |-> 0, revision |-> 0]]
  /\ UNCHANGED <<runs, approvals, effects, dispatches, abandoned>>
  /\ ConnOnly

\* await_exact_approval reads the run ...
ReadForApproval(c) ==
  /\ ConnAt(c, "asking")
  /\ LET run == runs[conns[c].intent[1]] IN
     IF run.state # "Running" THEN Ends(c)
     ELSE conns' = [conns EXCEPT ![c].pc = "requesting",
                                 ![c].run = run.revision]
  /\ UNCHANGED <<runs, approvals, effects, dispatches, abandoned>>
  /\ ConnOnly

\* ... and asks at the revision it saw.
RequestApproval(c) ==
  /\ ConnAt(c, "requesting")
  /\ \E instant \in scope.instants :
       /\ Request(conns[c].intent, conns[c].run, instant)
       /\ IF RequestAnswered(conns[c].intent, conns[c].run, instant)
            THEN Step(c, "polling") ELSE Ends(c)
  /\ UNCHANGED <<effects, dispatches, abandoned>>
  /\ ConnOnly

PollApproval(c) ==
  /\ ConnAt(c, "polling")
  /\ LET status == approvals[conns[c].intent].status IN
     /\ status # "Pending"
     /\ IF status = "Granted" THEN Step(c, "revalidating") ELSE Ends(c)
  /\ UNCHANGED <<runs, approvals, effects, dispatches, abandoned>>
  /\ ConnOnly

\* A store error while polling, or the one close_pending_approval ignores:
\* the call is over and its approval stays open.
PollFails(c) ==
  /\ ConnAt(c, "polling") \/ ConnAt(c, "denying")
  /\ Ends(c)
  /\ abandoned' = abandoned \cup
       {i \in {conns[c].intent} : approvals[i].status = "Pending"}
  /\ UNCHANGED <<runs, approvals, effects, dispatches>>
  /\ ConnOnly

\* Cancellation or the deadline: close_pending_approval reads, then denies.
GiveUp(c) ==
  /\ ConnAt(c, "polling")
  /\ approvals[conns[c].intent].status = "Pending"
  /\ conns' = [conns EXCEPT ![c].pc = "denying",
                            ![c].run = runs[conns[c].intent[1]].revision,
                            ![c].revision = approvals[conns[c].intent].revision]
  /\ UNCHANGED <<runs, approvals, effects, dispatches, abandoned>>
  /\ ConnOnly

CloseApproval(c) ==
  /\ ConnAt(c, "denying")
  /\ \E late \in BOOLEAN :
       Decide(conns[c].intent, conns[c].revision, conns[c].run, "Deny", late)
  /\ Ends(c)
  /\ UNCHANGED <<effects, dispatches, abandoned>>
  /\ ConnOnly

\* revalidate_bound
Revalidate(c) ==
  /\ ConnAt(c, "revalidating")
  /\ LET r == conns[c].intent[1] IN
     IF PolicyBound(r) /\ runs[r].state = "Running"
       THEN Step(c, "preparing") ELSE Ends(c)
  /\ UNCHANGED <<runs, approvals, effects, dispatches, abandoned>>
  /\ ConnOnly

\* prepare_with_id looks at the run and inserts in two steps.
CheckRunning(c) ==
  /\ ConnAt(c, "preparing")
  /\ IF runs[conns[c].intent[1]].state = "Running"
       THEN Step(c, "inserting") ELSE Ends(c)
  /\ UNCHANGED <<runs, approvals, effects, dispatches, abandoned>>
  /\ ConnOnly

\* prepare_effect: a known identity is resumed only when it was never started.
PrepareEffect(c) ==
  /\ ConnAt(c, "inserting")
  /\ LET i == conns[c].intent
         effect == effects[i]
         Resumes(pc) == conns' = [conns EXCEPT ![c].pc = pc,
                                               ![c].revision = effect.revision]
     IN \/ /\ effect = None
           /\ CreateEffect(i, conns[c].kind)
           /\ conns' = [conns EXCEPT ![c].pc = "starting", ![c].revision = 0]
        \/ /\ effect # None
           /\ UNCHANGED effects
           /\ CASE effect.kind # conns[c].kind -> Ends(c)
                [] effect.kind = conns[c].kind ->
                     \/ effect.state = "Prepared" /\ Resumes("starting")
                     \/ effect.state = "Executing" /\ Resumes("uncertain")
                     \/ /\ effect.state \notin {"Prepared", "Executing"}
                        /\ Ends(c)
  /\ UNCHANGED <<runs, approvals, dispatches, abandoned>>
  /\ ConnOnly

\* Mutant: the tool runs although the effect could not be started.
StartUnchecked(c) ==
  /\ ConnAt(c, "starting")
  /\ LET i == conns[c].intent IN
     /\ SaveEffect(i, conns[c].revision, "Executing")
     /\ dispatches' = [dispatches EXCEPT ![i] = @ + 1]
     /\ conns' = [conns EXCEPT ![c].pc = "executing", ![c].revision = @ + 1]
  /\ UNCHANGED <<runs, approvals, abandoned>>
  /\ ConnOnly

\* The effect is executing before the host is touched.
StartEffect(c) ==
  /\ ConnAt(c, "starting")
  /\ LET i == conns[c].intent IN
     /\ SaveEffect(i, conns[c].revision, "Executing")
     /\ IF EffectAccepts(i, conns[c].revision, "Executing")
          THEN /\ dispatches' = [dispatches EXCEPT ![i] = @ + 1]
               /\ conns' = [conns EXCEPT ![c].pc = "executing",
                                         ![c].revision = @ + 1]
          ELSE UNCHANGED dispatches /\ Ends(c)
  /\ UNCHANGED <<runs, approvals, abandoned>>
  /\ ConnOnly

\* A known result; when it cannot be saved the outcome is uncertain.
FinishEffect(c) ==
  /\ ConnAt(c, "executing")
  /\ \E result \in {"Succeeded", "Failed"} :
       LET i == conns[c].intent IN
       /\ SaveEffect(i, conns[c].revision, result)
       /\ IF EffectAccepts(i, conns[c].revision, result)
            THEN Ends(c) ELSE Step(c, "uncertain")
  /\ UNCHANGED <<runs, approvals, dispatches, abandoned>>
  /\ ConnOnly

\* Cancellation, or a process that runs out of its time.
LoseEffect(c) ==
  /\ ConnAt(c, "executing")
  /\ Cancelling(c) \/ conns[c].kind = "Process"
  /\ Step(c, "uncertain")
  /\ UNCHANGED <<runs, approvals, effects, dispatches, abandoned>>
  /\ ConnOnly

\* SideEffectService::interrupt reads effect and run ...
ReadForInterrupt(c) ==
  /\ ConnAt(c, "uncertain")
  /\ LET i == conns[c].intent IN
     conns' = [conns EXCEPT ![c].pc = "interrupting",
                 ![c].run = runs[i[1]].revision,
                 ![c].revision = effects[i].revision]
  /\ UNCHANGED <<runs, approvals, effects, dispatches, abandoned>>
  /\ ConnOnly

\* ... and writes both; the bridge ignores a failure.
InterruptEffect(c) ==
  /\ ConnAt(c, "interrupting")
  /\ Interrupt(conns[c].intent, conns[c].revision, conns[c].run)
  /\ Ends(c)
  /\ UNCHANGED <<approvals, dispatches, abandoned>>
  /\ ConnOnly

ConnStep(c) ==
  \/ ReadForApproval(c) \/ RequestApproval(c) \/ PollApproval(c)
  \/ CloseApproval(c) \/ Revalidate(c) \/ CheckRunning(c)
  \/ PrepareEffect(c) \/ StartEffect(c) \/ FinishEffect(c)
  \/ ReadForInterrupt(c) \/ InterruptEffect(c)

\* decide_approval: the user answers.  A stale answer changes nothing.
DecideApproval(i, decision, late) ==
  /\ Serving
  /\ approvals[i] # None
  /\ DecideAccepted(i, approvals[i].revision, runs[i[1]].revision,
                    DecidedStatus(decision, late))
  /\ Decide(i, approvals[i].revision, runs[i[1]].revision, decision, late)
  /\ UNCHANGED <<effects, hostVars, commands>>

-----------------------------------------------------------------------------
(* Crash and recover_host_work.  Nothing is served until recovery is done,  *)
(* and an error in it ends the process, to be started again.                *)

Crash ==
  /\ scope.crashes > 0
  /\ daemon.phase # "stopped"
  /\ scope' = [scope EXCEPT !.crashes = @ - 1]
  /\ daemon' = [phase |-> "stopped", closing |-> None]
  /\ runtime' = [runtime EXCEPT !.role = "Control", !.authenticated = FALSE,
                               !.preparing = FALSE, !.deactivating = FALSE]
  /\ waiting' = [r \in Runs |-> None]
  /\ starter' = None
  /\ tasks' = [r \in Runs |-> None]
  /\ conns' = [c \in Conns |-> None]
  /\ UNCHANGED <<storeVars, policy, sends, dispatches, abandoned>>

RecoveryOnly == UNCHANGED <<approvals, policy, runtime, waiting, starter,
                            tasks, conns, scope, sends, dispatches, abandoned>>

Phase(next) == daemon' = [daemon EXCEPT !.phase = next]

\* Mutant: a paused run is not listed.
RecoverableUnpaused == {r \in Runs : Live(r) /\ runs[r].state # "Paused"}

\* list_recoverable_host_effects and list_recoverable_host_runs
RecoverableEffects ==
  {i \in Intents : effects[i] # None
                     /\ effects[i].state \in {"Prepared", "Executing"}}
RecoverableRuns == {r \in Runs : Live(r)}

Restart ==
  /\ daemon.phase = "stopped"
  /\ Phase(IF Cardinality(RecoverableEffects) > RecoveryBatch
             THEN "stopped" ELSE "effects")
  /\ UNCHANGED <<runs, commands, effects>>
  /\ RecoveryOnly

\* An executing effect was across the boundary: review, never replay.
RecoverExecuting(i) ==
  /\ daemon.phase = "effects"
  /\ daemon.closing = None
  /\ effects[i] # None
  /\ effects[i].state = "Executing"
  /\ LET effect == effects[i].revision
         run == runs[i[1]].revision
     IN /\ Interrupt(i, effect, run)
        /\ IF InterruptAccepted(i, effect, run)
             THEN UNCHANGED daemon ELSE Phase("stopped")
  /\ UNCHANGED commands
  /\ RecoveryOnly

\* A prepared effect never left the daemon: start it and fail it.
RecoverPrepared(i) ==
  /\ daemon.phase = "effects"
  /\ daemon.closing = None
  /\ effects[i] # None
  /\ effects[i].state = "Prepared"
  /\ SaveEffect(i, effects[i].revision, "Executing")
  /\ daemon' = [daemon EXCEPT !.closing = i]
  /\ UNCHANGED <<runs, commands>>
  /\ RecoveryOnly

CloseNeverDispatched ==
  /\ daemon.closing # None
  /\ SaveEffect(daemon.closing, effects[daemon.closing].revision, "Failed")
  /\ daemon' = [daemon EXCEPT !.closing = None]
  /\ UNCHANGED <<runs, commands>>
  /\ RecoveryOnly

EffectsRecovered ==
  /\ daemon.phase = "effects"
  /\ daemon.closing = None
  /\ RecoverableEffects = {}
  /\ Phase(IF Cardinality(RecoverableRuns) > RecoveryBatch
             THEN "stopped" ELSE "runs")
  /\ UNCHANGED <<runs, commands, effects>>
  /\ RecoveryOnly

RecoverRun(r) ==
  /\ daemon.phase = "runs"
  /\ Live(r)
  /\ ~Settled(r)
  /\ LET key == <<r, "recovery">>
         next == IF runs[r].state = "Queued" THEN "Cancelled" ELSE "Failed"
         result == TransitionResult(key, r, runs[r].revision, next)
     IN /\ Transition(key, r, runs[r].revision, next)
        /\ IF result = None THEN Phase("stopped") ELSE UNCHANGED daemon
  /\ UNCHANGED effects
  /\ RecoveryOnly

RunsRecovered ==
  /\ daemon.phase = "runs"
  /\ \A r \in RecoverableRuns : Settled(r)
  /\ Phase("serving")
  /\ UNCHANGED <<runs, commands, effects>>
  /\ RecoveryOnly

Recovery ==
  \/ Restart \/ EffectsRecovered \/ CloseNeverDispatched \/ RunsRecovered
  \/ \E i \in Intents : RecoverExecuting(i) \/ RecoverPrepared(i)
  \/ \E r \in Runs : RecoverRun(r)

-----------------------------------------------------------------------------
Commands ==
  \/ EnrollHostExecution \/ RevokeHostExecution
  \/ AuthenticateRuntime \/ PrepareReads \/ DeactivateRequested
  \/ \E r \in scope.runs : StartArrives(r) \/ CancelHostWork(r)
  \/ \E i \in Intents, decision \in {"Grant", "Deny"}, late \in BOOLEAN :
       DecideApproval(i, decision, late)

StartStep ==
  \/ \E r \in Runs : StartCreates(r)
  \/ StartPlans \/ StartSpawns

AgentCalls ==
  \E c \in scope.conns, r \in Runs, call \in scope.calls, kind \in scope.kinds :
    CallArrives(c, r, call, kind)

Next ==
  \/ Commands
  \/ PrepareRuntime \/ DeactivateRuntime
  \/ StartStep
  \/ StartAborts
  \/ \E r \in Runs : TaskStep(r) \/ StreamEnds(r)
  \/ AgentCalls
  \/ \E c \in Conns :
       ConnStep(c) \/ PollFails(c) \/ GiveUp(c) \/ LoseEffect(c)
  \/ Crash
  \/ Recovery

Spec == HostInit /\ [][Next]_vars

\* The scheduler runs every call, task, connection and startup step that can
\* run, a cancelled connection notices, and a stream ends when the agent
\* process does.  Nothing is assumed of users or of a living agent.
Fairness ==
  /\ WF_vars(StartStep)
  /\ WF_vars(DeactivateRuntime)
  /\ \A r \in Runs :
       /\ WF_vars(TaskStep(r))
       /\ WF_vars(tasks[r] # None /\ ~tasks[r].session /\ StreamEnds(r))
  /\ \A c \in Conns :
       /\ WF_vars(ConnStep(c))
       /\ WF_vars(Cancelling(c) /\ (GiveUp(c) \/ LoseEffect(c)))
  /\ WF_vars(Recovery)

FairSpec == Spec /\ Fairness

-----------------------------------------------------------------------------
(* Properties. *)

StoreTypes ==
  /\ runs \in [Runs -> {None} \cup RunRecords]
  /\ commands = [k \in CommandKeys |-> commands[k]]
  /\ approvals \in [Intents -> {None} \cup ApprovalRecords]
  /\ effects \in [Intents -> {None} \cup EffectRecords]
  /\ dispatches \in [Intents -> Nat] /\ abandoned \in SUBSET Intents

HostTypes ==
  /\ policy \in [revision : Nat, active : BOOLEAN]
  /\ runtime \in [role : {"Control", "Work", "Unavailable"}, authenticated : BOOLEAN,
                  preparing : BOOLEAN, deactivating : BOOLEAN, switches : Nat]
  /\ waiting \in [Runs -> {None} \cup Nat]
  /\ starter \in {None} \cup StarterRecords
  /\ tasks \in [Runs -> {None} \cup TaskRecords]
  /\ conns \in [Conns -> {None} \cup ConnRecords]
  /\ daemon \in [phase : {"stopped", "effects", "runs", "serving"},
                 closing : {None} \cup Intents]
  /\ scope \in ScopeRecords /\ sends \in [Runs -> Nat]

TypeOK == StoreTypes /\ HostTypes

\* A tool call reaches the host at most once, although two connections may
\* serve the same identity, a replayed start runs the agent again and a crash
\* may fall anywhere: prepare_effect and SideEffectService::start admit one.
DispatchedOnce == \A i \in Intents : dispatches[i] <= 1

\* What reached the host was granted for exactly that intent, and the grant
\* is still what the approval says (await_exact_approval, Approval::decide).
DispatchGranted ==
  \A i \in Intents : dispatches[i] > 0 =>
    approvals[i] # None /\ approvals[i].status = "Granted"

\* A thread has at most one run that is not terminal, a run under review
\* included, whatever start calls overlap (HostWorkService::start).
OneLiveRun ==
  \A q, r \in Runs :
    q # r /\ ThreadOf[q] = ThreadOf[r] => ~(Live(q) /\ Live(r))

\* A run that awaits approval has an approval a user can still decide: a
\* denied or expired checkpoint does not strand its run.
AwaitingHasPending ==
  \A r \in Runs : runs[r] # None /\ runs[r].state = "AwaitingApproval" =>
    \E call \in Calls : /\ approvals[<<r, call>>] # None
                        /\ approvals[<<r, call>>].status = "Pending"

\* An approval stays open only on a run that waits for it, went under review
\* or failed, or behind a cancelled run whose call lost its store: the bridge
\* closes the others it polls before the task commits the cancellation.  A
\* run at work, paused or completed has none, and no run has two.
OpenApprovalsExplained ==
  \A i \in Intents :
    approvals[i] # None /\ approvals[i].status = "Pending" =>
      /\ \/ runs[i[1]].state \in {"AwaitingApproval", "InterruptedNeedsReview", "Failed"}
         \/ runs[i[1]].state = "Cancelled" /\ i \in abandoned
      /\ \A call \in Calls \ {i[2]} :
           LET other == approvals[<<i[1], call>>] IN
           other = None \/ other.status # "Pending"

\* Approvals and runs agree, whoever decides, cancels, expires or loses its
\* store meanwhile: a run that awaits has the one approval that releases it,
\* and no approval is open behind a run that went on.  An approval left open
\* on a run under review is allowed, and granting it puts that run back to
\* work although it has no task.
ApprovalsMatchRuns ==
  TypeOK /\ AwaitingHasPending /\ OpenApprovalsExplained

\* An executing effect that recovery cannot send to review, because its run is
\* under review already or has ended (RunState::permits)
Blocking(i) ==
  effects[i] # None /\ effects[i].state = "Executing" /\ Settled(i[1])

\* Recovery settles every effect and run before the daemon serves, also after
\* a crash in the middle of an earlier recovery, and the only thing that can
\* end a startup is a blocking effect: no prepared effect, no run and no
\* recovery command already recorded ever does (recover_host_work).
StartupSettles ==
  [][/\ ~Serving /\ Serving' =>
          /\ \A i \in Intents : effects[i] = None
               \/ effects[i].state \in {"Succeeded", "Failed", "NeedsReview"}
          /\ \A r \in Runs : runs[r] = None \/ Settled(r)
     /\ daemon.phase \in {"effects", "runs"} /\ daemon'.phase = "stopped"
          => scope'.crashes < scope.crashes \/ \E i \in Intents : Blocking(i)
    ]_vars

\* An effect that was executing when the daemon stopped ends up under review
\* once the daemon is started again (recover_host_work).
UncertainRecovered ==
  \A i \in Intents :
    (daemon.phase = "stopped" /\ effects[i] # None /\ effects[i].state = "Executing")
      ~> (effects[i] # None /\ effects[i].state = "NeedsReview")

\* An approval that a lost call left open and that a user decided after all
DecidedAfterLoss(r) ==
  \E call \in Calls : <<r, call>> \in abandoned /\ approvals[<<r, call>>].status # "Pending"

\* A task that is cancelled, or whose session is stopped because the policy
\* was replaced, ends, and its run is then terminal or under review, whatever
\* its connections and pending approvals were doing (cancel, deactivate);
\* only deciding an approval that a store error left open can defeat the last
\* write of the task, whose failure fail_current ignores.
TurnsEnd ==
  \A r \in Runs :
    (tasks[r] # None /\ (tasks[r].cancelled \/ (runtime.deactivating /\ tasks[r].session)))
      ~> (tasks[r] = None /\ runs[r] # None /\ (Settled(r) \/ DecidedAfterLoss(r)))
=============================================================================
