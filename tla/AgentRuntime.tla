---------------------------- MODULE AgentRuntime ----------------------------
(***************************************************************************)
(* One ACP runtime: the agent's process, the actor that owns the           *)
(* connection to it, the callers that send the actor commands, the streams *)
(* of events of their prompts, and the permission requests of the agent.   *)
(*                                                                         *)
(* The connection handles what the agent writes one message at a time, in  *)
(* order; a handler that waits for room in a stream holds up what follows. *)
(* A caller that waited too long is gone, its command is not.  A command   *)
(* is known by the number of its call; 0 is the Shutdown sent by a handle  *)
(* that is dropped.                                                        *)
(***************************************************************************)
EXTENDS Sequences, FiniteSets, SequencesExt, Absence

CONSTANTS Sessions,
          CommandCapacity, EventCapacity, HostCapacity,   \* of the three channels
          Scenarios    \* the configuration, the calls made and how much goes wrong

VARIABLES process,     \* [running, exit]: the child, and what its monitor has seen
          actor,       \* [phase, starter, command, drain]
          queue,       \* the commands sent to the actor
          calls,       \* the calls made: [by, op, session, existing, tools, stage, answer]
          streams,     \* the events of each call: [receiver, buffer, history]
          tables,      \* [sessions, senders, tokens, cancelled]
          agent,       \* the process outside: [pending, prompts, opened, wire]
          permissions, \* [tasks, channel]
          left         \* what the scenario still allows

vars == <<process, actor, queue, calls, streams, tables, agent, permissions, left>>

NoneOf == [s \in Sessions |-> 0]

\* Not started; or started, with the sessions opened before.
Init ==
  /\ left \in Scenarios
  /\ process = [running |-> left.open # {}, exit |-> FALSE]
  /\ actor = [phase |-> IF left.open = {} THEN "off" ELSE "ready",
              starter |-> IF left.open = {} THEN "idle" ELSE "started",
              command |-> 0, drain |-> <<>>]
  /\ queue = <<>> /\ calls = <<>> /\ streams = <<>>
  /\ tables = [sessions |-> left.open, senders |-> NoneOf, tokens |-> NoneOf, cancelled |-> {}]
  /\ agent = [pending |-> {}, prompts |-> {}, opened |-> left.open, wire |-> <<>>]
  /\ permissions = [tasks |-> <<>>, channel |-> <<>>]

Spend(what) == left[what] > 0 /\ left' = [left EXCEPT ![what] = @ - 1]

-----------------------------------------------------------------------------
(* Streams.  The receiver is made with the call and dropped when the call   *)
(* fails or its consumer has had enough; a send to it then returns at once. *)

Event(kind, n) == [kind |-> kind, of |-> n]
Terminal(event) == event.kind # "update"

Held(n) == streams[n].receiver = "held"
Room(n) == Held(n) => Len(streams[n].buffer) < EventCapacity

Sent(n, event) ==
  IF ~Held(n) THEN streams
  ELSE [streams EXCEPT ![n].buffer = Append(@, event), ![n].history = Append(@, event)]

Dropped(n) == [streams EXCEPT ![n].receiver = "dropped", ![n].buffer = <<>>]

\* The stream is the caller's once the prompt is accepted.
Read(n) ==
  /\ Held(n) /\ calls[n].answer = "ok" /\ streams[n].buffer # <<>>
  /\ streams' = [streams EXCEPT ![n].buffer = Tail(@)]
  /\ UNCHANGED <<process, actor, queue, calls, tables, agent, permissions, left>>

DropStream(n) ==
  /\ Held(n) /\ calls[n].answer = "ok"
  /\ Spend("drops")
  /\ streams' = Dropped(n)
  /\ UNCHANGED <<process, actor, queue, calls, tables, agent, permissions>>

-----------------------------------------------------------------------------
(* The end of the connection: the commands that wait are dropped with it,   *)
(* and so are the permission tasks; the prompts in progress are told.       *)

Active == {tables.senders[s] : s \in Sessions} \ {0}

Abandoned(task) ==
  IF task.stage = "answered" THEN task ELSE [task EXCEPT !.stage = "dropped"]

Disconnect(starter) ==
  /\ \E order \in SetToSeqs(Active) :
       actor' = [phase |-> "draining", starter |-> starter, command |-> 0, drain |-> order]
  /\ queue' = <<>>
  /\ agent' = [agent EXCEPT !.wire = <<>>, !.pending = {}]
  /\ permissions' = [permissions EXCEPT
       !.tasks = [i \in DOMAIN @ |-> Abandoned(@[i])]]

NoSenders == [tables EXCEPT !.senders = NoneOf]


\* The streams hear of it one after the other, each as soon as it has room.
Drain ==
  /\ actor.phase = "draining" /\ actor.drain # <<>>
  /\ Room(Head(actor.drain))
  /\ actor' = [actor EXCEPT !.drain = Tail(@)]
  /\ streams' = Sent(Head(actor.drain), Event("closed", Head(actor.drain)))
  /\ UNCHANGED <<process, queue, calls, tables, agent, permissions, left>>

\* Only then the runtime is closed and the process killed.
Close ==
  /\ actor.phase = "draining" /\ actor.drain = <<>>
  /\ actor' = [actor EXCEPT !.phase = "stopped"]
  /\ process' = [process EXCEPT !.running = FALSE]
  /\ UNCHANGED <<queue, calls, streams, tables, agent, permissions, left>>

-----------------------------------------------------------------------------
(* Starting.  The boundary says what the runtime is for: authentication     *)
(* ("control"), sessions through the Host Tools ("work"), or sessions in an  *)
(* isolated guest ("guest").                                                *)

RootsFit(boundary, rooted) ==
  CASE boundary = "control" -> ~rooted
    [] boundary = "work" -> rooted
    [] boundary = "guest" -> TRUE

Start ==
  /\ actor.phase = "off" /\ actor.starter = "idle"
  /\ IF RootsFit(left.boundary, left.rooted)
     THEN /\ process' = [process EXCEPT !.running = TRUE]
          /\ actor' = [actor EXCEPT !.phase = "initializing", !.starter = "waiting"]
     ELSE actor' = [actor EXCEPT !.starter = "failed"] /\ UNCHANGED process
  /\ UNCHANGED <<queue, calls, streams, tables, agent, permissions, left>>

StartTimesOut ==
  /\ actor.phase = "initializing" /\ actor.starter = "waiting"
  /\ actor' = [actor EXCEPT !.starter = "failed"]
  /\ UNCHANGED <<process, queue, calls, streams, tables, agent, permissions, left>>

\* The agent speaks ACP v1.  Nobody may be waiting for it any more.
Initialized ==
  /\ actor.phase = "initializing" /\ process.running
  /\ \/ /\ actor.starter = "waiting"
        /\ actor' = [actor EXCEPT !.phase = "ready", !.starter = "started"]
        /\ UNCHANGED <<queue, agent, permissions>>
     \/ /\ actor.starter = "failed"
        /\ Disconnect("failed")
  /\ UNCHANGED <<process, calls, streams, tables, left>>

\* It speaks another version, does not answer in time, or is gone.
InitializeFails ==
  /\ actor.phase = "initializing"
  /\ Disconnect("failed")
  /\ UNCHANGED <<process, calls, streams, tables, left>>

-----------------------------------------------------------------------------
(* Calls. *)

InFlight(n) == calls[n].stage # "answered"
Idle(r) == \A n \in DOMAIN calls : calls[n].by = r => ~InFlight(n)

\* What the caller is refused at once: sessions in a control runtime, and
\* Host Tools outside the boundary they belong to.
Accepted(q) ==
  /\ q.op \in {"open", "prompt", "cancel"} => left.boundary # "control"
  /\ q.op = "open" => q.tools = (left.boundary = "work")

\* ensure_open; a Shutdown does not ask.
Refusal(q) ==
  IF ~Accepted(q) THEN "refused"
  ELSE IF q.op # "shutdown" /\ actor.phase = "stopped" THEN "closed"
  ELSE "none"

Call(r) ==
  /\ actor.starter = "started" /\ Idle(r) /\ left.calls[r] # <<>>
  /\ left' = [left EXCEPT !.calls[r] = Tail(@)]
  /\ LET q == Head(left.calls[r]) IN
       /\ calls' = Append(calls,
            [by |-> r, op |-> q.op, session |-> q.session, existing |-> q.existing,
             tools |-> q.tools, answer |-> Refusal(q),
             stage |-> IF Refusal(q) = "none" THEN "sending" ELSE "answered"])
       /\ streams' = Append(streams,
            [receiver |-> IF q.op = "prompt" /\ Refusal(q) = "none" THEN "held" ELSE "dropped",
             buffer |-> <<>>, history |-> <<>>])
  /\ UNCHANGED <<process, actor, queue, tables, agent, permissions>>

Listening == actor.phase \in {"initializing", "ready", "busy"}

Enqueue(n) ==
  /\ calls[n].stage = "sending" /\ Listening /\ Len(queue) < CommandCapacity
  /\ queue' = Append(queue, n)
  /\ calls' = [calls EXCEPT ![n].stage = "waiting"]
  /\ UNCHANGED <<process, actor, streams, tables, agent, permissions, left>>

\* The caller returns with a failure: the stream it would have read is gone.
Fails(n, answer) ==
  /\ calls' = [calls EXCEPT ![n].stage = "answered", ![n].answer = answer]
  /\ streams' = Dropped(n)

\* A deadline passed, before or after the command was sent.
GiveUp(n) ==
  /\ InFlight(n) /\ calls[n].op # "shutdown"
  /\ Fails(n, "late")
  /\ UNCHANGED <<process, actor, queue, tables, agent, permissions, left>>

\* The actor is gone, and with it the command or the channel to send it on.
CallClosed(n) ==
  /\ InFlight(n) /\ ~Listening
  /\ calls[n].op = "shutdown" => calls[n].stage = "sending"
  /\ Fails(n, "closed")
  /\ UNCHANGED <<process, actor, queue, tables, agent, permissions, left>>

\* A Shutdown that was sent kills the process, answered or not.
ShutdownReturns(n) ==
  /\ calls[n].op = "shutdown" /\ calls[n].stage = "waiting"
  /\ calls' = [calls EXCEPT ![n].stage = "answered", ![n].answer = "ok"]
  /\ process' = [process EXCEPT !.running = FALSE]
  /\ UNCHANGED <<actor, queue, streams, tables, agent, permissions, left>>

\* The last handle is dropped: Shutdown if there is room for it, and kill.
DropHandle ==
  /\ actor.starter = "started" /\ \A n \in DOMAIN calls : ~InFlight(n)
  /\ Spend("handles")
  /\ actor' = [actor EXCEPT !.starter = "dropped"]
  /\ queue' = IF Listening /\ Len(queue) < CommandCapacity THEN Append(queue, 0) ELSE queue
  /\ process' = [process EXCEPT !.running = FALSE]
  /\ UNCHANGED <<calls, streams, tables, agent, permissions>>

-----------------------------------------------------------------------------
(* The actor takes one command at a time.  It waits itself for the answer to *)
(* an authentication or a session; a prompt goes on beside it.              *)

\* The answer reaches the caller if it still waits.
Reply(n, answer) ==
  IF calls[n].stage # "waiting" THEN UNCHANGED <<calls, streams>>
  ELSE IF answer = "ok"
  THEN /\ calls' = [calls EXCEPT ![n].stage = "answered", ![n].answer = "ok"]
       /\ UNCHANGED streams
  ELSE Fails(n, answer)

Takes(n, op) ==
  /\ actor.phase = "ready" /\ queue # <<>> /\ Head(queue) = n
  /\ n # 0 /\ calls[n].op = op

\* A session that is loaded keeps its bindings, and the agent must be able to.
Loadable(n) == calls[n].existing => ~calls[n].tools /\ left.loads

RequestSent(n) ==
  /\ \/ Takes(n, "authenticate")
     \/ Takes(n, "open") /\ Loadable(n)
  /\ queue' = Tail(queue)
  /\ actor' = [actor EXCEPT !.phase = "busy", !.command = n]
  /\ agent' = [agent EXCEPT !.pending = @ \cup {n}]
  /\ UNCHANGED <<process, calls, streams, tables, permissions, left>>

OpenRefused(n) ==
  /\ Takes(n, "open") /\ ~Loadable(n)
  /\ queue' = Tail(queue)
  /\ Reply(n, "refused")
  /\ UNCHANGED <<process, actor, tables, agent, permissions, left>>

RequestTimesOut ==
  /\ actor.phase = "busy"
  /\ actor' = [actor EXCEPT !.phase = "ready", !.command = 0]
  /\ Reply(actor.command, "failed")
  /\ UNCHANGED <<process, queue, tables, agent, permissions, left>>

\* A prompt needs a session of this runtime that has no prompt in progress.
PromptFits(n) ==
  /\ calls[n].session \in tables.sessions
  /\ tables.senders[calls[n].session] = 0

PromptSent(n) ==
  /\ Takes(n, "prompt") /\ PromptFits(n)
  /\ queue' = Tail(queue)
  /\ tables' = [tables EXCEPT !.senders[calls[n].session] = n, !.tokens[calls[n].session] = n]
  /\ agent' = [agent EXCEPT !.prompts = @ \cup {n}]
  /\ Reply(n, "ok")
  /\ UNCHANGED <<process, actor, permissions, left>>

PromptRefused(n) ==
  /\ Takes(n, "prompt") /\ ~PromptFits(n)
  /\ queue' = Tail(queue)
  /\ Reply(n, "refused")
  /\ UNCHANGED <<process, actor, tables, agent, permissions, left>>

\* The connection can no longer send: the prompt is taken back, the actor ends.
PromptUnsent(n) ==
  /\ Takes(n, "prompt") /\ PromptFits(n) /\ ~process.running
  /\ Reply(n, "failed")
  /\ Disconnect(actor.starter)
  /\ tables' = NoSenders
  /\ UNCHANGED <<process, left>>

CancelSent(n) ==
  /\ Takes(n, "cancel")
  /\ queue' = Tail(queue)
  /\ IF calls[n].session \in tables.sessions
     THEN /\ tables' = [tables EXCEPT !.cancelled = @ \cup ({tables.tokens[calls[n].session]} \ {0})]
          /\ Reply(n, "ok") \/ (~process.running /\ Reply(n, "failed"))
     ELSE Reply(n, "refused") /\ UNCHANGED tables
  /\ UNCHANGED <<process, actor, agent, permissions, left>>

\* Shutdown, of a caller or of a dropped handle; or no handle and no command.
ShutsDown ==
  \/ queue # <<>> /\ Head(queue) = 0
  \/ queue # <<>> /\ Head(queue) # 0 /\ calls[Head(queue)].op = "shutdown"
  \/ queue = <<>> /\ actor.starter = "dropped"

Shutdown ==
  /\ actor.phase = "ready" /\ ShutsDown
  /\ tables' = [NoSenders EXCEPT
       !.cancelled = IF queue = <<>> THEN @
                     ELSE @ \cup ({tables.tokens[s] : s \in Sessions} \ {0})]
  /\ Disconnect(actor.starter)
  /\ UNCHANGED <<process, calls, streams, left>>

\* Commands come before the news that the process has exited.
ExitSeen ==
  /\ actor.phase = "ready" /\ queue = <<>> /\ process.exit
  /\ Disconnect(actor.starter)
  /\ tables' = NoSenders
  /\ UNCHANGED <<process, calls, streams, left>>

\* The process has exited, and all it wrote is read.
ConnectionLost ==
  /\ actor.phase \in {"ready", "busy"} /\ ~process.running /\ agent.wire = <<>>
  /\ Disconnect(actor.starter)
  /\ tables' = NoSenders
  /\ UNCHANGED <<process, calls, streams, left>>

\* spawn_process_monitor looks every 50 ms.
ExitNoticed ==
  /\ actor.phase # "off" /\ ~process.running /\ ~process.exit
  /\ process' = [process EXCEPT !.exit = TRUE]
  /\ UNCHANGED <<actor, queue, calls, streams, tables, agent, permissions, left>>

-----------------------------------------------------------------------------
(* What the connection receives. *)

Receives(kind) ==
  /\ actor.phase \in {"ready", "busy"} /\ agent.wire # <<>>
  /\ Head(agent.wire).kind = kind
Message == Head(agent.wire)
Rest == [agent EXCEPT !.wire = Tail(@)]

\* An update goes to the prompt in progress of its session.
Update ==
  /\ Receives("update")
  /\ LET n == tables.senders[Message.session] IN
       IF n = 0 THEN UNCHANGED streams
       ELSE Room(n) /\ streams' = Sent(n, Event("update", Message.of))
  /\ agent' = Rest
  /\ UNCHANGED <<process, actor, queue, calls, tables, permissions, left>>

\* The result of a prompt ends its stream, and then leaves the tables: nobody
\* holds their locks across an await, so nothing comes in between.
PromptEnded ==
  /\ Receives("result") /\ Room(Message.of)
  /\ streams' = Sent(Message.of, Event(Message.result, Message.of))
  /\ tables' = [tables EXCEPT !.senders[Message.session] = 0, !.tokens[Message.session] = 0]
  /\ agent' = Rest
  /\ UNCHANGED <<process, actor, queue, calls, permissions, left>>

\* The answer the actor waits for, or one that comes too late.
Answered ==
  /\ Receives("reply")
  /\ agent' = Rest
  /\ IF actor.command # Message.of THEN UNCHANGED <<actor, calls, streams, tables>>
     ELSE /\ actor' = [actor EXCEPT !.phase = "ready", !.command = 0]
          /\ tables' = [tables EXCEPT !.sessions = @ \cup Message.opened]
          /\ Reply(Message.of, Message.result)
  /\ UNCHANGED <<process, queue, permissions, left>>

\* A line that is not ACP, or longer than the reader allows.
Malformed ==
  /\ Receives("malformed")
  /\ Disconnect(actor.starter)
  /\ tables' = NoSenders
  /\ UNCHANGED <<process, calls, streams, left>>

\* A permission request is decided in a task of its own, which holds the
\* token of the prompt that was then in progress.
PermissionRequested ==
  /\ Receives("permission")
  /\ permissions' = [permissions EXCEPT !.tasks = Append(@,
       [token |-> tables.tokens[Message.session], about |-> Message.about,
        stage |-> "spawned", decision |-> "none"])]
  /\ agent' = Rest
  /\ UNCHANGED <<process, actor, queue, calls, streams, tables, left>>

-----------------------------------------------------------------------------
(* Permissions. *)

Decide(i, stage, decision) ==
  [permissions EXCEPT !.tasks[i].stage = stage, !.tasks[i].decision = decision]

\* The broker hands the request to the host unless it does not fit the
\* bounds or the host is behind.
Asks(i) ==
  /\ permissions.tasks[i].stage = "spawned"
  /\ permissions' =
       IF permissions.tasks[i].about # "oversized" /\ Len(permissions.channel) < HostCapacity
       THEN [Decide(i, "asking", "none") EXCEPT !.channel = Append(@, i)]
       ELSE Decide(i, "answered", "cancelled")
  /\ UNCHANGED <<process, actor, queue, calls, streams, tables, agent, left>>

\* The host allows the daemon's own tools once, and nothing else.
HostDecides ==
  /\ permissions.channel # <<>>
  /\ LET i == Head(permissions.channel)
         decision == IF permissions.tasks[i].about = "managed" THEN "selected" ELSE "cancelled"
         answered == IF permissions.tasks[i].stage = "asking"
                     THEN Decide(i, "asking", decision) ELSE permissions
     IN permissions' = [answered EXCEPT !.channel = Tail(@)]
  /\ UNCHANGED <<process, actor, queue, calls, streams, tables, agent, left>>

\* The host has decided, or the prompt was cancelled; both may be so.
PermissionAnswered(i) ==
  /\ permissions.tasks[i].stage = "asking"
  /\ \/ /\ permissions.tasks[i].decision # "none"
        /\ permissions' = Decide(i, "answered", permissions.tasks[i].decision)
     \/ /\ permissions.tasks[i].token \in tables.cancelled
        /\ permissions' = Decide(i, "answered", "cancelled")
  /\ UNCHANGED <<process, actor, queue, calls, streams, tables, agent, left>>

PermissionTimesOut(i) ==
  /\ permissions.tasks[i].stage = "asking"
  /\ permissions' = Decide(i, "answered", "cancelled")
  /\ UNCHANGED <<process, actor, queue, calls, streams, tables, agent, left>>

-----------------------------------------------------------------------------
(* The agent, as the runtime relies on it: it answers a request once, says   *)
(* nothing of a prompt after its result, and can exit at any time.  While it *)
(* loads a session it tells its history.                                    *)

Writes(message) == process.running /\ agent' = [agent EXCEPT !.wire = Append(@, message)]
OnlyAgent == UNCHANGED <<process, actor, queue, calls, streams, tables, permissions>>

AgentReplies(n) ==
  /\ process.running
  /\ \E result \in {"ok", "failed"} :
     \E opened \in (IF result = "failed" \/ calls[n].op = "authenticate" THEN {{}}
                   ELSE IF calls[n].existing THEN {{calls[n].session}}
                   ELSE {{s} : s \in Sessions \ agent.opened}) :
       agent' = [agent EXCEPT
         !.pending = @ \ {n}, !.opened = @ \cup opened,
         !.wire = Append(@, [kind |-> "reply", of |-> n, result |-> result, opened |-> opened])]
  /\ OnlyAgent /\ UNCHANGED left

AgentFinishes(n) ==
  /\ process.running
  /\ \E result \in {"completed", "failed"} :
       agent' = [agent EXCEPT !.prompts = @ \ {n},
         !.wire = Append(@, [kind |-> "result", of |-> n, session |-> calls[n].session,
                             result |-> result])]
  /\ OnlyAgent /\ UNCHANGED left

AgentUpdates(n) ==
  /\ Writes([kind |-> "update", of |-> n, session |-> calls[n].session])
  /\ Spend("updates") /\ OnlyAgent

AgentAsks(n) ==
  /\ \E about \in {"managed", "other", "oversized"} :
       Writes([kind |-> "permission", session |-> calls[n].session, about |-> about])
  /\ Spend("permissions") /\ OnlyAgent

AgentBabbles == Writes([kind |-> "malformed"]) /\ Spend("faults") /\ OnlyAgent

AgentExits ==
  /\ process.running /\ Spend("exits")
  /\ process' = [process EXCEPT !.running = FALSE]
  /\ UNCHANGED <<actor, queue, calls, streams, tables, agent, permissions>>

-----------------------------------------------------------------------------
Caller(n) ==
  \/ Enqueue(n) \/ GiveUp(n) \/ CallClosed(n) \/ ShutdownReturns(n)

Consumer(n) == Read(n) \/ DropStream(n)

Command(n) ==
  \/ RequestSent(n) \/ OpenRefused(n) \/ PromptSent(n) \/ PromptRefused(n)
  \/ PromptUnsent(n) \/ CancelSent(n)

\* What the actor does next, whether or not the agent says anything.
ActorStep ==
  \/ InitializeFails \/ RequestTimesOut \/ Shutdown \/ ExitSeen \/ Drain \/ Close
  \/ \E n \in DOMAIN calls : Command(n)

Connection ==
  \/ Update \/ PromptEnded \/ Answered \/ Malformed \/ PermissionRequested
  \/ ConnectionLost

Permission ==
  \/ HostDecides
  \/ \E i \in DOMAIN permissions.tasks :
       Asks(i) \/ PermissionAnswered(i) \/ PermissionTimesOut(i)

AgentStep ==
  \/ AgentBabbles \/ AgentExits
  \/ \E n \in agent.pending : AgentReplies(n) \/ (calls[n].existing /\ AgentUpdates(n))
  \/ \E n \in agent.prompts : AgentFinishes(n) \/ AgentUpdates(n) \/ AgentAsks(n)

Next ==
  \/ Start \/ StartTimesOut \/ Initialized \/ DropHandle \/ ExitNoticed
  \/ \E r \in Requests : Call(r)
  \/ \E n \in DOMAIN calls : Caller(n) \/ Consumer(n)
  \/ ActorStep \/ Connection \/ Permission \/ AgentStep

-----------------------------------------------------------------------------
(* Properties. *)

Prompts == {n \in DOMAIN calls : calls[n].op = "prompt"}

\* The prompt's stream has a sender: the table's, or the drained one's.
Sending(n) ==
  \/ n \in Range(tables.senders)
  \/ n \in ToSet(actor.drain)

Accounted(n) ==
  LET said == streams[n].history IN
  \* it carries the events of its own prompt, and nothing after the last one
  /\ \A i \in DOMAIN said : said[i].of = n /\ (Terminal(said[i]) => i = Len(said))
  \* and does not end in silence
  /\ Held(n) /\ calls[n].answer = "ok" /\ ~Sending(n)
       => said # <<>> /\ Terminal(Last(said))
  \* a prompt that was refused never reached the agent
  /\ calls[n].answer = "refused" => n \notin agent.prompts

\* Every stream a prompt returns (runtime.rs, prompt) ends with exactly one
\* result, error or notice that the runtime stopped, whichever of the agent,
\* the actor and the callers ends first; a session has one prompt at a time;
\* and of what the agent asks, the host allows its own tools only.
AgentStreamsSound ==
  /\ \A n \in Prompts : Accounted(n)
  /\ \A m, n \in agent.prompts : calls[m].session = calls[n].session => m = n
  /\ \A i \in DOMAIN permissions.tasks :
       permissions.tasks[i].decision = "selected" => permissions.tasks[i].about = "managed"

\* Every call returns; and a runtime that nobody has any more, or that
\* stops, does not leave its process running.
Asked(r) == ~Idle(r)
Ending == actor.phase = "draining" \/ (actor.starter \in {"failed", "dropped"} /\ process.running)
Ended == actor.phase \in {"off", "stopped"} /\ ~process.running

\* Fair: a caller's deadlines and returns; a consumer that reads; the actor,
\* whose requests have deadlines.
CallerStep(r) == \E n \in DOMAIN calls : calls[n].by = r /\ Caller(n)
ReadStep == \E n \in DOMAIN calls : Read(n)
=============================================================================
