----------------------------- MODULE ToolEndpoint -----------------------------
(***************************************************************************)
(* The endpoint at which the agent calls the Host Tools of one run: the    *)
(* accept loop, one task per connection, and the owner that waits for the  *)
(* agent's initialize, shuts the endpoint down or drops it.                *)
(*                                                                         *)
(* What a connection sends is known beforehand: how its head is judged and *)
(* which method its body calls.  What a tool call does to the run is       *)
(* module HostWork; here it is work that ends, sooner when cancelled.      *)
(***************************************************************************)
EXTENDS Naturals, Sequences

CONSTANT Scenarios      \* the transport, the connections and the owner's plan

VARIABLES loop,         \* "closed", "accepting", "draining", "ended"
          cancelled,    \* the token the endpoint shares with its connections
          conns,        \* each connection: [request, stage, response]
          flag,         \* [initialized, waiting, woken]
          owner,        \* what the owner of the endpoint does, and was told
          left          \* the scenario

vars == <<loop, cancelled, conns, flag, owner, left>>

Numbers == DOMAIN conns

Init ==
  /\ left \in Scenarios
  /\ loop = "closed" /\ cancelled = FALSE /\ conns = <<>>
  /\ flag = [initialized |-> FALSE, waiting |-> FALSE, woken |-> FALSE]
  /\ owner = [stage |-> "starting", told |-> "none", socket |-> FALSE]

Spend(what) == left[what] > 0 /\ left' = [left EXCEPT ![what] = @ - 1]

-----------------------------------------------------------------------------
(* The owner. *)

Listen ==
  /\ owner.stage = "starting"
  /\ loop' = "accepting"
  /\ owner' = [owner EXCEPT !.stage = "started", !.socket = left.transport = "socket"]
  /\ UNCHANGED <<cancelled, conns, flag, left>>

ListenFails ==
  /\ owner.stage = "starting"
  /\ Spend("faults")
  /\ owner' = [owner EXCEPT !.stage = "failed"]
  /\ UNCHANGED <<loop, cancelled, conns, flag>>

\* wait_until_initialized: the flag, the registration, the flag again.
FirstLook ==
  /\ owner.stage = "started"
  /\ owner' = IF flag.initialized THEN [owner EXCEPT !.stage = "told", !.told = "yes"]
              ELSE [owner EXCEPT !.stage = "looked"]
  /\ UNCHANGED <<loop, cancelled, conns, flag, left>>

Register ==
  /\ owner.stage = "looked"
  /\ flag' = [flag EXCEPT !.waiting = TRUE, !.woken = FALSE]
  /\ owner' = [owner EXCEPT !.stage = "registered"]
  /\ UNCHANGED <<loop, cancelled, conns, left>>

\* What the second look finds: the flag, or the need to wait.
Looked(initialized) == IF initialized THEN "told" ELSE "waiting"

SecondLook ==
  /\ owner.stage = "registered"
  /\ owner' = [owner EXCEPT !.stage = Looked(flag.initialized),
                            !.told = IF flag.initialized THEN "yes" ELSE @]
  /\ UNCHANGED <<loop, cancelled, conns, flag, left>>

Woken ==
  /\ owner.stage = "waiting" /\ flag.woken
  /\ owner' = [owner EXCEPT !.stage = "told",
                            !.told = IF flag.initialized THEN "yes" ELSE "no"]
  /\ UNCHANGED <<loop, cancelled, conns, flag, left>>

WaitExpires ==
  /\ owner.stage = "waiting"
  /\ Spend("expiries")
  /\ owner' = [owner EXCEPT !.stage = "told", !.told = "no"]
  /\ UNCHANGED <<loop, cancelled, conns, flag>>

Shutdown ==
  /\ owner.stage = "told" /\ left.ending = "shutdown"
  /\ cancelled' = TRUE
  /\ owner' = [owner EXCEPT !.stage = "closing"]
  /\ UNCHANGED <<loop, conns, flag, left>>

ShutdownReturns ==
  /\ owner.stage = "closing" /\ loop = "ended"
  /\ owner' = [owner EXCEPT !.stage = "closed", !.socket = FALSE]
  /\ UNCHANGED <<loop, cancelled, conns, flag, left>>

\* Dropped, at any point: cancelled, and not waited for.
Drop ==
  /\ owner.stage \in {"started", "looked", "registered", "waiting", "told"}
  /\ left.ending = "drop"
  /\ cancelled' = TRUE
  /\ owner' = [owner EXCEPT !.stage = "dropped", !.socket = FALSE]
  /\ flag' = [flag EXCEPT !.waiting = FALSE]
  /\ UNCHANGED <<loop, conns, left>>

\* The run is cancelled: its token is the endpoint's.
RunCancelled ==
  /\ loop = "accepting"
  /\ Spend("cancels")
  /\ cancelled' = TRUE
  /\ UNCHANGED <<loop, conns, flag, owner>>

-----------------------------------------------------------------------------
(* The accept loop. *)

Running == {c \in Numbers : conns[c].stage # "over"}

\* A peer that is not the helper (or not on this machine) is not served.
Accept ==
  /\ loop = "accepting" /\ left.conns # <<>>
  /\ LET next == Head(left.conns) IN
     conns' = IF next.peer = "known"
              THEN Append(conns, [request |-> next, stage |-> "reading", response |-> 0])
              ELSE conns
  /\ left' = [left EXCEPT !.conns = Tail(@)]
  /\ UNCHANGED <<loop, cancelled, flag, owner>>

AcceptFails ==
  /\ loop = "accepting"
  /\ Spend("faults")
  /\ loop' = "draining" /\ cancelled' = TRUE
  /\ UNCHANGED <<conns, flag, owner>>

StopAccepting ==
  /\ loop = "accepting" /\ cancelled
  /\ loop' = "draining"
  /\ UNCHANGED <<cancelled, conns, flag, owner, left>>

\* Every connection is waited for.
Drained == Running = {}

LoopEnds ==
  /\ loop = "draining" /\ Drained
  /\ loop' = "ended"
  /\ UNCHANGED <<cancelled, conns, flag, owner, left>>

-----------------------------------------------------------------------------
(* A connection reads one request within its time, answers it and ends.     *)
(* The HTTP endpoint answers 400 what it cannot read, 403 what is not       *)
(* authorised, 202 what has no id; the socket answers an error instead.     *)

Reached(c, stage, response) ==
  [conns EXCEPT ![c].stage = stage, ![c].response = response]

Http == left.transport = "http"

\* Nothing readable arrived: too long, cut off, no length.
Unreadable(c) ==
  /\ conns[c].stage = "reading" /\ conns[c].request.head = "malformed"
  /\ conns' = Reached(c, "writing", IF Http THEN 400 ELSE 500)
  /\ UNCHANGED <<loop, cancelled, flag, owner, left>>

\* The time for reading is over: HTTP ends without an answer.
ReadExpires(c) ==
  /\ conns[c].stage = "reading"
  /\ Spend("expiries")
  /\ conns' = IF Http THEN Reached(c, "over", 0) ELSE Reached(c, "writing", 500)
  /\ UNCHANGED <<loop, cancelled, flag, owner>>

Forbidden(c) ==
  /\ conns[c].stage = "reading" /\ conns[c].request.head = "unauthorised" /\ Http
  /\ conns' = Reached(c, "writing", 403)
  /\ UNCHANGED <<loop, cancelled, flag, owner, left>>

Understood(c) == conns[c].stage = "reading" /\ conns[c].request.head = "authorised"

\* A request without an id gets no result.
Result(c) == IF conns[c].request.id THEN 200 ELSE 202

\* Over HTTP the method is known before anything is checked; on the socket
\* an initialize counts once the dispatcher has accepted it.
Initialize(c) ==
  /\ Understood(c) /\ conns[c].request.method = "initialize" /\ Http
  /\ flag' = [flag EXCEPT !.initialized = TRUE]
  /\ conns' = Reached(c, "notifying", Result(c))
  /\ UNCHANGED <<loop, cancelled, owner, left>>

\* notify_waiters wakes who has registered, and leaves no trace for later.
Notify(c) ==
  /\ conns[c].stage = "notifying"
  /\ flag' = [flag EXCEPT !.woken = @ \/ flag.waiting]
  /\ conns' = [conns EXCEPT ![c].stage = "writing"]
  /\ UNCHANGED <<loop, cancelled, owner, left>>

\* ping, tools/list, notifications, unknown methods.
Answer(c) ==
  /\ Understood(c) /\ conns[c].request.method = "plain"
  /\ conns' = Reached(c, "writing", Result(c))
  /\ UNCHANGED <<loop, cancelled, flag, owner, left>>

Dispatch(c) ==
  /\ Understood(c)
  /\ conns[c].request.method = "call" \/ (~Http /\ conns[c].request.method = "initialize")
  /\ conns' = IF conns[c].request.method = "call" /\ ~conns[c].request.id
              THEN Reached(c, "writing", 200)     \* an error: the id is required
              ELSE Reached(c, "working", 0)
  /\ UNCHANGED <<loop, cancelled, flag, owner, left>>

\* The call ends, with what it did or because it was cancelled.
WorkEnds(c, result) ==
  LET accepted == conns[c].request.method = "initialize" /\ result = "ok" IN
  /\ conns[c].stage = "working"
  /\ flag' = [flag EXCEPT !.initialized = @ \/ accepted]
  /\ conns' = Reached(c, IF accepted THEN "notifying" ELSE "writing",
                      IF result = "ok" THEN 200 ELSE 500)
  /\ UNCHANGED <<loop, cancelled, owner, left>>

\* The client reads the answer, or is gone; the socket gives up in time.
WriteEnds(c) ==
  /\ conns[c].stage = "writing"
  /\ conns' = [conns EXCEPT ![c].stage = "over"]
  /\ UNCHANGED <<loop, cancelled, flag, owner, left>>

-----------------------------------------------------------------------------
ConnectionStep(c) ==
  \/ Unreadable(c) \/ Forbidden(c) \/ Initialize(c) \/ Notify(c) \/ Answer(c)
  \/ Dispatch(c)
  \/ \E result \in {"ok", "error"} : WorkEnds(c, result)
  \/ WriteEnds(c)

Next ==
  \/ Listen \/ ListenFails \/ FirstLook \/ Register \/ SecondLook \/ Woken \/ WaitExpires
  \/ Shutdown \/ ShutdownReturns \/ Drop \/ RunCancelled
  \/ Accept \/ AcceptFails \/ StopAccepting \/ LoopEnds
  \/ \E c \in Numbers : ConnectionStep(c) \/ ReadExpires(c)

-----------------------------------------------------------------------------
\* Once shutdown has returned no tool call of the run is in progress and none
\* begins; so it is when the loop has ended by itself.
NothingAfterShutdown ==
  /\ owner.stage = "closed" => loop = "ended"
  /\ loop = "ended" => Running = {} /\ cancelled

\* The owner never sleeps through the initialize, and is told of one only
\* when the agent's came through, accepted.
WakeupsKept ==
  /\ owner.stage = "waiting" /\ flag.initialized =>
       flag.woken \/ \E c \in Numbers : conns[c].stage = "notifying"
  /\ owner.told = "yes" => flag.initialized
  /\ flag.initialized =>
       \E c \in Numbers : /\ conns[c].request.method = "initialize"
                          /\ conns[c].request.head = "authorised"

EndpointSound == NothingAfterShutdown /\ WakeupsKept
=============================================================================
