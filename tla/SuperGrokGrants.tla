--------------------------- MODULE SuperGrokGrants ---------------------------
(***************************************************************************)
(* The SuperGrok grant: SuperGrokEnrollmentService, which enrolls a        *)
(* device, refreshes the grant and lends it to turns, and the daemon's     *)
(* handlers around it, which keep the enrollment's projection and select   *)
(* the rail of new chats.                                                  *)
(*                                                                         *)
(* Three locks meet here: the lock of the projection (runtime), which a    *)
(* disconnect holds while it waits; the refresh gate; and the use gate,    *)
(* read by a turn and written by a refresh, an enrollment and a disconnect.*)
(***************************************************************************)
EXTENDS FiniteSets, Absence

CONSTANT Scenarios    \* what users, the provider, the vault and the clock may do

VARIABLES grant,       \* the vault's entry: None or [tokens, generation, expires]
          runtime,     \* [next, is, generation, holder]: the projection
          flows,       \* enrollment generation -> its polling task
          rail,        \* ChatRailSelection
          gates,       \* [readers, writer, refreshing]
          requests,    \* Requests -> None or the request in progress
          now,
          seen,        \* history: [minted, exchanged, lost, from, severed]
          left

vars == <<grant, runtime, flows, rail, gates, requests, now, seen, left>>

RailFor(g) == IF g = None THEN "XaiApiKey" ELSE "SuperGrokApi"
Idle == [next |-> 0, is |-> "Idle", generation |-> 0, holder |-> None]
OpenGates == [readers |-> {}, writer |-> None, refreshing |-> None]
NoFlow == [at |-> "none", expires |-> 0, cancelled |-> FALSE, result |-> None]

Starts == [begin |-> "begin", cancel |-> "cancel", disconnect |-> "disconnect", turn |-> "load"]

\* What a scenario says: the grant there is, how many enrollments and requests
\* are made, how long they last and how much goes wrong.
Allowances ==
  [grant : Grants \cup {None}, flows : Nat, asks : [DOMAIN Starts -> Nat], patience : Nat,
   clock : Nat, lifetime : Nat, margin : Nat, faults : Nat, stops : Nat]

Init ==
  /\ left \in Scenarios /\ left \in Allowances
  /\ grant = left.grant
  /\ rail = RailFor(left.grant)
  /\ runtime = Idle
  /\ flows = [g \in 1..left.flows |-> NoFlow]
  /\ gates = OpenGates
  /\ requests = [r \in Requests |-> None]
  /\ now = 0
  /\ seen = [minted |-> IF left.grant = None THEN 0 ELSE left.grant.tokens,
             exchanged |-> {}, lost |-> {}, from |-> 0, severed |-> -1]

-----------------------------------------------------------------------------

At(r, at) == requests[r] # None /\ requests[r].at = at
Goes(r, at) == requests' = [requests EXCEPT ![r].at = at]
Without(r) ==
  [readers |-> gates.readers \ {r},
   writer |-> IF gates.writer = r THEN None ELSE gates.writer,
   refreshing |-> IF gates.refreshing = r THEN None ELSE gates.refreshing]
Answer(r) == requests' = [requests EXCEPT ![r] = None] /\ gates' = Without(r)

Exclusive == gates.readers = {} /\ gates.writer = None
Unlocked == runtime.holder = None

Ask(r) ==
  /\ requests[r] = None
  /\ \E op \in DOMAIN Starts :
       /\ left.asks[op] > 0
       /\ left' = [left EXCEPT !.asks[op] = @ - 1]
       /\ requests' = [requests EXCEPT ![r] =
            [op |-> op, at |-> Starts[op], generation |-> 0, tokens |-> None]]
  /\ UNCHANGED <<grant, runtime, flows, rail, gates, now, seen>>

-----------------------------------------------------------------------------
(* Enrollment. *)

\* begin_supergrok_device_enrollment up to its first await
Begin(r) ==
  /\ At(r, "begin") /\ Unlocked
  /\ IF runtime.is \in {"Starting", "Awaiting"} \/ runtime.next = left.flows
       THEN Answer(r) /\ UNCHANGED runtime
       ELSE /\ runtime' = [runtime EXCEPT !.next = @ + 1, !.is = "Starting",
                                          !.generation = runtime.next + 1]
            /\ requests' = [requests EXCEPT ![r].at = "authorize",
                                            ![r].generation = runtime.next + 1]
            /\ UNCHANGED gates
  /\ UNCHANGED <<grant, flows, rail, now, seen, left>>

Current(is, g) == runtime.is = is /\ runtime.generation = g

\* The provider answers, unless the enrollment is no longer wanted.  The clock
\* is bounded: no authorization outlives the bound.
Authorize(r) ==
  /\ At(r, "authorize") /\ Unlocked
  /\ \E g \in {requests[r].generation}, granted \in BOOLEAN :
       IF ~Current("Starting", g) THEN UNCHANGED <<runtime, flows>>
       ELSE IF granted /\ now + left.patience <= left.clock
         THEN /\ runtime' = [runtime EXCEPT !.is = "Awaiting"]
              /\ flows' = [flows EXCEPT ![g] = [NoFlow EXCEPT !.at = "poll",
                                                             !.expires = now + left.patience]]
       ELSE runtime' = [runtime EXCEPT !.is = "Failed"] /\ UNCHANGED flows
  /\ Answer(r)
  /\ UNCHANGED <<grant, rail, now, seen, left>>

\* The cancellation token of the flow the projection shows.
Cancelling ==
  IF runtime.is = "Awaiting" THEN [flows EXCEPT ![runtime.generation].cancelled = TRUE]
  ELSE flows

Ends(g, result) == flows' = [flows EXCEPT ![g].at = "done", ![g].result = result]

\* complete_device: the top of the polling loop
Poll(g) ==
  /\ flows[g].at = "poll"
  /\ IF flows[g].cancelled THEN Ends(g, "Cancelled")
     ELSE IF now >= flows[g].expires THEN Ends(g, "Failed")
     ELSE flows' = [flows EXCEPT ![g].at = "polling"]
  /\ UNCHANGED <<grant, runtime, rail, gates, requests, now, seen, left>>

\* The provider grants, is still waiting for the person, or refuses.
PollAnswered(g) ==
  /\ flows[g].at = "polling"
  /\ \/ flows' = [flows EXCEPT ![g].at = "granted"]
     \/ flows' = [flows EXCEPT ![g].at = "sleeping"]
     \/ Ends(g, "Failed")
  /\ UNCHANGED <<grant, runtime, rail, gates, requests, now, seen, left>>

\* The sleep ends by itself or by the cancellation.
Sleeping(g) ==
  /\ flows[g].at = "sleeping"
  /\ IF flows[g].cancelled THEN Ends(g, "Cancelled")
     ELSE flows' = [flows EXCEPT ![g].at = "poll"]
  /\ UNCHANGED <<grant, runtime, rail, gates, requests, now, seen, left>>

\* persist_grant stores new tokens, or the vault refuses them.
Fresh(generation) ==
  [tokens |-> seen.minted + 1, generation |-> generation, expires |-> now + left.lifetime]
Enrolled(g) ==
  /\ grant' = Fresh(1)
  /\ seen' = [seen EXCEPT !.minted = @ + 1, !.from = g]
  /\ Ends(g, "Connected")

\* Mutant: the cancellation is looked at only before the gate is taken.
PersistLate(g) ==
  /\ flows[g].at = "granted" /\ Exclusive
  /\ Enrolled(g)
  /\ UNCHANGED <<runtime, rail, gates, requests, now, left>>

\* complete_device under the exclusive side of the use gate.  The first grant
\* of an enrollment always has generation 1.
Persist(g) ==
  /\ flows[g].at = "granted" /\ Exclusive
  /\ IF flows[g].cancelled THEN Ends(g, "Cancelled") /\ UNCHANGED <<grant, seen>>
     ELSE Enrolled(g)
  /\ UNCHANGED <<runtime, rail, gates, requests, now, left>>

PersistFails(g) ==
  /\ flows[g].at = "granted" /\ Exclusive /\ left.faults > 0
  /\ left' = [left EXCEPT !.faults = @ - 1]
  /\ Ends(g, IF flows[g].cancelled THEN "Cancelled" ELSE "Failed")
  /\ UNCHANGED <<grant, runtime, rail, gates, requests, now, seen>>

\* The task reports to the projection, if that still waits for it, and wakes
\* the cancellations parked on it.
Finish(g) ==
  /\ flows[g].at = "done" /\ Unlocked
  /\ flows' = [flows EXCEPT ![g] = NoFlow]
  /\ IF Current("Awaiting", g)
       THEN /\ runtime' = [runtime EXCEPT
                 !.is = IF flows[g].result = "Failed" THEN "Failed" ELSE "Idle"]
            /\ rail' = IF flows[g].result = "Connected" THEN "SuperGrokApi" ELSE rail
            /\ requests' = [r \in Requests |->
                 IF At(r, "parked") THEN [requests[r] EXCEPT !.at = "check"] ELSE requests[r]]
       ELSE UNCHANGED <<runtime, rail, requests>>
  /\ UNCHANGED <<grant, gates, now, seen, left>>

\* cancel_supergrok_enrollment
Cancel(r) ==
  /\ At(r, "cancel") /\ Unlocked
  /\ IF runtime.is = "Awaiting"
       THEN /\ flows' = Cancelling
            /\ requests' = [requests EXCEPT ![r].at = "check",
                                            ![r].generation = runtime.generation]
            /\ UNCHANGED gates
       ELSE Answer(r) /\ UNCHANGED flows
  /\ UNCHANGED <<grant, runtime, rail, now, seen, left>>

\* It waits until the flow is gone, woken by the task.
CancelCheck(r) ==
  /\ At(r, "check") /\ Unlocked
  /\ IF Current("Awaiting", requests[r].generation)
       THEN Goes(r, "parked") /\ UNCHANGED gates
       ELSE Answer(r)
  /\ UNCHANGED <<grant, runtime, flows, rail, now, seen, left>>

\* Five seconds are enough for anything.
CancelTimesOut(r) ==
  /\ At(r, "parked") \/ At(r, "check")
  /\ Answer(r)
  /\ UNCHANGED <<grant, runtime, flows, rail, now, seen, left>>

\* disconnect_supergrok keeps the projection locked while it waits for the gate.
Disconnect(r) ==
  /\ At(r, "disconnect") /\ Unlocked
  /\ runtime' = [runtime EXCEPT !.holder = r]
  /\ flows' = Cancelling
  /\ Goes(r, "delete")
  /\ UNCHANGED <<grant, rail, gates, now, seen, left>>

Delete(r) ==
  /\ At(r, "delete") /\ Exclusive
  /\ grant' = None
  /\ rail' = "XaiApiKey"
  /\ runtime' = [runtime EXCEPT !.is = "Idle", !.holder = None]
  /\ seen' = [seen EXCEPT !.severed = runtime.next]
  /\ Answer(r)
  /\ UNCHANGED <<flows, now, left>>

DeleteFails(r) ==
  /\ At(r, "delete") /\ Exclusive /\ left.faults > 0
  /\ left' = [left EXCEPT !.faults = @ - 1]
  /\ runtime' = [runtime EXCEPT !.holder = None]
  /\ Answer(r)
  /\ UNCHANGED <<grant, flows, rail, now, seen>>

-----------------------------------------------------------------------------
(* Turns: a credential is loaded, refreshed when it is about to expire, and  *)
(* lent under the use gate, once to list models and once to send.            *)

Lasts(g) == g.expires - now > left.margin

Holding(r, g) == requests' = [requests EXCEPT ![r].at = "lease", ![r].generation = g.generation]

Load(r) ==
  /\ At(r, "load")
  /\ IF grant = None THEN Answer(r)
     ELSE /\ UNCHANGED gates
          /\ IF Lasts(grant) THEN Holding(r, grant) ELSE Goes(r, "refresh")
  /\ UNCHANGED <<grant, runtime, flows, rail, now, seen, left>>

TakeRefresh(r) ==
  /\ At(r, "refresh") /\ gates.refreshing = None
  /\ gates' = [gates EXCEPT !.refreshing = r]
  /\ Goes(r, "reload")
  /\ UNCHANGED <<grant, runtime, flows, rail, now, seen, left>>

\* Under both gates the grant is loaded again: another turn may have
\* refreshed it.
Reload(r) ==
  /\ At(r, "reload") /\ Exclusive
  /\ IF grant = None THEN Answer(r)
     ELSE IF Lasts(grant) THEN gates' = Without(r) /\ Holding(r, grant)
     ELSE gates' = [gates EXCEPT !.writer = r] /\ Goes(r, "refreshing")
  /\ UNCHANGED <<grant, runtime, flows, rail, now, seen, left>>

\* The provider takes the refresh token and rotates it.
Refreshed(r) ==
  /\ At(r, "refreshing")
  /\ grant' = Fresh(grant.generation + 1)
  /\ seen' = [seen EXCEPT !.minted = @ + 1, !.exchanged = @ \cup {<<grant.tokens, r, seen.minted>>}]
  /\ gates' = Without(r)
  /\ Holding(r, [generation |-> grant.generation + 1])
  /\ UNCHANGED <<runtime, flows, rail, now, left>>

\* Refused, or rotated by the provider and then not stored.
RefreshFails(r) ==
  /\ At(r, "refreshing") /\ left.faults > 0
  /\ left' = [left EXCEPT !.faults = @ - 1]
  /\ seen' = [seen EXCEPT !.lost = @ \cup {grant.tokens},
                          !.exchanged = @ \cup {<<grant.tokens, r, seen.minted>>}]
  /\ Answer(r)
  /\ UNCHANGED <<grant, runtime, flows, rail, now>>

\* credential_for_use and acquire_credential_use: the lease is given when the
\* generation is the one expected.
Matches(r) == grant # None /\ grant.generation = requests[r].generation

Lease(r) ==
  /\ At(r, "lease") /\ gates.writer = None
  /\ IF Matches(r)
       THEN /\ gates' = [gates EXCEPT !.readers = @ \cup {r}]
            /\ requests' = [requests EXCEPT ![r].at = "prepare", ![r].tokens = grant.tokens]
       ELSE Answer(r)
  /\ UNCHANGED <<grant, runtime, flows, rail, now, seen, left>>

Prepare(r) ==
  /\ At(r, "prepare")
  /\ gates' = Without(r)
  /\ Goes(r, "dispatch")
  /\ UNCHANGED <<grant, runtime, flows, rail, now, seen, left>>

Acquire(r) ==
  /\ At(r, "dispatch") /\ gates.writer = None
  /\ IF Matches(r)
       THEN gates' = [gates EXCEPT !.readers = @ \cup {r}] /\ Goes(r, "sending")
       ELSE Answer(r)
  /\ UNCHANGED <<grant, runtime, flows, rail, now, seen, left>>

Sent(r) ==
  /\ At(r, "sending")
  /\ Answer(r)
  /\ UNCHANGED <<grant, runtime, flows, rail, now, seen, left>>

Tick ==
  /\ now < left.clock
  /\ now' = now + 1
  /\ UNCHANGED <<grant, runtime, flows, rail, gates, requests, seen, left>>

\* The daemon stops and starts: the rail follows what the vault holds.  (Its
\* enrollments are numbered from 1 again; here they keep counting.)
Restart ==
  /\ left.stops > 0
  /\ left' = [left EXCEPT !.stops = @ - 1]
  /\ rail' = RailFor(grant)
  /\ runtime' = [Idle EXCEPT !.next = runtime.next]
  /\ flows' = [g \in DOMAIN flows |-> NoFlow]
  /\ gates' = OpenGates
  /\ requests' = [r \in Requests |-> None]
  /\ LET asked == {r \in Requests : At(r, "refreshing")}
     IN seen' = [seen EXCEPT
          !.lost = IF asked = {} THEN @ ELSE @ \cup {grant.tokens},
          !.exchanged = @ \cup {<<grant.tokens, r, seen.minted>> : r \in asked}]
  /\ UNCHANGED <<grant, now>>

Proceed(r) ==
  \/ Begin(r) \/ Authorize(r) \/ Cancel(r) \/ CancelCheck(r) \/ Disconnect(r) \/ Delete(r)
  \/ Load(r) \/ TakeRefresh(r) \/ Reload(r) \/ Refreshed(r)
  \/ Lease(r) \/ Prepare(r) \/ Acquire(r) \/ Sent(r)

RequestStep(r) == Proceed(r) \/ CancelTimesOut(r)

Advance(g) == Poll(g) \/ PollAnswered(g) \/ Sleeping(g) \/ Persist(g) \/ Finish(g)

Next ==
  \/ \E r \in Requests :
       Ask(r) \/ RequestStep(r) \/ DeleteFails(r) \/ RefreshFails(r)
  \/ \E g \in DOMAIN flows : Advance(g) \/ PersistFails(g)
  \/ Tick \/ Restart

Spec ==
  /\ Init /\ [][Next]_vars
  /\ WF_vars(Tick)
  /\ \A r \in Requests : WF_vars(RequestStep(r))
  /\ \A g \in 1..2 : WF_vars(g \in DOMAIN flows /\ Advance(g))

-----------------------------------------------------------------------------

Reporting == \E g \in DOMAIN flows : flows[g].at = "done"

\* No enrollment that was under way when a disconnect finished stores a grant
\* any more; outside a report or a disconnect in progress, new chats use the
\* SuperGrok rail exactly when there is a grant; a refresh token is given to
\* the provider once, unless its answer was lost; and what a turn sends under
\* a lease has the generation of the stored grant.
GrantsSound ==
  /\ grant # None => seen.from > seen.severed
  /\ Unlocked /\ ~Reporting => rail = RailFor(grant)
  /\ \A x, y \in seen.exchanged : x[1] = y[1] /\ x # y => x[1] \in seen.lost
  /\ \A r \in Requests : At(r, "sending") =>
       grant # None /\ grant.generation = requests[r].generation

Asked(r) == requests[r] # None
Waiting == runtime.is = "Awaiting"

\* Every request is answered and every enrollment that waits for the person
\* ends, by the grant, a refusal, the cancellation or its deadline.
GrantRequestsSettle ==
  /\ \A r \in Requests : Asked(r) ~> ~Asked(r)
  /\ Waiting ~> ~Waiting
=============================================================================
