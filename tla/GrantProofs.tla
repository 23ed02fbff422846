----------------------------- MODULE GrantProofs -----------------------------
(***************************************************************************)
(* The SuperGrok service keeps GrantsSound, for any number of requests and  *)
(* enrollments, and whatever vault writes fail and wherever the daemon      *)
(* stops.                                                                   *)
(***************************************************************************)
EXTENDS SuperGrokGrants, TLAPS

Steps == {"begin", "authorize", "cancel", "check", "parked", "disconnect", "delete", "load",
          "refresh", "reload", "refreshing", "lease", "prepare", "dispatch", "sending"}
Slots == [op : DOMAIN Starts, at : Steps, generation : Nat, tokens : Nat \cup {None}]
Flows == [at : {"none", "poll", "polling", "sleeping", "granted", "done"}, expires : Nat,
          cancelled : BOOLEAN, result : {None, "Connected", "Cancelled", "Failed"}]
Projections == [next : Nat, is : {"Idle", "Starting", "Awaiting", "Failed"}, generation : Nat,
                holder : Requests \cup {None}]
Locks == [readers : SUBSET Requests, writer : Requests \cup {None},
          refreshing : Requests \cup {None}]
History == [minted : Nat, exchanged : SUBSET (Nat \X Requests \X Nat), lost : SUBSET Nat,
            from : Nat, severed : Int]

TypeInv ==
  /\ left \in Allowances /\ now \in Nat
  /\ grant \in Grants \cup {None} /\ rail \in {"XaiApiKey", "SuperGrokApi"}
  /\ runtime \in Projections /\ runtime.next <= left.flows
  /\ runtime.generation <= runtime.next
  /\ flows \in [1..left.flows -> Flows]
  /\ gates \in Locks
  /\ requests \in [Requests -> Slots \cup {None}]
  /\ seen \in History

\* An enrollment whose grant would be stored.
Live(g) == flows[g].at \in {"poll", "polling", "sleeping", "granted"} /\ ~flows[g].cancelled
\* One that has stored its grant and not reported it.
Connected(g) == flows[g].at = "done" /\ flows[g].result = "Connected" /\ Current("Awaiting", g)

\* The projection shows the one enrollment that can still store a grant.
FlowInv ==
  \A g \in 1..left.flows :
    /\ Live(g) => Current("Awaiting", g)
    /\ Connected(g) => grant # None

\* It began after the last disconnect, and a disconnect in progress has
\* cancelled it.
RuntimeInv ==
  /\ runtime.is \in {"Starting", "Awaiting"} =>
       runtime.generation >= 1 /\ runtime.generation > seen.severed
  /\ seen.severed <= runtime.next
  /\ runtime.holder # None /\ runtime.is = "Awaiting" => flows[runtime.generation].cancelled

RailInv ==
  \/ rail = RailFor(grant)
  \/ grant # None /\ \E g \in 1..left.flows : Connected(g)

\* The tokens of the stored grant are the last ones minted, and were not
\* exchanged unless the answer was lost.
TokenInv ==
  /\ grant # None => grant.tokens <= seen.minted /\ seen.from > seen.severed
  /\ \A x \in seen.exchanged :
       /\ x[1] <= seen.minted
       /\ grant # None /\ x[1] = grant.tokens => x[1] \in seen.lost
  /\ \A x, y \in seen.exchanged : x[1] = y[1] /\ x # y => x[1] \in seen.lost

GateInv == gates.writer = None \/ gates.readers = {}

\* What a request holds at the steps that matter.
RequestInv(r) ==
  /\ At(r, "delete") => runtime.holder = r
  /\ At(r, "refreshing") => gates.writer = r /\ grant # None
  /\ At(r, "sending") =>
       r \in gates.readers /\ grant # None /\ grant.generation = requests[r].generation

Inv ==
  /\ TypeInv /\ FlowInv /\ RuntimeInv /\ RailInv /\ TokenInv /\ GateInv
  /\ \A r \in Requests : RequestInv(r)

-----------------------------------------------------------------------------
(* What steps have in common. *)

\* The step is not one of request x and takes nothing from it.
Undisturbed(x) ==
  /\ requests'[x] = requests[x]
  /\ runtime.holder = x => runtime'.holder = x
  /\ x \in gates.readers => x \in gates'.readers /\ grant' = grant
  /\ gates.writer = x => gates'.writer = x /\ (grant # None => grant' # None)

\* A request nobody disturbs keeps what it relies on.
LEMMA Frame ==
  ASSUME NEW x \in Requests, RequestInv(x), Undisturbed(x)
  PROVE  RequestInv(x)'
BY DEF RequestInv, Undisturbed, At

\* A step that leaves the enrollments and the rail alone.
LEMMA QuietFlows ==
  ASSUME Inv, UNCHANGED <<runtime, flows, rail>>, left'.flows = left.flows,
         grant = None <=> grant' = None, seen'.severed = seen.severed
  PROVE  FlowInv' /\ RuntimeInv' /\ RailInv'
  <1>1. \A g : Current("Awaiting", g)' <=> Current("Awaiting", g) BY DEF Current
  <1>2. \A g : (Live(g)' <=> Live(g)) /\ (Connected(g)' <=> Connected(g))
    BY <1>1 DEF Live, Connected
  <1>3. FlowInv' BY <1>1, <1>2 DEF Inv, FlowInv
  <1>4. RuntimeInv' BY DEF Inv, RuntimeInv
  <1>5. RailInv' BY <1>2 DEF Inv, RailInv, RailFor
  <1>6. QED BY <1>3, <1>4, <1>5

\* A step that stores no grant and sends no token keeps the account of tokens.
LEMMA QuietTokens ==
  ASSUME Inv, UNCHANGED <<grant, seen>>
  PROVE  TokenInv'
BY DEF Inv, TokenInv

\* What the scenario still allows, after one more request or fault.
Spent == left' \in Allowances /\ left'.flows = left.flows

\* An allowance is spent one at a time.
LEMMA Spends ==
  ASSUME Inv
  PROVE  /\ UNCHANGED left => Spent
         /\ left.faults > 0 /\ left' = [left EXCEPT !.faults = @ - 1] => Spent
         /\ left.stops > 0 /\ left' = [left EXCEPT !.stops = @ - 1] => Spent
         /\ \A op \in DOMAIN Starts :
              left.asks[op] > 0 /\ left' = [left EXCEPT !.asks[op] = @ - 1] => Spent
  <1>0. left \in Allowances BY DEF Inv, TypeInv
  <1>1. UNCHANGED left => Spent BY <1>0 DEF Spent
  <1>2. left.faults > 0 /\ left' = [left EXCEPT !.faults = @ - 1] => Spent
    BY <1>0 DEF Spent, Allowances
  <1>3. left.stops > 0 /\ left' = [left EXCEPT !.stops = @ - 1] => Spent
    BY <1>0 DEF Spent, Allowances
  <1>4. ASSUME NEW op \in DOMAIN Starts, left.asks[op] > 0, left' = [left EXCEPT !.asks[op] = @ - 1]
        PROVE  Spent
    <2>1. left.asks \in [DOMAIN Starts -> Nat] BY <1>0 DEF Allowances
    <2>2. [left.asks EXCEPT ![op] = @ - 1] \in [DOMAIN Starts -> Nat] BY <1>4, <2>1
    <2>3. QED BY <1>0, <1>4, <2>2 DEF Spent, Allowances
  <1>5. QED BY <1>1, <1>2, <1>3, <1>4

\* Ending a request lets go of its own locks.
LEMMA AnswerFrees ==
  ASSUME Inv, NEW r \in Requests, Answer(r)
  PROVE  /\ requests' \in [Requests -> Slots \cup {None}] /\ requests'[r] = None
         /\ gates' \in Locks /\ GateInv' /\ RequestInv(r)'
         /\ \A x \in Requests \ {r} :
              /\ requests'[x] = requests[x]
              /\ x \in gates.readers => x \in gates'.readers
              /\ gates.writer = x => gates'.writer = x
BY DEF Inv, TypeInv, Locks, Answer, Without, GateInv, RequestInv, At

\* A request ends, or goes on, in a step that changes requests and locks only.
LEMMA MoveKeeps ==
  ASSUME Inv, NEW r \in Requests, Spent, UNCHANGED <<grant, runtime, flows, rail, now, seen>>,
         requests' \in [Requests -> Slots \cup {None}], gates' \in Locks, GateInv', RequestInv(r)',
         \A x \in Requests \ {r} : /\ requests'[x] = requests[x]
                                   /\ x \in gates.readers => x \in gates'.readers
                                   /\ gates.writer = x => gates'.writer = x
  PROVE  Inv'
  <1>1. TypeInv' BY DEF Inv, TypeInv, Spent
  <1>2. FlowInv' /\ RuntimeInv' /\ RailInv' BY QuietFlows DEF Spent
  <1>3. TokenInv' BY QuietTokens
  <1>4. ASSUME NEW x \in Requests PROVE RequestInv(x)'
    BY <1>4, Frame DEF Undisturbed, Inv
  <1>5. QED BY <1>1, <1>2, <1>3, <1>4 DEF Inv

\* A request that answers and changes nothing else keeps the invariant.
LEMMA EndKeeps ==
  ASSUME Inv, NEW r \in Requests, Spent, UNCHANGED <<grant, runtime, flows, rail, now, seen>>,
         Answer(r)
  PROVE  Inv'
BY AnswerFrees, MoveKeeps

\* A request goes on to a step at which it relies on nothing.
LEMMA GoKeeps ==
  ASSUME Inv, NEW r \in Requests, Spent, UNCHANGED <<grant, runtime, flows, rail, now, seen>>,
         NEW new \in Slots, requests' = [requests EXCEPT ![r] = new],
         new.at \notin {"delete", "refreshing", "sending"},
         gates' \in {gates, Without(r), [gates EXCEPT !.refreshing = r]}
           \/ (gates' = [gates EXCEPT !.readers = @ \cup {r}] /\ gates.writer = None)
  PROVE  Inv'
  <1>1. requests' \in [Requests -> Slots \cup {None}] BY DEF Inv, TypeInv
  <1>2. requests'[r] = new /\ \A x \in Requests \ {r} : requests'[x] = requests[x]
    BY DEF Inv, TypeInv
  <1>3. /\ gates' \in Locks /\ GateInv'
        /\ \A x \in Requests \ {r} : /\ x \in gates.readers => x \in gates'.readers
                                     /\ gates.writer = x => gates'.writer = x
    <2>1. CASE gates' = gates BY <2>1 DEF Inv, TypeInv, GateInv
    <2>2. CASE gates' = Without(r) BY <2>2 DEF Inv, TypeInv, GateInv, Without, Locks
    <2>3. CASE gates' = [gates EXCEPT !.refreshing = r]
      BY <2>3 DEF Inv, TypeInv, GateInv, Locks
    <2>4. CASE gates' = [gates EXCEPT !.readers = @ \cup {r}] /\ gates.writer = None
      BY <2>4 DEF Inv, TypeInv, GateInv, Locks
    <2>5. QED BY <2>1, <2>2, <2>3, <2>4
  <1>4. RequestInv(r)' BY <1>2 DEF RequestInv, At
  <1>5. QED BY <1>1, <1>2, <1>3, <1>4, MoveKeeps

-----------------------------------------------------------------------------
(* Requests. *)

\* A request that moves on is still a request.
LEMMA SlotGoes ==
  ASSUME Inv, NEW r \in Requests, requests[r] # None, NEW at \in Steps, NEW n \in Nat
  PROVE  /\ requests[r] \in Slots
         /\ [requests[r] EXCEPT !.at = at] \in Slots
         /\ [requests[r] EXCEPT !.at = at].at = at
         /\ [requests[r] EXCEPT !.at = at].generation = requests[r].generation
         /\ [requests[r] EXCEPT !.at = at, !.generation = n] \in Slots
         /\ [requests[r] EXCEPT !.at = at, !.generation = n].at = at
         /\ [requests[r] EXCEPT !.at = at, !.tokens = n] \in Slots
         /\ [requests[r] EXCEPT !.at = at, !.tokens = n].at = at
BY DEF Inv, TypeInv, Slots

\* A new request holds no gate.
LEMMA AskKeeps ==
  ASSUME Inv, NEW r \in Requests, Ask(r)
  PROVE  Inv'
  <1>1. PICK op \in DOMAIN Starts :
          /\ left.asks[op] > 0 /\ left' = [left EXCEPT !.asks[op] = @ - 1]
          /\ requests' = [requests EXCEPT ![r] =
               [op |-> op, at |-> Starts[op], generation |-> 0, tokens |-> None]]
    BY DEF Ask
  <1> DEFINE new == [op |-> op, at |-> Starts[op], generation |-> 0, tokens |-> None]
  <1>2. Starts[op] \in {"begin", "cancel", "disconnect", "load"} BY DEF Starts
  <1>3. new \in Slots /\ new.at \notin {"delete", "refreshing", "sending"}
    BY <1>2 DEF Slots, Steps
  <1>4. Spent BY <1>1, Spends
  <1> HIDE DEF new
  <1>5. QED BY <1>1, <1>3, <1>4, GoKeeps DEF Ask, new

\* Waiting for a cancelled enrollment, or giving up on it, changes no grant.
LEMMA CancelWaitKeeps ==
  ASSUME Inv, NEW r \in Requests, CancelCheck(r) \/ CancelTimesOut(r)
  PROVE  Inv'
  <1>1. Spent /\ requests[r] # None /\ UNCHANGED <<grant, runtime, flows, rail, now, seen>>
    BY Spends DEF CancelCheck, CancelTimesOut, At
  <1>2. CASE Answer(r) BY <1>1, <1>2, EndKeeps
  <1>3. CASE Goes(r, "parked") /\ UNCHANGED gates
    <2>1. "parked" \in Steps /\ 0 \in Nat BY DEF Steps
    <2>2. requests' = [requests EXCEPT ![r] = [requests[r] EXCEPT !.at = "parked"]]
      BY <1>3 DEF Goes
    <2>3. QED BY <1>1, <1>3, <2>1, <2>2, SlotGoes, GoKeeps
  <1>4. QED BY <1>2, <1>3 DEF CancelCheck, CancelTimesOut

\* A stored grant has tokens and a generation.
LEMMA GrantTyped ==
  ASSUME Inv, grant # None
  PROVE  /\ grant \in Grants /\ grant.tokens \in Nat /\ grant.generation \in Nat
BY DEF Inv, TypeInv, Grants

\* Loading the grant and taking the refresh gate only read it.
LEMMA LoadKeeps ==
  ASSUME Inv, NEW r \in Requests, Load(r) \/ TakeRefresh(r)
  PROVE  Inv'
  <1>1. Spent /\ requests[r] # None /\ UNCHANGED <<grant, runtime, flows, rail, now, seen>>
    BY Spends DEF Load, TakeRefresh, At
  <1>2. "lease" \in Steps /\ "refresh" \in Steps /\ "reload" \in Steps /\ 0 \in Nat
    BY DEF Steps
  <1>3. CASE Answer(r) BY <1>1, <1>3, EndKeeps
  <1>4. CASE grant # None /\ UNCHANGED gates /\ Holding(r, grant)
    <2>1. PICK n \in Nat : n = grant.generation BY <1>4, GrantTyped
    <2>2. requests' = [requests EXCEPT ![r] =
                        [requests[r] EXCEPT !.at = "lease", !.generation = n]]
      BY <1>4, <2>1 DEF Holding
    <2>3. PICK new : new = [requests[r] EXCEPT !.at = "lease", !.generation = n] OBVIOUS
    <2>4. new \in Slots /\ new.at = "lease"
      BY <1>1, <1>2, <2>1, <2>3 DEF Inv, TypeInv, Slots
    <2>5. QED BY <1>1, <1>2, <1>4, <2>1, <2>2, <2>3, <2>4, GoKeeps
  <1>5. CASE UNCHANGED gates /\ Goes(r, "refresh")
    <2>1. requests' = [requests EXCEPT ![r] = [requests[r] EXCEPT !.at = "refresh"]]
      BY <1>5 DEF Goes
    <2>2. PICK new : new = [requests[r] EXCEPT !.at = "refresh"] OBVIOUS
    <2>3. new \in Slots /\ new.at = "refresh"
      BY <1>1, <1>2, <2>2, SlotGoes
    <2>4. QED BY <1>1, <1>5, <2>1, <2>2, <2>3, GoKeeps
  <1>6. CASE gates' = [gates EXCEPT !.refreshing = r] /\ Goes(r, "reload")
    <2>1. requests' = [requests EXCEPT ![r] = [requests[r] EXCEPT !.at = "reload"]]
      BY <1>6 DEF Goes
    <2>2. PICK new : new = [requests[r] EXCEPT !.at = "reload"] OBVIOUS
    <2>3. new \in Slots /\ new.at = "reload"
      BY <1>1, <1>2, <1>6, <2>1, <2>2, SlotGoes
    <2>4. QED BY <1>1, <1>2, <1>6, <2>1, <2>2, <2>3, GoKeeps
  <1>7. QED BY <1>3, <1>4, <1>5, <1>6 DEF Load, TakeRefresh

\* Under the refresh gate the grant is read again before it is exchanged.
LEMMA ReloadKeeps ==
  ASSUME Inv, NEW r \in Requests, Reload(r)
  PROVE  Inv'
  <1>1. /\ Spent /\ requests[r] # None /\ UNCHANGED <<grant, runtime, flows, rail, now, seen>>
        /\ gates.readers = {} /\ gates.writer = None
    BY Spends DEF Reload, At, Exclusive
  <1>2. "lease" \in Steps /\ "refreshing" \in Steps /\ 0 \in Nat BY DEF Steps
  <1>3. CASE Answer(r) BY <1>1, <1>3, EndKeeps
  <1>4. CASE grant # None /\ gates' = Without(r) /\ Holding(r, grant)
    <2>1. PICK n \in Nat : n = grant.generation BY <1>4, GrantTyped
    <2>2. requests' = [requests EXCEPT ![r] =
                        [requests[r] EXCEPT !.at = "lease", !.generation = n]]
      BY <1>4, <2>1 DEF Holding
    <2>3. PICK new : new = [requests[r] EXCEPT !.at = "lease", !.generation = n] OBVIOUS
    <2>4. new \in Slots /\ new.at = "lease"
      BY <1>1, <1>2, <2>1, <2>3 DEF Inv, TypeInv, Slots
    <2>5. QED BY <1>1, <1>2, <1>4, <2>1, <2>2, <2>3, <2>4, GoKeeps
  <1>5. CASE grant # None /\ gates' = [gates EXCEPT !.writer = r] /\ Goes(r, "refreshing")
    <2>1. PICK new : new = [requests[r] EXCEPT !.at = "refreshing"] OBVIOUS
    <2>2. new \in Slots /\ new.at = "refreshing" BY <1>1, <1>2, <2>1, SlotGoes
    <2>3. /\ requests' \in [Requests -> Slots \cup {None}] /\ requests'[r] = new
          /\ \A x \in Requests \ {r} : requests'[x] = requests[x]
      BY <1>5, <2>1, <2>2 DEF Goes, Inv, TypeInv
    <2>4. gates' \in Locks /\ gates'.writer = r /\ gates'.readers = {}
      BY <1>1, <1>5 DEF Inv, TypeInv, Locks
    <2>5. GateInv' /\ RequestInv(r)'
      BY <1>1, <1>5, <2>2, <2>3, <2>4 DEF GateInv, RequestInv, At
    <2>6. \A x \in Requests \ {r} : gates.writer # x BY <1>1, NoneIsNoRequest
    <2>7. QED BY <1>1, <2>3, <2>4, <2>5, <2>6, MoveKeeps
  <1>6. QED BY <1>3, <1>4, <1>5 DEF Reload

\* Taking a lease and giving it back change no grant.
LEMMA LeaseKeeps ==
  ASSUME Inv, NEW r \in Requests, Lease(r) \/ Prepare(r) \/ Sent(r)
  PROVE  Inv'
  <1>1. Spent /\ requests[r] # None /\ UNCHANGED <<grant, runtime, flows, rail, now, seen>>
    BY Spends DEF Lease, Prepare, Sent, At
  <1>2. "prepare" \in Steps /\ "dispatch" \in Steps /\ 0 \in Nat BY DEF Steps
  <1>3. CASE Answer(r) BY <1>1, <1>3, EndKeeps
  <1>4. CASE Lease(r) /\ ~Answer(r)
    <2>1. PICK n \in Nat : n = grant.tokens BY <1>4, GrantTyped DEF Lease, Matches
    <2>2. /\ requests' = [requests EXCEPT ![r] =
                          [requests[r] EXCEPT !.at = "prepare", !.tokens = n]]
          /\ gates' = [gates EXCEPT !.readers = @ \cup {r}] /\ gates.writer = None
      BY <1>4, <2>1 DEF Lease
    <2>3. PICK new : new = [requests[r] EXCEPT !.at = "prepare", !.tokens = n] OBVIOUS
    <2>4. new \in Slots /\ new.at = "prepare"
      BY <1>1, <1>2, <2>1, <2>3 DEF Inv, TypeInv, Slots
    <2>5. QED BY <1>1, <2>2, <2>3, <2>4, GoKeeps
  <1>5. CASE Prepare(r)
    <2>1. /\ requests' = [requests EXCEPT ![r] = [requests[r] EXCEPT !.at = "dispatch"]]
          /\ gates' = Without(r)
      BY <1>5 DEF Prepare, Goes
    <2>2. PICK new : new = [requests[r] EXCEPT !.at = "dispatch"] OBVIOUS
    <2>3. new \in Slots /\ new.at = "dispatch"
      BY <1>1, <1>2, <2>2, SlotGoes
    <2>4. QED BY <1>1, <2>1, <2>2, <2>3, GoKeeps
  <1>6. QED BY <1>3, <1>4, <1>5 DEF Sent

\* A turn acquires its lease only under the generation that is stored.
LEMMA AcquireKeeps ==
  ASSUME Inv, NEW r \in Requests, Acquire(r)
  PROVE  Inv'
  <1>1. Spent /\ requests[r] # None /\ UNCHANGED <<grant, runtime, flows, rail, now, seen>>
    BY Spends DEF Acquire, At
  <1>2. "sending" \in Steps /\ 0 \in Nat BY DEF Steps
  <1>3. CASE Answer(r) BY <1>1, <1>3, EndKeeps
  <1>4. CASE /\ Matches(r) /\ gates.writer = None /\ Goes(r, "sending")
             /\ gates' = [gates EXCEPT !.readers = @ \cup {r}]
    <2>1. PICK new : new = [requests[r] EXCEPT !.at = "sending"] OBVIOUS
    <2>2. new \in Slots /\ new.at = "sending" /\ new.generation = requests[r].generation
      BY <1>1, <1>2, <2>1, SlotGoes
    <2>3. /\ requests' \in [Requests -> Slots \cup {None}] /\ requests'[r] = new
          /\ \A x \in Requests \ {r} : requests'[x] = requests[x]
      BY <1>4, <2>1, <2>2 DEF Goes, Inv, TypeInv
    <2>4. gates' \in Locks /\ gates'.writer = None /\ gates'.readers = gates.readers \cup {r}
      BY <1>4 DEF Inv, TypeInv, Locks
    <2>5. GateInv' /\ RequestInv(r)'
      BY <1>1, <1>4, <2>2, <2>3, <2>4 DEF GateInv, RequestInv, At, Matches
    <2>6. \A x \in Requests \ {r} : gates.writer # x BY <1>4, NoneIsNoRequest
    <2>7. QED BY <1>1, <2>3, <2>4, <2>5, <2>6, MoveKeeps
  <1>5. QED BY <1>3, <1>4 DEF Acquire

\* Under the writing side of the gate no other request relies on the grant.
LEMMA WriterAlone ==
  ASSUME Inv, NEW r \in Requests, gates.writer = r
  PROVE  gates.readers = {} /\ \A x \in Requests \ {r} : gates.writer # x
BY NoneIsNoRequest DEF Inv, GateInv

\* Tokens given to the provider, once more.
LEMMA Exchanges ==
  ASSUME Inv, grant # None, NEW r \in Requests
  PROVE  /\ <<grant.tokens, r, seen.minted>> \in Nat \X Requests \X Nat
         /\ <<grant.tokens, r, seen.minted>>[1] = grant.tokens
         /\ grant.tokens <= seen.minted /\ seen.minted \in Nat
BY GrantTyped DEF Inv, TypeInv, TokenInv, History

\* A refresh stores the rotated tokens under the next generation.
LEMMA RefreshedKeeps ==
  ASSUME Inv, NEW r \in Requests, Refreshed(r)
  PROVE  Inv'
  <1>1. /\ gates.writer = r /\ grant # None /\ requests[r] # None
        /\ UNCHANGED <<runtime, flows, rail, now, left>>
    BY DEF Refreshed, At, Inv, RequestInv
  <1>2. grant \in Grants /\ grant.tokens \in Nat /\ grant.generation \in Nat BY <1>1, GrantTyped
  <1>3. PICK e : e = <<grant.tokens, r, seen.minted>> OBVIOUS
  <1>4. e \in Nat \X Requests \X Nat /\ e[1] = grant.tokens /\ grant.tokens <= seen.minted
    BY <1>1, <1>3, Exchanges
  <1>5. seen \in History /\ seen.minted \in Nat /\ seen.from \in Nat /\ seen.severed \in Int
        /\ seen.exchanged \subseteq Nat \X Requests \X Nat
    BY DEF Inv, TypeInv, History
  <1>6. /\ seen' \in History /\ seen'.minted = seen.minted + 1 /\ seen'.lost = seen.lost
        /\ seen'.exchanged = seen.exchanged \cup {e}
        /\ seen'.from = seen.from /\ seen'.severed = seen.severed
    <2>1. PICK m \in Nat : m = seen.minted + 1 BY <1>5
    <2>2. PICK all : all = seen.exchanged \cup {e} OBVIOUS
    <2>3. seen' = [seen EXCEPT !.minted = m, !.exchanged = all]
      BY <1>3, <2>1, <2>2 DEF Refreshed
    <2>4. all \in SUBSET (Nat \X Requests \X Nat) BY <1>4, <1>5, <2>2
    <2>5. QED BY <1>5, <2>1, <2>2, <2>3, <2>4 DEF History
  <1>7. now + left.lifetime \in Nat BY DEF Inv, TypeInv, Allowances
  <1>8. grant' \in Grants /\ grant'.tokens = seen.minted + 1
    BY <1>2, <1>5, <1>7 DEF Refreshed, Fresh, Grants
  <1>9. grant' # None BY <1>8, NoneIsNoGrant
  <1>10. gates' = Without(r) BY DEF Refreshed
  <1>11. gates' \in Locks /\ gates'.readers = {} /\ GateInv'
    BY <1>1, <1>10, WriterAlone DEF Without, GateInv, Inv, TypeInv, Locks
  <1>12. PICK n \in Nat : n = grant.generation + 1 BY <1>2
  <1>13. PICK new : new = [requests[r] EXCEPT !.at = "lease", !.generation = n] OBVIOUS
  <1>14. new \in Slots /\ new.at = "lease"
    BY <1>1, <1>12, <1>13 DEF Inv, TypeInv, Slots, Steps
  <1>15. /\ requests' \in [Requests -> Slots \cup {None}] /\ requests'[r] = new
         /\ \A x \in Requests \ {r} : requests'[x] = requests[x]
    BY <1>12, <1>13, <1>14 DEF Refreshed, Holding, Inv, TypeInv
  <1>16. TypeInv'
    BY <1>1, <1>6, <1>8, <1>11, <1>15 DEF Inv, TypeInv
  <1>17. FlowInv' /\ RuntimeInv' /\ RailInv' BY <1>1, <1>6, <1>9, QuietFlows
  <1>18. TokenInv'
    <2>1. grant'.tokens <= seen'.minted /\ seen'.from > seen'.severed
      BY <1>1, <1>5, <1>6, <1>8 DEF Inv, TokenInv
    <2>2. ASSUME NEW x \in seen'.exchanged
          PROVE  x[1] <= seen'.minted /\ x[1] # grant'.tokens
      <3>1. x[1] \in Nat /\ x[1] <= seen.minted
        BY <1>2, <1>4, <1>5, <1>6 DEF Inv, TokenInv
      <3>2. QED BY <3>1, <1>5, <1>6, <1>8
    <2>3. ASSUME NEW x \in seen'.exchanged, NEW y \in seen'.exchanged, x[1] = y[1], x # y
          PROVE  x[1] \in seen'.lost
      BY <2>3, <1>1, <1>4, <1>6 DEF Inv, TokenInv
    <2>4. QED BY <2>1, <2>2, <2>3 DEF TokenInv
  <1>19. RequestInv(r)' BY <1>14, <1>15 DEF RequestInv, At
  <1>20. ASSUME NEW x \in Requests \ {r} PROVE RequestInv(x)'
    BY <1>1, <1>15, WriterAlone, Frame DEF Undisturbed, Inv
  <1>21. QED BY <1>11, <1>16, <1>17, <1>18, <1>19, <1>20 DEF Inv

\* A refresh that fails keeps the grant and counts its token as lost.
LEMMA RefreshFailsKeeps ==
  ASSUME Inv, NEW r \in Requests, RefreshFails(r)
  PROVE  Inv'
  <1>1. /\ gates.writer = r /\ grant # None /\ Answer(r)
        /\ UNCHANGED <<grant, runtime, flows, rail, now>> /\ Spent
    BY Spends DEF RefreshFails, At, Inv, RequestInv
  <1>2. grant.tokens \in Nat BY <1>1, GrantTyped
  <1>3. PICK e : e = <<grant.tokens, r, seen.minted>> OBVIOUS
  <1>4. e \in Nat \X Requests \X Nat /\ e[1] = grant.tokens /\ grant.tokens <= seen.minted
    BY <1>1, <1>3, Exchanges
  <1>5. /\ seen' \in History /\ seen'.minted = seen.minted
        /\ seen'.lost = seen.lost \cup {grant.tokens}
        /\ seen'.exchanged = seen.exchanged \cup {e}
        /\ seen'.from = seen.from /\ seen'.severed = seen.severed
    BY <1>2, <1>3, <1>4 DEF RefreshFails, Inv, TypeInv, History
  <1>6. TypeInv' BY <1>1, <1>5, AnswerFrees DEF Inv, TypeInv, Spent
  <1>7. FlowInv' /\ RuntimeInv' /\ RailInv' BY <1>1, <1>5, QuietFlows DEF Spent
  <1>8. TokenInv' BY <1>1, <1>4, <1>5 DEF Inv, TokenInv
  <1>9. ASSUME NEW x \in Requests \ {r} PROVE RequestInv(x)'
    BY <1>1, AnswerFrees, Frame DEF Undisturbed, Inv
  <1>10. QED BY <1>1, <1>6, <1>7, <1>8, <1>9, AnswerFrees DEF Inv

-----------------------------------------------------------------------------
(* Enrollments and the projection. *)

\* When the projection does not wait, nothing is about to be stored or reported.
LEMMA NothingAwaited ==
  ASSUME Inv, runtime.is # "Awaiting"
  PROVE  (\A g \in 1..left.flows : ~Live(g) /\ ~Connected(g)) /\ rail = RailFor(grant)
BY DEF Inv, FlowInv, RailInv, Connected, Current

\* A step of request r under the unlocked projection, by which the locks and
\* the other requests keep what they have.
LEMMA OthersKeep ==
  ASSUME Inv, NEW r \in Requests, runtime.holder \in {None, r}, grant' = grant,
         \A x \in Requests \ {r} : /\ requests'[x] = requests[x]
                                   /\ x \in gates.readers => x \in gates'.readers
                                   /\ gates.writer = x => gates'.writer = x
  PROVE  \A x \in Requests \ {r} : RequestInv(x)'
  <1>1. ASSUME NEW x \in Requests \ {r} PROVE RequestInv(x)'
    BY <1>1, NoneIsNoRequest, Frame DEF Undisturbed, Inv
  <1>2. QED BY <1>1

\* An enrollment begins only when no other is under way.
LEMMA BeginKeeps ==
  ASSUME Inv, NEW r \in Requests, Begin(r)
  PROVE  Inv'
  <1>1. /\ requests[r] # None /\ runtime.holder = None /\ Spent
        /\ UNCHANGED <<grant, flows, rail, now, seen, left>>
    BY Spends DEF Begin, At, Unlocked
  <1>2. CASE Answer(r) /\ UNCHANGED runtime BY <1>1, <1>2, EndKeeps
  <1>3. CASE /\ runtime.is \notin {"Starting", "Awaiting"} /\ runtime.next # left.flows
             /\ runtime' = [runtime EXCEPT !.next = @ + 1, !.is = "Starting",
                                           !.generation = runtime.next + 1]
             /\ requests' = [requests EXCEPT ![r].at = "authorize",
                                            ![r].generation = runtime.next + 1]
             /\ UNCHANGED gates
    <2>1. PICK n \in Nat : n = runtime.next + 1 BY DEF Inv, TypeInv, Projections
    <2>2. n <= left.flows /\ n > seen.severed /\ n >= 1
      BY <1>3, <2>1 DEF Inv, TypeInv, Projections, Allowances, RuntimeInv, History
    <2>3. /\ runtime' \in Projections /\ runtime'.next = n /\ runtime'.is = "Starting"
          /\ runtime'.generation = n /\ runtime'.holder = None
      BY <1>1, <1>3, <2>1 DEF Inv, TypeInv, Projections
    <2>4. PICK new : new = [requests[r] EXCEPT !.at = "authorize", !.generation = n] OBVIOUS
    <2>5. new \in Slots /\ new.at = "authorize"
      BY <1>1, <2>1, <2>4 DEF Inv, TypeInv, Slots, Steps
    <2>6. /\ requests' \in [Requests -> Slots \cup {None}] /\ requests'[r] = new
          /\ \A x \in Requests \ {r} : requests'[x] = requests[x]
      BY <1>3, <2>1, <2>4, <2>5 DEF Inv, TypeInv
    <2>7. TypeInv' BY <1>1, <1>3, <2>2, <2>3, <2>6 DEF Inv, TypeInv
    <2>8. /\ \A g \in 1..left.flows : ~Live(g)' /\ ~Connected(g)'
          /\ rail = RailFor(grant)
      BY <1>1, <1>3, <2>3, NothingAwaited DEF Live, Connected, Current
    <2>9. FlowInv' /\ RailInv' BY <1>1, <2>8 DEF FlowInv, RailInv, RailFor
    <2>10. RuntimeInv'
      BY <1>1, <2>1, <2>2, <2>3 DEF Inv, RuntimeInv, TypeInv, Projections, History
    <2>11. TokenInv' BY <1>1, QuietTokens
    <2>12. GateInv' BY <1>3 DEF Inv, GateInv
    <2>13. RequestInv(r)' BY <2>5, <2>6 DEF RequestInv, At
    <2>14. \A x \in Requests \ {r} : RequestInv(x)' BY <1>1, <1>3, <2>6, OthersKeep
    <2>15. QED BY <2>7, <2>9, <2>10, <2>11, <2>12, <2>13, <2>14 DEF Inv
  <1>4. QED BY <1>2, <1>3 DEF Begin

\* A device authorization creates the flow its task polls.
LEMMA AuthorizeKeeps ==
  ASSUME Inv, NEW r \in Requests, Authorize(r)
  PROVE  Inv'
  <1>1. /\ requests[r] # None /\ runtime.holder = None /\ Spent /\ Answer(r)
        /\ UNCHANGED <<grant, rail, now, seen, left>>
    BY Spends DEF Authorize, At, Unlocked
  <1>2. CASE UNCHANGED <<runtime, flows>> BY <1>1, <1>2, EndKeeps
  <1>3. ASSUME NEW is \in {"Awaiting", "Failed"}, runtime.is = "Starting",
               runtime' = [runtime EXCEPT !.is = is],
               \A g \in 1..left.flows : Live(g)' => is = "Awaiting" /\ g = runtime.generation,
               \A g \in 1..left.flows : is = "Awaiting" /\ g = runtime.generation =>
                                          flows'[g].at # "done",
               flows' \in [1..left.flows -> Flows]
        PROVE  Inv'
    <2>1. /\ runtime' \in Projections /\ runtime'.is = is /\ runtime'.next = runtime.next
          /\ runtime'.generation = runtime.generation /\ runtime'.holder = None
      BY <1>1, <1>3 DEF Inv, TypeInv, Projections
    <2>2. TypeInv' BY <1>1, <1>3, <2>1, AnswerFrees DEF Inv, TypeInv
    <2>3. rail = RailFor(grant) BY <1>3, NothingAwaited
    <2>4. FlowInv' BY <1>1, <1>3, <2>1 DEF FlowInv, Connected, Current
    <2>5. RailInv' BY <1>1, <2>3 DEF RailInv, RailFor
    <2>6. RuntimeInv' BY <1>1, <1>3, <2>1 DEF Inv, RuntimeInv
    <2>7. TokenInv' BY <1>1, QuietTokens
    <2>8. \A x \in Requests \ {r} : RequestInv(x)' BY <1>1, AnswerFrees, OthersKeep
    <2>9. QED BY <1>1, <2>2, <2>4, <2>5, <2>6, <2>7, <2>8, AnswerFrees DEF Inv
  <1>4. CASE runtime.is = "Starting" /\ runtime' = [runtime EXCEPT !.is = "Failed"] /\ UNCHANGED flows
    <2>1. \A g \in 1..left.flows : ~Live(g)' BY <1>4, NothingAwaited DEF Live
    <2>2. flows' \in [1..left.flows -> Flows] BY <1>4 DEF Inv, TypeInv
    <2>3. QED BY <1>3, <1>4, <2>1, <2>2
  <1>5. ASSUME runtime.is = "Starting", runtime' = [runtime EXCEPT !.is = "Awaiting"],
               flows' = [flows EXCEPT ![runtime.generation] =
                 [NoFlow EXCEPT !.at = "poll", !.expires = now + left.patience]]
        PROVE  Inv'
    <2>1. runtime.generation \in 1..left.flows
      BY <1>5 DEF Inv, TypeInv, RuntimeInv, Projections, Allowances
    <2>2. PICK new : new = [NoFlow EXCEPT !.at = "poll", !.expires = now + left.patience] OBVIOUS
    <2>3. new \in Flows /\ new.at = "poll"
      <3>1. NoFlow \in Flows BY DEF NoFlow, Flows
      <3>2. now + left.patience \in Nat BY DEF Inv, TypeInv, Allowances
      <3>3. QED BY <2>2, <3>1, <3>2 DEF Flows
    <2>4. /\ flows' \in [1..left.flows -> Flows] /\ flows'[runtime.generation] = new
          /\ \A g \in 1..left.flows \ {runtime.generation} : flows'[g] = flows[g]
      BY <1>5, <2>1, <2>2, <2>3 DEF Inv, TypeInv
    <2>5. \A g \in 1..left.flows : Live(g)' => g = runtime.generation
      BY <1>5, <2>4, NothingAwaited DEF Live
    <2>6. QED BY <1>3, <1>5, <2>3, <2>4, <2>5
  <1>6. QED BY <1>2, <1>4, <1>5 DEF Authorize, Current

\* Cancelling touches the cancellation of the awaited enrollment only.
LEMMA CancellingOne ==
  ASSUME Inv, flows' = Cancelling
  PROVE  /\ flows' \in [1..left.flows -> Flows]
         /\ \A g \in 1..left.flows :
              /\ flows'[g].at = flows[g].at /\ flows'[g].result = flows[g].result
              /\ flows[g].cancelled => flows'[g].cancelled
         /\ runtime.is = "Awaiting" => flows'[runtime.generation].cancelled
  <1>1. CASE runtime.is # "Awaiting" BY <1>1 DEF Cancelling, Inv, TypeInv
  <1>2. CASE runtime.is = "Awaiting"
    <2>1. PICK h \in 1..left.flows : h = runtime.generation
      BY <1>2 DEF Inv, TypeInv, RuntimeInv, Projections, Allowances
    <2>2. PICK new : new = [flows[h] EXCEPT !.cancelled = TRUE] OBVIOUS
    <2>3. /\ new \in Flows /\ new.cancelled /\ new.at = flows[h].at
          /\ new.result = flows[h].result
      <3>1. flows[h] \in Flows BY <2>1 DEF Inv, TypeInv
      <3>2. QED BY <2>2, <3>1, Zenon DEF Flows
    <2>4. flows' = [flows EXCEPT ![h] = new] BY <1>2, <2>1, <2>2 DEF Cancelling
    <2>5. /\ flows' \in [1..left.flows -> Flows] /\ flows'[h] = new
          /\ \A g \in 1..left.flows \ {h} : flows'[g] = flows[g]
      BY <2>3, <2>4 DEF Inv, TypeInv
    <2>6. QED BY <1>2, <2>1, <2>3, <2>5
  <1>3. QED BY <1>1, <1>2

\* A cancellation or the beginning of a disconnect.
LEMMA CancellingKeeps ==
  ASSUME Inv, NEW r \in Requests, runtime.holder = None, flows' = Cancelling,
         UNCHANGED <<grant, rail, gates, now, seen, left>>,
         NEW h \in {None, r}, runtime' = [runtime EXCEPT !.holder = h],
         NEW new \in Slots, requests' = [requests EXCEPT ![r] = new],
         new.at = "check" \/ (new.at = "delete" /\ h = r)
  PROVE  Inv'
  <1>1. /\ runtime' \in Projections /\ runtime'.is = runtime.is /\ runtime'.next = runtime.next
        /\ runtime'.generation = runtime.generation /\ runtime'.holder = h
    BY DEF Inv, TypeInv, Projections
  <1>2. /\ requests' \in [Requests -> Slots \cup {None}] /\ requests'[r] = new
        /\ \A x \in Requests \ {r} : requests'[x] = requests[x]
    BY DEF Inv, TypeInv
  <1>3. TypeInv' BY <1>1, <1>2, CancellingOne DEF Inv, TypeInv
  <1>4. /\ \A g \in 1..left.flows : (Live(g)' => Live(g)) /\ (Connected(g)' <=> Connected(g))
        /\ \A g : Current("Awaiting", g)' <=> Current("Awaiting", g)
    BY <1>1, CancellingOne DEF Live, Connected, Current
  <1>5. FlowInv' BY <1>4 DEF Inv, FlowInv
  <1>6. RailInv' BY <1>4 DEF Inv, RailInv, RailFor
  <1>7. RuntimeInv' BY <1>1, CancellingOne DEF Inv, RuntimeInv
  <1>8. TokenInv' BY QuietTokens
  <1>9. GateInv' BY DEF Inv, GateInv
  <1>10. RequestInv(r)' BY <1>1, <1>2 DEF RequestInv, At
  <1>11. \A x \in Requests \ {r} : RequestInv(x)' BY <1>2, OthersKeep
  <1>12. QED BY <1>3, <1>5, <1>6, <1>7, <1>8, <1>9, <1>10, <1>11 DEF Inv

\* Cancelling marks the flow; its task sees the mark before it stores a grant.
LEMMA CancelKeeps ==
  ASSUME Inv, NEW r \in Requests, Cancel(r)
  PROVE  Inv'
  <1>1. /\ requests[r] # None /\ runtime.holder = None /\ Spent
        /\ UNCHANGED <<grant, runtime, rail, now, seen, left>>
    BY Spends DEF Cancel, At, Unlocked
  <1>2. CASE Answer(r) /\ UNCHANGED flows BY <1>1, <1>2, EndKeeps
  <1>3. CASE /\ flows' = Cancelling /\ UNCHANGED gates
             /\ requests' = [requests EXCEPT ![r].at = "check",
                                            ![r].generation = runtime.generation]
    <2>1. PICK n \in Nat : n = runtime.generation BY DEF Inv, TypeInv, Projections
    <2>2. PICK new : new = [requests[r] EXCEPT !.at = "check", !.generation = n] OBVIOUS
    <2>3. new \in Slots /\ new.at = "check"
      BY <1>1, <2>1, <2>2 DEF Inv, TypeInv, Slots, Steps
    <2>4. requests' = [requests EXCEPT ![r] = new] BY <1>3, <2>1, <2>2
    <2>5. runtime' = [runtime EXCEPT !.holder = None]
      BY <1>1 DEF Inv, TypeInv, Projections
    <2>6. QED BY <1>1, <1>3, <2>3, <2>4, <2>5, CancellingKeeps
  <1>4. QED BY <1>2, <1>3 DEF Cancel

\* A disconnect cancels the flow and locks the projection until it has deleted.
LEMMA DisconnectKeeps ==
  ASSUME Inv, NEW r \in Requests, Disconnect(r)
  PROVE  Inv'
  <1>1. requests[r] # None /\ runtime.holder = None BY DEF Disconnect, At, Unlocked
  <1>2. PICK new : new = [requests[r] EXCEPT !.at = "delete"] OBVIOUS
  <1>3. new \in Slots /\ new.at = "delete"
    BY <1>1, <1>2 DEF Inv, TypeInv, Slots, Steps
  <1>4. requests' = [requests EXCEPT ![r] = new] BY <1>2 DEF Disconnect, Goes
  <1>5. QED BY <1>1, <1>3, <1>4, CancellingKeeps DEF Disconnect

\* The deletion under the exclusive side of the gate: nobody sends or
\* refreshes, and the enrollment that was awaited is cancelled.
LEMMA DeleteKeeps ==
  ASSUME Inv, NEW r \in Requests, Delete(r)
  PROVE  Inv'
  <1>1. /\ runtime.holder = r /\ gates.readers = {} /\ gates.writer = None /\ Answer(r)
        /\ grant' = None /\ rail' = "XaiApiKey" /\ UNCHANGED <<flows, now, left>> /\ Spent
        /\ runtime' = [runtime EXCEPT !.is = "Idle", !.holder = None]
        /\ seen' = [seen EXCEPT !.severed = runtime.next]
    BY Spends DEF Delete, Exclusive, Inv, RequestInv
  <1>2. /\ runtime' \in Projections /\ runtime'.is = "Idle" /\ runtime'.next = runtime.next
        /\ runtime'.generation = runtime.generation /\ runtime'.holder = None
    BY <1>1 DEF Inv, TypeInv, Projections
  <1>3. /\ seen' \in History /\ seen'.severed = runtime.next /\ seen'.minted = seen.minted
        /\ seen'.exchanged = seen.exchanged /\ seen'.lost = seen.lost
    BY <1>1 DEF Inv, TypeInv, History, Projections
  <1>4. TypeInv' BY <1>1, <1>2, <1>3, AnswerFrees DEF Inv, TypeInv
  <1>5. \A g \in 1..left.flows : ~Live(g)
    BY <1>1, NoneIsNoRequest DEF Inv, FlowInv, RuntimeInv, Live, Current
  <1>6. FlowInv' BY <1>1, <1>2, <1>5 DEF FlowInv, Live, Connected, Current
  <1>7. RuntimeInv' BY <1>2, <1>3, <1>4 DEF RuntimeInv, TypeInv, Projections
  <1>8. RailInv' BY <1>1 DEF RailInv, RailFor
  <1>9. TokenInv' BY <1>1, <1>3 DEF Inv, TokenInv
  <1>10. ASSUME NEW x \in Requests \ {r} PROVE RequestInv(x)'
    BY <1>1, NoneIsNoRequest, AnswerFrees DEF Inv, RequestInv, At
  <1>11. QED BY <1>1, <1>4, <1>6, <1>7, <1>8, <1>9, <1>10, AnswerFrees DEF Inv

\* A deletion that fails leaves the grant and the rail.
LEMMA DeleteFailsKeeps ==
  ASSUME Inv, NEW r \in Requests, DeleteFails(r)
  PROVE  Inv'
  <1>1. /\ runtime.holder = r /\ Answer(r) /\ UNCHANGED <<grant, flows, rail, now, seen>> /\ Spent
        /\ runtime' = [runtime EXCEPT !.holder = None]
    BY Spends DEF DeleteFails, Inv, RequestInv
  <1>2. /\ runtime' \in Projections /\ runtime'.is = runtime.is /\ runtime'.next = runtime.next
        /\ runtime'.generation = runtime.generation /\ runtime'.holder = None
    BY <1>1 DEF Inv, TypeInv, Projections
  <1>3. TypeInv' BY <1>1, <1>2, AnswerFrees DEF Inv, TypeInv, Spent
  <1>4. /\ \A g : (Live(g)' <=> Live(g)) /\ (Connected(g)' <=> Connected(g))
        /\ \A g : Current("Awaiting", g)' <=> Current("Awaiting", g)
    BY <1>1, <1>2 DEF Live, Connected, Current
  <1>5. FlowInv' BY <1>1, <1>4 DEF Inv, FlowInv, Spent
  <1>6. RailInv' BY <1>1, <1>4 DEF Inv, RailInv, RailFor, Spent
  <1>7. RuntimeInv' BY <1>1, <1>2 DEF Inv, RuntimeInv
  <1>8. TokenInv' BY <1>1, QuietTokens
  <1>9. \A x \in Requests \ {r} : RequestInv(x)' BY <1>1, AnswerFrees, OthersKeep
  <1>10. QED BY <1>1, <1>3, <1>5, <1>6, <1>7, <1>8, <1>9, AnswerFrees DEF Inv

-----------------------------------------------------------------------------
(* The polling tasks. *)

\* A task goes on, or ends without having stored a grant.
LEMMA FlowMoves ==
  ASSUME Inv, NEW g \in 1..left.flows, flows[g].at \in {"poll", "polling", "sleeping", "granted"},
         NEW new \in Flows, flows' = [flows EXCEPT ![g] = new],
         new.cancelled = flows[g].cancelled, new.at = "done" => new.result # "Connected",
         UNCHANGED <<grant, runtime, rail, gates, requests, now, seen>>, Spent
  PROVE  Inv'
  <1>1. /\ flows' \in [1..left.flows -> Flows] /\ flows'[g] = new
        /\ \A h \in 1..left.flows \ {g} : flows'[h] = flows[h]
    BY DEF Inv, TypeInv
  <1>2. TypeInv' BY <1>1 DEF Inv, TypeInv, Spent
  <1>3. /\ \A h \in 1..left.flows : (Live(h)' => Live(h)) /\ (Connected(h)' <=> Connected(h))
        /\ \A h : Current("Awaiting", h)' <=> Current("Awaiting", h)
    BY <1>1 DEF Live, Connected, Current
  <1>4. FlowInv' BY <1>3 DEF Inv, FlowInv, Spent
  <1>5. RailInv' BY <1>3 DEF Inv, RailInv, RailFor, Spent
  <1>6. RuntimeInv'
    <2>1. runtime.is = "Awaiting" => runtime.generation \in 1..left.flows
      BY DEF Inv, TypeInv, RuntimeInv, Projections, Allowances
    <2>2. QED BY <1>1, <2>1 DEF Inv, RuntimeInv
  <1>7. TokenInv' BY QuietTokens
  <1>8. GateInv' BY DEF Inv, GateInv
  <1>9. \A x \in Requests : RequestInv(x)' BY DEF Inv, RequestInv, At
  <1>10. QED BY <1>2, <1>4, <1>5, <1>6, <1>7, <1>8, <1>9 DEF Inv

\* A flow that moves on keeps its mark of cancellation.
LEMMA FlowGoes ==
  ASSUME Inv, NEW g \in 1..left.flows, NEW at \in {"poll", "polling", "sleeping", "granted"},
         NEW new, new = [flows[g] EXCEPT !.at = at]
  PROVE  new \in Flows /\ new.at = at /\ new.cancelled = flows[g].cancelled
  <1>1. flows[g] \in Flows BY DEF Inv, TypeInv
  <1>2. QED BY <1>1, Zenon DEF Flows

\* So does one that ends.
LEMMA FlowEnds ==
  ASSUME Inv, NEW g \in 1..left.flows, NEW result \in {"Connected", "Cancelled", "Failed"},
         NEW new, new = [flows[g] EXCEPT !.at = "done", !.result = result]
  PROVE  /\ new \in Flows /\ new.at = "done" /\ new.result = result
         /\ new.cancelled = flows[g].cancelled
  <1>1. flows[g] \in Flows BY DEF Inv, TypeInv
  <1>2. QED BY <1>1, Zenon DEF Flows

\* The steps of the polling task that store no grant keep the invariant.
LEMMA TaskKeeps ==
  ASSUME Inv, NEW g \in 1..left.flows,
         \/ Poll(g) \/ PollAnswered(g) \/ Sleeping(g) \/ PersistFails(g)
         \/ Persist(g) /\ flows[g].cancelled
  PROVE  Inv'
  <1>1. /\ flows[g].at \in {"poll", "polling", "sleeping", "granted"}
        /\ UNCHANGED <<grant, runtime, rail, gates, requests, now, seen>> /\ Spent
    BY Spends DEF Poll, PollAnswered, Sleeping, PersistFails, Persist
  <1>2. CASE \E result \in {"Cancelled", "Failed"} : Ends(g, result)
    <2>1. PICK result \in {"Cancelled", "Failed"} : Ends(g, result) BY <1>2
    <2>2. PICK new : new = [flows[g] EXCEPT !.at = "done", !.result = result] OBVIOUS
    <2>3. flows' = [flows EXCEPT ![g] = new] BY <2>1, <2>2 DEF Ends
    <2>4. new \in Flows /\ new.result # "Connected" /\ new.cancelled = flows[g].cancelled
      BY <2>2, FlowEnds
    <2>5. QED BY <1>1, <2>3, <2>4, FlowMoves
  <1>3. CASE \E at \in {"poll", "polling", "sleeping", "granted"} :
               flows' = [flows EXCEPT ![g].at = at]
    <2>1. PICK at \in {"poll", "polling", "sleeping", "granted"} :
            flows' = [flows EXCEPT ![g].at = at]
      BY <1>3
    <2>2. PICK new : new = [flows[g] EXCEPT !.at = at] OBVIOUS
    <2>3. flows' = [flows EXCEPT ![g] = new] BY <2>1, <2>2
    <2>4. new \in Flows /\ new.at # "done" /\ new.cancelled = flows[g].cancelled
      BY <2>2, FlowGoes
    <2>5. QED BY <1>1, <2>3, <2>4, FlowMoves
  <1>4. QED BY <1>2, <1>3 DEF Poll, PollAnswered, Sleeping, PersistFails, Persist

\* The grant of the enrollment that the projection awaits is stored.
LEMMA EnrolledKeeps ==
  ASSUME Inv, NEW g \in 1..left.flows, Persist(g), ~flows[g].cancelled
  PROVE  Inv'
  <1>1. /\ flows[g].at = "granted" /\ gates.readers = {} /\ gates.writer = None /\ Enrolled(g)
        /\ UNCHANGED <<runtime, rail, gates, requests, now, left>>
    BY DEF Persist, Exclusive
  <1>2. Live(g) /\ Current("Awaiting", g)
    BY <1>1 DEF Live, Inv, FlowInv
  <1>3. g > seen.severed BY <1>2 DEF Inv, RuntimeInv, Current
  <1>4. PICK new : new = [flows[g] EXCEPT !.at = "done", !.result = "Connected"] OBVIOUS
  <1>5. new \in Flows /\ new.at = "done" /\ new.result = "Connected"
        /\ new.cancelled = flows[g].cancelled
    BY <1>4, FlowEnds
  <1>6. /\ flows' \in [1..left.flows -> Flows] /\ flows'[g] = new
        /\ \A h \in 1..left.flows \ {g} : flows'[h] = flows[h]
    BY <1>1, <1>4, <1>5 DEF Enrolled, Ends, Inv, TypeInv
  <1>7. seen \in History /\ seen.minted \in Nat /\ seen.severed \in Int
        /\ seen.exchanged \subseteq Nat \X Requests \X Nat
    BY DEF Inv, TypeInv, History
  <1>8. /\ seen' \in History /\ seen'.minted = seen.minted + 1 /\ seen'.from = g
        /\ seen'.lost = seen.lost /\ seen'.exchanged = seen.exchanged
        /\ seen'.severed = seen.severed
    <2>1. PICK m \in Nat : m = seen.minted + 1 BY <1>7
    <2>2. seen' = [seen EXCEPT !.minted = m, !.from = g] BY <1>1, <2>1 DEF Enrolled
    <2>3. g \in Nat BY DEF Inv, TypeInv, Allowances
    <2>4. QED BY <1>7, <2>1, <2>2, <2>3 DEF History
  <1>9. now + left.lifetime \in Nat BY DEF Inv, TypeInv, Allowances
  <1>10. grant' \in Grants /\ grant'.tokens = seen.minted + 1
    BY <1>1, <1>7, <1>9 DEF Enrolled, Fresh, Grants
  <1>11. grant' # None BY <1>10, NoneIsNoGrant
  <1>12. TypeInv' BY <1>1, <1>6, <1>8, <1>10 DEF Inv, TypeInv
  <1>13. /\ \A h \in 1..left.flows : Live(h)' => Live(h)
         /\ \A h : Current("Awaiting", h)' <=> Current("Awaiting", h)
         /\ Connected(g)'
    BY <1>1, <1>2, <1>5, <1>6 DEF Live, Connected, Current
  <1>14. FlowInv' BY <1>1, <1>11, <1>13 DEF Inv, FlowInv
  <1>15. RailInv' BY <1>1, <1>11, <1>13 DEF RailInv
  <1>16. RuntimeInv'
    <2>1. runtime.is = "Awaiting" => runtime.generation \in 1..left.flows
      BY DEF Inv, TypeInv, RuntimeInv, Projections, Allowances
    <2>2. QED BY <1>1, <1>5, <1>6, <1>8, <2>1 DEF Inv, RuntimeInv
  <1>17. TokenInv'
    <2>1. \A x \in seen.exchanged : x[1] \in Nat /\ x[1] <= seen.minted
      BY <1>7 DEF Inv, TokenInv
    <2>2. \A x \in seen'.exchanged : x[1] <= seen'.minted /\ x[1] # grant'.tokens
      BY <2>1, <1>7, <1>8, <1>10
    <2>3. grant'.tokens <= seen'.minted /\ seen'.from > seen'.severed
      BY <1>3, <1>7, <1>8, <1>10
    <2>4. QED BY <2>2, <2>3, <1>8 DEF Inv, TokenInv
  <1>18. GateInv' BY <1>1 DEF Inv, GateInv
  <1>19. ASSUME NEW x \in Requests PROVE RequestInv(x)'
    BY <1>1, NoneIsNoRequest DEF Inv, RequestInv, At
  <1>20. QED BY <1>12, <1>14, <1>15, <1>16, <1>17, <1>18, <1>19 DEF Inv

\* A task that is done reports to the projection that still waits for it.
LEMMA FinishKeeps ==
  ASSUME Inv, NEW g \in 1..left.flows, Finish(g)
  PROVE  Inv'
  <1>1. /\ flows[g].at = "done" /\ runtime.holder = None /\ flows' = [flows EXCEPT ![g] = NoFlow]
        /\ UNCHANGED <<grant, gates, now, seen, left>>
    BY DEF Finish, Unlocked
  <1>2. NoFlow \in Flows /\ NoFlow.at = "none" BY DEF NoFlow, Flows
  <1>3. /\ flows' \in [1..left.flows -> Flows] /\ flows'[g] = NoFlow
        /\ \A h \in 1..left.flows \ {g} : flows'[h] = flows[h]
    BY <1>1, <1>2 DEF Inv, TypeInv
  <1>4. \A h \in 1..left.flows : Live(h)' => Live(h) /\ h # g BY <1>2, <1>3 DEF Live
  <1>5. TokenInv' /\ GateInv' BY <1>1, QuietTokens DEF Inv, GateInv
  <1>6. CASE Current("Awaiting", g)
    <2>1. PICK is \in {"Failed", "Idle"} : runtime' = [runtime EXCEPT !.is = is]
      BY <1>6 DEF Finish
    <2>2. /\ runtime' \in Projections /\ runtime'.is = is /\ runtime'.next = runtime.next
          /\ runtime'.generation = runtime.generation /\ runtime'.holder = None
      BY <1>1, <2>1 DEF Inv, TypeInv, Projections
    <2>3. requests' = [r \in Requests |->
                 IF At(r, "parked") THEN [requests[r] EXCEPT !.at = "check"] ELSE requests[r]]
      BY <1>6 DEF Finish
    <2>4. /\ requests' \in [Requests -> Slots \cup {None}]
          /\ \A r \in Requests : requests'[r] = requests[r] \/ requests'[r].at = "check"
      <3>1. ASSUME NEW r \in Requests, At(r, "parked")
            PROVE  /\ [requests[r] EXCEPT !.at = "check"] \in Slots
                   /\ [requests[r] EXCEPT !.at = "check"].at = "check"
        BY <3>1 DEF At, Inv, TypeInv, Slots, Steps
      <3>2. QED BY <2>3, <3>1 DEF Inv, TypeInv
    <2>5. rail' = IF flows[g].result = "Connected" THEN "SuperGrokApi" ELSE rail
      BY <1>6 DEF Finish
    <2>6. TypeInv' BY <1>1, <1>3, <2>2, <2>4, <2>5 DEF Inv, TypeInv
    <2>7. FlowInv'
      BY <1>1, <1>4, <1>6, <2>2 DEF Inv, FlowInv, Connected, Current
    <2>8. rail' = RailFor(grant)
      <3>1. CASE flows[g].result = "Connected"
        BY <3>1, <1>1, <1>6, <2>5 DEF Inv, FlowInv, Connected, RailFor
      <3>2. CASE flows[g].result # "Connected"
        BY <3>2, <1>6, <2>5 DEF Inv, RailInv, Connected, Current
      <3>3. QED BY <3>1, <3>2
    <2>9. RailInv' BY <1>1, <2>8 DEF RailInv, RailFor
    <2>10. RuntimeInv' BY <1>1, <2>2 DEF Inv, RuntimeInv
    <2>11. ASSUME NEW x \in Requests PROVE RequestInv(x)'
      BY <1>1, <2>2, <2>4, NoneIsNoRequest DEF Inv, RequestInv, At
    <2>12. QED BY <1>5, <2>6, <2>7, <2>9, <2>10, <2>11 DEF Inv
  <1>7. CASE ~Current("Awaiting", g)
    <2>1. UNCHANGED <<runtime, rail, requests>> BY <1>7 DEF Finish
    <2>2. TypeInv' BY <1>1, <1>3, <2>1 DEF Inv, TypeInv
    <2>3. \A h : Current("Awaiting", h)' <=> Current("Awaiting", h) BY <2>1 DEF Current
    <2>4. \A h \in 1..left.flows : Connected(h)' <=> Connected(h)
      BY <1>1, <1>2, <1>3, <1>7, <2>3 DEF Connected
    <2>5. FlowInv' BY <1>1, <1>4, <2>3, <2>4 DEF Inv, FlowInv
    <2>6. RailInv' BY <1>1, <2>1, <2>4 DEF Inv, RailInv, RailFor
    <2>7. RuntimeInv' BY <1>1, <2>1 DEF Inv, RuntimeInv
    <2>8. ASSUME NEW x \in Requests PROVE RequestInv(x)'
      BY <1>1, <2>1 DEF Inv, RequestInv, At
    <2>9. QED BY <1>5, <2>2, <2>5, <2>6, <2>7, <2>8 DEF Inv
  <1>8. QED BY <1>6, <1>7

-----------------------------------------------------------------------------
(* The clock, the daemon, and the theorems. *)

\* Time only passes.
LEMMA TickKeeps ==
  ASSUME Inv, Tick
  PROVE  Inv'
  <1>1. UNCHANGED <<grant, runtime, flows, rail, gates, requests, seen, left>> BY DEF Tick
  <1>2. TypeInv' BY <1>1 DEF Tick, Inv, TypeInv
  <1>3. FlowInv' /\ RuntimeInv' /\ RailInv' BY <1>1, QuietFlows
  <1>4. TokenInv' BY <1>1, QuietTokens
  <1>5. GateInv' /\ \A x \in Requests : RequestInv(x)'
    BY <1>1 DEF Inv, GateInv, RequestInv, At
  <1>6. QED BY <1>2, <1>3, <1>4, <1>5 DEF Inv

\* A restart drops every request and flow and reads the rail from the grant.
LEMMA RestartKeeps ==
  ASSUME Inv, Restart
  PROVE  Inv'
  <1>1. /\ Spent /\ rail' = RailFor(grant) /\ runtime' = [Idle EXCEPT !.next = runtime.next]
        /\ flows' = [g \in DOMAIN flows |-> NoFlow] /\ gates' = OpenGates
        /\ requests' = [r \in Requests |-> None] /\ UNCHANGED <<grant, now>>
    BY Spends DEF Restart
  <1>2. /\ runtime' \in Projections /\ runtime'.is = "Idle" /\ runtime'.next = runtime.next
        /\ runtime'.generation = 0 /\ runtime'.holder = None
    BY <1>1 DEF Idle, Projections, Inv, TypeInv
  <1>3. NoFlow \in Flows /\ NoFlow.at = "none" BY DEF NoFlow, Flows
  <1>4. flows' \in [1..left.flows -> Flows] /\ \A g \in 1..left.flows : flows'[g] = NoFlow
    BY <1>1, <1>3 DEF Inv, TypeInv
  <1>5. PICK asked : asked = {r \in Requests : At(r, "refreshing")} OBVIOUS
  <1>6. PICK lost, given :
          /\ lost = IF asked = {} THEN seen.lost ELSE seen.lost \cup {grant.tokens}
          /\ given = seen.exchanged \cup {<<grant.tokens, r, seen.minted>> : r \in asked}
    OBVIOUS
  <1>7. seen' = [seen EXCEPT !.lost = lost, !.exchanged = given]
    BY <1>5, <1>6 DEF Restart
  <1>8. asked # {} => grant # None BY <1>5 DEF Inv, RequestInv
  <1>9. \A x \in given : x \in seen.exchanged \/ (asked # {} /\ x[1] = grant.tokens
                            /\ x \in Nat \X Requests \X Nat /\ x[1] <= seen.minted)
    BY <1>5, <1>6, <1>8, Exchanges
  <1>10. /\ lost \in SUBSET Nat /\ given \in SUBSET (Nat \X Requests \X Nat)
         /\ seen.lost \subseteq lost /\ (asked # {} => grant.tokens \in lost)
    <2>1. seen.lost \subseteq Nat /\ seen.exchanged \subseteq Nat \X Requests \X Nat
      BY DEF Inv, TypeInv, History
    <2>2. QED BY <2>1, <1>6, <1>8, <1>9, GrantTyped
  <1>11. /\ seen' \in History /\ seen'.lost = lost /\ seen'.exchanged = given
         /\ seen'.minted = seen.minted /\ seen'.from = seen.from /\ seen'.severed = seen.severed
    BY <1>7, <1>10 DEF Inv, TypeInv, History
  <1>12. TypeInv'
    <2>1. gates' \in Locks BY <1>1 DEF OpenGates, Locks
    <2>2. rail' \in {"XaiApiKey", "SuperGrokApi"} BY <1>1 DEF RailFor
    <2>3. requests' \in [Requests -> Slots \cup {None}] BY <1>1
    <2>4. runtime'.generation <= runtime'.next /\ runtime'.next <= left'.flows
      BY <1>1, <1>2 DEF Inv, TypeInv, Projections, Spent
    <2>5. left' \in Allowances /\ flows' \in [1..left'.flows -> Flows] BY <1>1, <1>4 DEF Spent
    <2>6. now' \in Nat /\ grant' \in Grants \cup {None} BY <1>1 DEF Inv, TypeInv
    <2>7. QED BY <1>2, <1>11, <2>1, <2>2, <2>3, <2>4, <2>5, <2>6 DEF TypeInv
  <1>13. FlowInv' BY <1>1, <1>2, <1>3, <1>4 DEF FlowInv, Live, Connected, Current, Spent
  <1>14. RailInv' BY <1>1 DEF RailInv, RailFor
  <1>15. RuntimeInv' BY <1>2, <1>11 DEF Inv, RuntimeInv
  <1>16. TokenInv' BY <1>1, <1>9, <1>10, <1>11 DEF Inv, TokenInv
  <1>17. GateInv' /\ \A x \in Requests : RequestInv(x)'
    BY <1>1 DEF GateInv, OpenGates, RequestInv, At
  <1>18. QED BY <1>12, <1>13, <1>14, <1>15, <1>16, <1>17 DEF Inv

\* A daemon that starts with or without a grant satisfies the invariant.
LEMMA InitKeeps == Init => Inv
  <1> SUFFICES ASSUME Init PROVE Inv OBVIOUS
  <1>1. left \in Allowances /\ grant = left.grant /\ grant \in Grants \cup {None}
    BY DEF Init, Allowances
  <1>2. runtime = Idle /\ Idle \in Projections /\ Idle.next = 0 /\ Idle.generation = 0
        /\ Idle.is = "Idle" /\ Idle.holder = None
    BY DEF Init, Idle, Projections
  <1>3. NoFlow \in Flows /\ NoFlow.at = "none" BY DEF NoFlow, Flows
  <1>4. flows \in [1..left.flows -> Flows] /\ \A g \in 1..left.flows : flows[g] = NoFlow
    BY <1>3 DEF Init
  <1>5. /\ seen \in History /\ seen.exchanged = {} /\ seen.from = 0 /\ seen.severed = -1
        /\ grant # None => seen.minted = grant.tokens /\ grant.tokens \in Nat
    <2>1. PICK m : m = IF left.grant = None THEN 0 ELSE left.grant.tokens OBVIOUS
    <2>2. m \in Nat BY <1>1, <2>1 DEF Grants
    <2>3. seen = [minted |-> m, exchanged |-> {}, lost |-> {}, from |-> 0, severed |-> -1]
      BY <2>1 DEF Init
    <2>4. QED BY <1>1, <2>1, <2>2, <2>3 DEF History
  <1>6. TypeInv
    <2>1. gates \in Locks BY DEF Init, OpenGates, Locks
    <2>2. rail \in {"XaiApiKey", "SuperGrokApi"} BY DEF Init, RailFor
    <2>3. requests \in [Requests -> Slots \cup {None}] /\ now \in Nat BY DEF Init
    <2>4. runtime.generation <= runtime.next /\ runtime.next <= left.flows
      BY <1>1, <1>2 DEF Allowances
    <2>5. QED BY <1>1, <1>2, <1>4, <1>5, <2>1, <2>2, <2>3, <2>4 DEF TypeInv
  <1>7. FlowInv BY <1>2, <1>3, <1>4 DEF FlowInv, Live, Connected
  <1>8. RuntimeInv BY <1>2, <1>5 DEF RuntimeInv
  <1>9. RailInv BY <1>1 DEF Init, RailInv
  <1>10. TokenInv BY <1>5 DEF TokenInv
  <1>11. GateInv /\ \A x \in Requests : RequestInv(x)
    BY DEF Init, GateInv, OpenGates, RequestInv, At
  <1>12. QED BY <1>6, <1>7, <1>8, <1>9, <1>10, <1>11 DEF Inv

\* Every step of a request, of an enrollment's task, of the clock and of the
\* daemon keeps what the projection, the locks and the vault know of each
\* other.
THEOREM StepsKeepInv == Inv /\ [Next]_vars => Inv'
  <1> SUFFICES ASSUME Inv, [Next]_vars PROVE Inv' OBVIOUS
  <1>1. CASE UNCHANGED vars
    <2>1. UNCHANGED <<grant, runtime, flows, rail, gates, requests, now, seen, left>>
      BY <1>1 DEF vars
    <2>2. TypeInv' BY <2>1 DEF Inv, TypeInv
    <2>3. FlowInv' /\ RuntimeInv' /\ RailInv' BY <2>1, QuietFlows
    <2>4. TokenInv' BY <2>1, QuietTokens
    <2>5. GateInv' /\ \A x \in Requests : RequestInv(x)'
      BY <2>1 DEF Inv, GateInv, RequestInv, At
    <2>6. QED BY <2>2, <2>3, <2>4, <2>5 DEF Inv
  <1>2. ASSUME NEW r \in Requests, Ask(r) \/ RequestStep(r) \/ DeleteFails(r) \/ RefreshFails(r)
        PROVE  Inv'
    BY <1>2, AskKeeps, BeginKeeps, AuthorizeKeeps, CancelKeeps, CancelWaitKeeps, DisconnectKeeps,
       DeleteKeeps, DeleteFailsKeeps, LoadKeeps, ReloadKeeps, RefreshedKeeps, RefreshFailsKeeps,
       LeaseKeeps, AcquireKeeps DEF RequestStep, Proceed
  <1>3. ASSUME NEW g \in DOMAIN flows, Advance(g) \/ PersistFails(g)
        PROVE  Inv'
    <2>1. g \in 1..left.flows BY DEF Inv, TypeInv
    <2>2. QED BY <1>3, <2>1, TaskKeeps, EnrolledKeeps, FinishKeeps DEF Advance
  <1>4. QED BY <1>1, <1>2, <1>3, TickKeeps, RestartKeeps DEF Next

\* The inductive invariant implies what the grant promises.
LEMMA InvImpliesSound == Inv => GrantsSound
  <1> SUFFICES ASSUME Inv PROVE GrantsSound OBVIOUS
  <1>1. grant # None => seen.from > seen.severed BY DEF Inv, TokenInv
  <1>2. Unlocked /\ ~Reporting => rail = RailFor(grant)
    BY DEF Inv, RailInv, Connected, Reporting, TypeInv
  <1>3. \A x, y \in seen.exchanged : x[1] = y[1] /\ x # y => x[1] \in seen.lost
    BY DEF Inv, TokenInv
  <1>4. \A r \in Requests : At(r, "sending") =>
          grant # None /\ grant.generation = requests[r].generation
    BY DEF Inv, RequestInv
  <1>5. QED BY <1>1, <1>2, <1>3, <1>4 DEF GrantsSound

\* No enrollment that was under way when a disconnect finished stores a grant
\* any more; outside a report or a disconnect in progress, new chats use the
\* SuperGrok rail exactly when there is a grant; a refresh token is given to
\* the provider once, unless its answer was lost; what a turn sends under a
\* lease has the generation of the stored grant.  For any number of requests
\* and enrollments, whatever fails and wherever the daemon stops.
THEOREM GrantsHold == Spec => []GrantsSound
  <1>1. Init => Inv BY InitKeeps
  <1>2. Inv /\ [Next]_vars => Inv' BY StepsKeepInv
  <1>3. Inv => GrantsSound BY InvImpliesSound
  <1>4. QED BY <1>1, <1>2, <1>3, PTL DEF Spec
=============================================================================
