------------------------ MODULE DirectChatOwnership -------------------------
(***************************************************************************)
(* Who answers for the turns of DirectChat: the registry, the permits, the *)
(* signals, recovery and the credential a call is made with, for every set *)
(* of commands, requests, permits and bindings.                            *)
(***************************************************************************)
EXTENDS DirectChatRecords

USE DEF TurnStates, RunStates, EffectStates, Plans

-----------------------------------------------------------------------------
(* Who answers for a turn *)

\* A registry entry names the slot that works on its turn, and a turn at the
\* provider has one while requests are served.
KeySound(k) ==
  /\ registry[k] # NoSlot => /\ slot[registry[k]].k = k
                             /\ slot[registry[k]].pc \in TaskPcs \cup {"quarantined"}
  /\ Serving /\ turn[k].state = "ProviderStarted" => registry[k] # NoSlot

\* The task of an active turn is the registered one.  It has not passed the
\* start of a turn in flight, exits and is told to stop only when the turn is
\* terminal, and holds the lease of the credential its turn is bound to.
SlotSound(s) ==
  /\ slot[s].pc \in TaskPcs =>
       /\ turn[slot[s].k].state # "Absent"
       /\ registry[slot[s].k] = s \/ IsTerminal(turn[slot[s].k].state)
  /\ slot[s].pc \in {"guard", "start", "conflicted"} =>
       turn[slot[s].k].state # "ProviderStarted"
  /\ slot[s].pc = "exit" => IsTerminal(turn[slot[s].k].state)
  /\ slot[s].sig => slot[s].pc \in TaskPcs /\ IsTerminal(turn[slot[s].k].state)
  /\ slot[s].pc = "held" => \E h \in Handlers : handler[h].slot = s
  /\ slot[s].pc = "quarantined" => registry[slot[s].k] = s
  /\ slot[s].pc \in LeasePcs => cred = turn[slot[s].k].bind

\* A request between its permit and its launch holds that permit alone; what it
\* saw terminal is terminal, and what it launches is reserved.
HandlerSound(h) ==
  /\ handler[h].slot # NoSlot <=> handler[h].pc \in {"preflight", "reserve", "launch"}
  /\ handler[h].slot # NoSlot =>
       /\ slot[handler[h].slot].pc = "held"
       /\ \A g \in Handlers : handler[g].slot = handler[h].slot => g = h
  /\ handler[h].pc # "idle" /\ IsTerminal(handler[h].seen) =>
       IsTerminal(turn[handler[h].k].state)
  /\ handler[h].pc = "launch" => turn[handler[h].k].state # "Absent"

\* Nothing runs before IPC opens, and an untruncated recovery has every
\* incomplete turn still to do.
DaemonSound ==
  /\ ~Serving => /\ registry = [k \in Keys |-> NoSlot]
                 /\ slot = [s \in Slots |-> FreeSlot]
                 /\ handler = [h \in Handlers |-> IdleHandler]
                 /\ detached = {}
  /\ daemon.mode = "recovering" /\ ~daemon.truncated => Incomplete \subseteq daemon.todo

\* The inductive invariant of the daemon's memory.
OwnershipInv ==
  /\ \A k \in Keys : KeySound(k)
  /\ \A s \in Slots : SlotSound(s)
  /\ \A h \in Handlers : HandlerSound(h)
  /\ DaemonSound

\* A slot the step leaves alone stays sound while its entry stays, or its turn
\* is terminal, and its holder stays.
LEMMA SlotKept ==
  ASSUME TypeOK, NEW s \in Slots, SlotSound(s), TurnsKept, NEW k, NoStartBut(k),
         slot'[s] = slot[s], cred' = cred, slot[s].pc \in TaskPcs => slot[s].k # k,
         slot[s].pc \in TaskPcs => \/ registry'[slot[s].k] = registry[slot[s].k]
                                   \/ IsTerminal(turn[slot[s].k].state),
         slot[s].pc = "quarantined" => registry'[slot[s].k] = registry[slot[s].k],
         slot[s].pc = "held" => \E h \in Handlers : handler'[h].slot = s
  PROVE  SlotSound(s)'
<1>0. slot[s] \in SlotRecords
  BY Zenon DEF TypeOK
<1>1. slot[s].pc \in TaskPcs \cup {"quarantined"} => slot[s].k \in Keys
  BY Zenon, TaskTurn DEF TypeOK
<1>2. /\ LeasePcs \subseteq TaskPcs /\ {"guard", "start", "conflicted", "exit"} \subseteq TaskPcs
      /\ "held" \notin TaskPcs
  BY Zenon DEF LeasePcs, TaskPcs, DispatchPcs
<1>3. CASE slot[s].pc \in TaskPcs
  BY Zenon, <1>1, <1>2, <1>3 DEF SlotSound, TurnsKept, NoStartBut
<1>4. CASE slot[s].pc \notin TaskPcs
  BY Zenon, <1>1, <1>2, <1>4 DEF SlotSound
<1> QED BY Zenon, <1>3, <1>4

\* A request the step leaves alone stays sound while its permit stays held and
\* nobody else takes it.
LEMMA HandlerKept ==
  ASSUME TypeOK, NEW h \in Handlers, HandlerSound(h), TurnsKept, handler'[h] = handler[h],
         handler[h].slot # NoSlot =>
           /\ slot'[handler[h].slot].pc = "held"
           /\ \A g \in Handlers \ {h} : handler'[g].slot # handler[h].slot
  PROVE  HandlerSound(h)'
<1>1. handler[h] \in HandlerRecords
  BY Zenon DEF TypeOK
<1>2. handler[h].pc # "idle" => handler[h].k \in Keys
  BY Zenon, <1>1 DEF HandlerRecords
<1> QED BY Zenon, <1>1, <1>2 DEF HandlerSound, TurnsKept

\* While requests are served the recovery has nothing to answer for.
LEMMA ServingSound ==
  ASSUME Serving'
  PROVE  DaemonSound'
  BY Zenon DEF DaemonSound, Serving

\* A task that moves on keeps the ownership: what it may leave its turn in.
LEMMA TaskMoveOwned ==
  ASSUME TypeOK, TypeOK', OwnershipInv, TurnsKept, NEW s \in Slots, slot[s].pc \in TaskPcs,
         NoStartBut(IF slot[s].pc = "start" /\ turn[slot[s].k].state = "Reserved"
                      THEN slot[s].k ELSE NoTurn),
         \A r \in Slots : r # s => slot'[r] = slot[r],
         slot'[s].k = slot[s].k, slot'[s].sig = slot[s].sig, slot'[s].pc \in TaskPcs,
         slot'[s].pc \in {"guard", "start", "conflicted"} =>
           /\ slot[s].pc \in {"guard", "start", "conflicted"}
           /\ turn'[slot[s].k].state = turn[slot[s].k].state,
         slot'[s].pc = "exit" => IsTerminal(turn'[slot[s].k].state),
         slot'[s].pc \in LeasePcs => cred = turn[slot[s].k].bind,
         UNCHANGED <<registry, handler, daemon, cred>>
  PROVE  OwnershipInv'
<1> DEFINE k == slot[s].k
           started == IF slot[s].pc = "start" /\ turn[k].state = "Reserved" THEN k ELSE NoTurn
<1>0. /\ k \in Keys /\ SlotSound(s) /\ NoStartBut(started)
      /\ slot \in [Slots -> SlotRecords] /\ registry \in [Keys -> Slots \cup {NoSlot}]
  BY Zenon, TaskTurn DEF TypeOK, OwnershipInv
<1>1. Serving /\ Serving'
  <2>1. slot[s] # FreeSlot
    BY DEF FreeSlot, TaskPcs, DispatchPcs
  <2> QED BY Zenon, <2>1 DEF OwnershipInv, DaemonSound, Serving
<1>2. ASSUME NEW r \in Slots, r # s, slot[r].pc \in TaskPcs
      PROVE  slot[r].k # started
  <2>1. slot[r].k \in Keys /\ SlotSound(r)
    BY Zenon, <1>2, TaskTurn DEF TypeOK, OwnershipInv
  <2>2. CASE started = k /\ turn[k].state = "Reserved"
    BY Zenon, <1>0, <1>2, <2>1, <2>2 DEF SlotSound, IsTerminal
  <2>3. CASE started = NoTurn
    BY Zenon, <2>1, <2>3, NoTurnAssumption
  <2> QED BY Zenon, <2>2, <2>3
<1> HIDE DEF started
<1>3. ASSUME NEW r \in Slots  PROVE SlotSound(r)'
  <2>1. CASE r # s
    <3>1. SlotSound(r) /\ slot'[r] = slot[r] /\ cred' = cred /\ registry' = registry
      BY Zenon, <2>1 DEF OwnershipInv
    <3>2. slot[r].pc = "held" => \E h \in Handlers : handler'[h].slot = r
      BY Zenon, <3>1 DEF SlotSound
    <3>3. slot[r].pc \in TaskPcs => slot[r].k # started
      BY Zenon, <1>2, <2>1
    <3> QED BY Zenon, <1>0, <3>1, <3>2, <3>3, SlotKept
  <2>2. CASE r = s
    <3>1. /\ turn'[k].state # "Absent"
          /\ registry'[k] = s \/ IsTerminal(turn'[k].state)
      BY Zenon, <1>0 DEF SlotSound, TurnsKept
    <3>2. slot[s].sig => IsTerminal(turn'[k].state)
      BY Zenon, <1>0 DEF SlotSound, TurnsKept
    <3>3. slot'[s].pc \in LeasePcs => cred' = turn'[k].bind
      BY Zenon, <1>0 DEF SlotSound, TurnsKept
    <3>4. slot'[s].pc \in {"guard", "start", "conflicted"} => turn'[k].state # "ProviderStarted"
      BY Zenon, <1>0 DEF SlotSound
    <3>5. slot'[s].pc \notin {"held", "quarantined"}
      BY Zenon DEF TaskPcs, DispatchPcs
    <3> QED BY Zenon, <2>2, <3>1, <3>2, <3>3, <3>4, <3>5 DEF SlotSound
  <2> QED BY Zenon, <2>1, <2>2
<1>4. ASSUME NEW h \in Handlers  PROVE HandlerSound(h)'
  <2>1. HandlerSound(h) /\ handler' = handler
    BY Zenon DEF OwnershipInv
  <2>2. handler[h].slot \in Slots \cup {NoSlot}
    BY Zenon DEF TypeOK, HandlerRecords
  <2>3. handler[h].slot # NoSlot =>
           /\ slot'[handler[h].slot].pc = "held"
           /\ \A g \in Handlers \ {h} : handler'[g].slot # handler[h].slot
    BY Zenon, <2>1, <2>2 DEF HandlerSound, TaskPcs, DispatchPcs
  <2> QED BY Zenon, <2>1, <2>3, HandlerKept
<1>5. ASSUME NEW j \in Keys  PROVE KeySound(j)'
  <2>1. KeySound(j) /\ registry'[j] = registry[j] /\ registry[j] \in Slots \cup {NoSlot}
    BY Zenon, <1>0 DEF OwnershipInv
  <2>2. registry[j] # NoSlot => /\ slot'[registry[j]].k = j
                                /\ slot'[registry[j]].pc \in TaskPcs \cup {"quarantined"}
    BY Zenon, <1>0, <2>1 DEF KeySound
  <2>3. turn'[j].state = "ProviderStarted" => registry[j] # NoSlot
    <3>1. CASE turn[j].state = "ProviderStarted"
      BY Zenon, <1>1, <2>1, <3>1 DEF KeySound
    <3>2. CASE j = started
      BY Zenon, <1>0, <3>2, NoTurnAssumption, NoSlotAssumption DEF SlotSound, started, IsTerminal
    <3> QED BY Zenon, <1>0, <3>1, <3>2 DEF NoStartBut
  <2> QED BY Zenon, <2>1, <2>2, <2>3 DEF KeySound
<1> QED BY Zenon, <1>1, <1>3, <1>4, <1>5, ServingSound DEF OwnershipInv

\* A request that moves on, or nobody, keeps the ownership: turns may move under
\* it, slots and registry stay.
LEMMA HandlerMoveOwned ==
  ASSUME TypeOK, TypeOK', OwnershipInv, TurnsKept, NoStartBut(NoTurn), NEW h \in Handlers,
         \A g \in Handlers : g # h => handler'[g] = handler[g],
         handler'[h].slot = handler[h].slot,
         handler'[h].slot # NoSlot <=> handler'[h].pc \in {"preflight", "reserve", "launch"},
         handler'[h].pc # "idle" /\ IsTerminal(handler'[h].seen) =>
           IsTerminal(turn'[handler'[h].k].state),
         handler'[h].pc = "launch" => turn'[handler'[h].k].state # "Absent",
         Serving, UNCHANGED <<registry, slot, daemon, cred>>
  PROVE  OwnershipInv'
<1>0. Serving' /\ slot \in [Slots -> SlotRecords]
  BY Zenon DEF Serving, TypeOK
<1>1. ASSUME NEW r \in Slots  PROVE SlotSound(r)'
  <2>1. SlotSound(r) /\ slot'[r] = slot[r] /\ cred' = cred /\ registry' = registry
    BY Zenon DEF OwnershipInv
  <2>2. slot[r].pc = "held" => \E g \in Handlers : handler'[g].slot = r
    BY Zenon, <2>1 DEF SlotSound
  <2>3. slot[r].pc \in TaskPcs => slot[r].k # NoTurn
    BY Zenon, <1>0, TaskTurn, NoTurnAssumption
  <2> QED BY Zenon, <2>1, <2>2, <2>3, SlotKept
<1>2. ASSUME NEW g \in Handlers  PROVE HandlerSound(g)'
  <2>1. \A f \in Handlers : handler'[f].slot = handler[f].slot /\ HandlerSound(f)
    BY Zenon DEF OwnershipInv
  <2>2. CASE g # h
    <3>1. handler[g].slot # NoSlot =>
           /\ slot'[handler[g].slot].pc = "held"
           /\ \A f \in Handlers \ {g} : handler'[f].slot # handler[g].slot
      BY <2>1 DEF HandlerSound
    <3> QED BY Zenon, <2>1, <2>2, <3>1, HandlerKept
  <2>3. CASE g = h
    BY <2>1, <2>3 DEF HandlerSound
  <2> QED BY Zenon, <2>2, <2>3
<1>3. ASSUME NEW j \in Keys  PROVE KeySound(j)'
  BY Zenon, <1>0, NoTurnAssumption DEF OwnershipInv, KeySound, NoStartBut
<1> QED BY Zenon, <1>0, <1>1, <1>2, <1>3, ServingSound DEF OwnershipInv

\* A request that held no permit goes on without one.
GoesOnFree(h) ==
  /\ handler[h].slot = NoSlot /\ handler'[h].slot = NoSlot
  /\ handler'[h].pc \notin {"preflight", "reserve", "launch"}
  /\ handler'[h].pc # "idle" /\ IsTerminal(handler'[h].seen) =>
       IsTerminal(turn'[handler'[h].k].state)

\* Held permits keep their holders when only requests without a permit move.
LEMMA HoldersKept ==
  ASSUME TypeOK, OwnershipInv, TurnsKept,
         \A g \in Handlers : handler'[g] = handler[g] \/ GoesOnFree(g),
         \A r \in Slots : slot[r].pc = "held" => slot'[r].pc = "held"
  PROVE  /\ \A g \in Handlers : HandlerSound(g)'
         /\ \A r \in Slots : slot[r].pc = "held" => \E h \in Handlers : handler'[h].slot = r
<1>0. \A g \in Handlers : handler[g].slot \in Slots \cup {NoSlot} /\ HandlerSound(g)
  BY Zenon DEF TypeOK, HandlerRecords, OwnershipInv
<1>1. \A g \in Handlers : handler'[g].slot = handler[g].slot
  BY Zenon DEF GoesOnFree
<1>2. ASSUME NEW g \in Handlers  PROVE HandlerSound(g)'
  <2>1. CASE handler'[g] = handler[g]
    <3>1. handler[g].slot # NoSlot =>
           /\ slot'[handler[g].slot].pc = "held"
           /\ \A f \in Handlers \ {g} : handler'[f].slot # handler[g].slot
      BY Zenon, <1>0, <1>1 DEF HandlerSound
    <3> QED BY Zenon, <1>0, <2>1, <3>1, HandlerKept
  <2>2. CASE GoesOnFree(g)
    BY Zenon, <2>2 DEF GoesOnFree, HandlerSound
  <2> QED BY Zenon, <2>1, <2>2
<1>3. \A r \in Slots : slot[r].pc = "held" => \E h \in Handlers : handler'[h].slot = r
  BY <1>1 DEF OwnershipInv, SlotSound
<1> QED BY Zenon, <1>2, <1>3

\* An unregistered or terminal task, or a quarantine of a terminal turn, gives
\* its permit back.
LEMMA ReleaseOwned ==
  ASSUME TypeOK, OwnershipInv, turn' = turn, NEW s \in Slots,
         slot[s].pc \in TaskPcs \cup {"quarantined"}, slot' = Freed(s),
         registry' = IF registry[slot[s].k] = s
                       THEN [registry EXCEPT ![slot[s].k] = NoSlot] ELSE registry,
         registry[slot[s].k] = s => IsTerminal(turn[slot[s].k].state),
         \A g \in Handlers : handler'[g] = handler[g] \/ GoesOnFree(g),
         Serving, UNCHANGED <<daemon, cred>>
  PROVE  OwnershipInv'
<1> DEFINE k == slot[s].k
<1>0. /\ k \in Keys /\ Serving' /\ TurnsKept /\ NoStartBut(NoTurn)
      /\ slot \in [Slots -> SlotRecords] /\ registry \in [Keys -> Slots \cup {NoSlot}]
  BY Zenon, TaskTurn DEF TypeOK, Serving, TurnsKept, NoStartBut
<1>1. \A r \in Slots : slot'[r] = IF r = s THEN FreeSlot ELSE slot[r]
  BY Zenon, <1>0 DEF Freed
<1>2. \A j \in Keys : registry'[j] = IF j = k /\ registry[k] = s THEN NoSlot ELSE registry[j]
  BY Zenon, <1>0
<1>3. slot[s].pc # "held"
  BY Zenon DEF TaskPcs, DispatchPcs
<1>4. /\ \A g \in Handlers : HandlerSound(g)'
      /\ \A r \in Slots : slot[r].pc = "held" => \E h \in Handlers : handler'[h].slot = r
  <2>1. \A r \in Slots : slot[r].pc = "held" => slot'[r].pc = "held"
    BY Zenon, <1>1, <1>3
  <2> QED BY Zenon, <1>0, <2>1, HoldersKept
<1>5. ASSUME NEW r \in Slots  PROVE SlotSound(r)'
  <2>1. CASE r = s
    BY <1>1, <2>1 DEF SlotSound, FreeSlot, TaskPcs, DispatchPcs, LeasePcs
  <2>2. CASE r # s
    <3>1. SlotSound(r) /\ slot'[r] = slot[r] /\ cred' = cred
      BY Zenon, <1>1, <2>2 DEF OwnershipInv
    <3>2. slot[r].pc \in TaskPcs \cup {"quarantined"} => slot[r].k \in Keys
      BY Zenon, <1>0, TaskTurn
    <3>3. slot[r].pc \in TaskPcs => \/ registry'[slot[r].k] = registry[slot[r].k]
                                    \/ IsTerminal(turn[slot[r].k].state)
      BY Zenon, <1>2, <3>2
    <3>4. slot[r].pc = "quarantined" => registry'[slot[r].k] = registry[slot[r].k]
      BY Zenon, <1>2, <2>2, <3>1, <3>2 DEF SlotSound
    <3>5. slot[r].pc \in TaskPcs => slot[r].k # NoTurn
      BY Zenon, <3>2, NoTurnAssumption
    <3> QED BY Zenon, <1>0, <1>4, <3>1, <3>3, <3>4, <3>5, SlotKept
  <2> QED BY Zenon, <2>1, <2>2
<1>6. ASSUME NEW j \in Keys  PROVE KeySound(j)'
  <2>1. KeySound(j) /\ turn'[j] = turn[j] /\ registry[j] \in Slots \cup {NoSlot}
    BY Zenon, <1>0 DEF OwnershipInv
  <2>2. CASE j = k /\ registry[k] = s
    BY Zenon, <1>2, <2>1, <2>2 DEF KeySound, IsTerminal
  <2>3. CASE registry'[j] = registry[j] /\ registry[j] # s
    BY Zenon, <1>1, <2>1, <2>3 DEF KeySound, Serving
  <2>4. registry[j] = s => j = k
    BY Zenon, <2>1, NoSlotAssumption DEF KeySound
  <2> QED BY Zenon, <1>2, <2>2, <2>3, <2>4
<1> QED BY Zenon, <1>0, <1>4, <1>5, <1>6, ServingSound DEF OwnershipInv

\* A request that ends gives back the permit it held.
LEMMA DropPermitOwned ==
  ASSUME TypeOK, OwnershipInv, TurnsKept, NoStartBut(NoTurn), NEW h \in Handlers,
         handler[h].slot \in Slots, slot' = Freed(handler[h].slot),
         handler' = [handler EXCEPT ![h] = IdleHandler],
         Serving, UNCHANGED <<registry, daemon, cred>>
  PROVE  OwnershipInv'
<1> DEFINE p == handler[h].slot
<1>0. /\ Serving' /\ slot \in [Slots -> SlotRecords] /\ handler \in [Handlers -> HandlerRecords]
      /\ registry \in [Keys -> Slots \cup {NoSlot}]
      /\ \A g \in Handlers : HandlerSound(g)
  BY Zenon DEF TypeOK, Serving, OwnershipInv
<1>1. \A r \in Slots : slot'[r] = IF r = p THEN FreeSlot ELSE slot[r]
  BY Zenon, <1>0 DEF Freed
<1>2. slot[p].pc = "held" /\ p # NoSlot /\ \A g \in Handlers : g # h => handler[g].slot # p
  BY Zenon, <1>0, NoSlotAssumption DEF HandlerSound
<1>3. \A g \in Handlers : handler'[g] = IF g = h THEN IdleHandler ELSE handler[g]
  BY Zenon, <1>0
<1>4. ASSUME NEW g \in Handlers  PROVE HandlerSound(g)'
  <2>1. CASE g = h
    BY <1>3, <2>1 DEF HandlerSound, IdleHandler
  <2>2. CASE g # h
    <3>1. handler[g].slot \in Slots \cup {NoSlot}
      BY Zenon, <1>0 DEF HandlerRecords
    <3>2. IdleHandler.slot = NoSlot
      BY Zenon DEF IdleHandler
    <3>3. handler[g].slot # NoSlot =>
           /\ slot'[handler[g].slot].pc = "held"
           /\ \A f \in Handlers \ {g} : handler'[f].slot # handler[g].slot
      BY <1>0, <1>1, <1>2, <1>3, <2>2, <3>1, <3>2 DEF HandlerSound
    <3> QED BY Zenon, <1>0, <1>3, <2>2, <3>3, HandlerKept
  <2> QED BY Zenon, <2>1, <2>2
<1>5. ASSUME NEW r \in Slots  PROVE SlotSound(r)'
  <2>1. CASE r = p
    <3>1. slot'[r].pc = "free" /\ ~slot'[r].sig
      BY <1>1, <2>1 DEF FreeSlot
    <3> QED BY Zenon, <3>1 DEF SlotSound, TaskPcs, DispatchPcs, LeasePcs
  <2>2. CASE r # p
    <3>1. SlotSound(r) /\ slot'[r] = slot[r] /\ cred' = cred /\ registry' = registry
      BY Zenon, <1>1, <2>2 DEF OwnershipInv
    <3>2. slot[r].pc = "held" => \E g \in Handlers : handler'[g].slot = r
      BY Zenon, <1>3, <2>2, <3>1 DEF SlotSound
    <3>3. slot[r].pc \in TaskPcs => slot[r].k # NoTurn
      BY Zenon, <1>0, TaskTurn, NoTurnAssumption
    <3> QED BY Zenon, <3>1, <3>2, <3>3, SlotKept
  <2> QED BY Zenon, <2>1, <2>2
<1>6. ASSUME NEW j \in Keys  PROVE KeySound(j)'
  <2>1. KeySound(j) /\ registry'[j] = registry[j] /\ registry[j] \in Slots \cup {NoSlot}
    BY Zenon, <1>0 DEF OwnershipInv
  <2>2. registry[j] # p
    BY Zenon, <1>2, <2>1 DEF KeySound, TaskPcs, DispatchPcs
  <2>3. turn'[j].state = "ProviderStarted" => turn[j].state = "ProviderStarted"
    BY Zenon, NoTurnAssumption DEF NoStartBut
  <2> QED BY Zenon, <1>0, <1>1, <2>1, <2>2, <2>3 DEF KeySound
<1> QED BY Zenon, <1>0, <1>4, <1>5, <1>6, ServingSound DEF OwnershipInv

\* A request takes a free permit.
LEMMA AcquireOwned ==
  ASSUME TypeOK, OwnershipInv, NEW h \in Handlers, AcquirePermit(h)
  PROVE  OwnershipInv'
<1>0. /\ slot \in [Slots -> SlotRecords] /\ handler \in [Handlers -> HandlerRecords]
      /\ registry \in [Keys -> Slots \cup {NoSlot}]
      /\ \A g \in Handlers : HandlerSound(g) /\ handler[g].slot \in Slots \cup {NoSlot}
  BY Zenon DEF TypeOK, OwnershipInv, HandlerRecords
<1>1. /\ turn' = turn /\ TurnsKept /\ NoStartBut(NoTurn) /\ handler[h].pc = "owner"
      /\ registry' = registry /\ cred' = cred /\ daemon' = daemon /\ handler[h].slot = NoSlot
  BY Zenon, <1>0 DEF AcquirePermit, storeVars, TurnsKept, NoStartBut, HandlerSound
<1>2. Serving /\ Serving'
  BY <1>1 DEF OwnershipInv, DaemonSound, IdleHandler, Serving
<1>3. CASE EndRequest(h) /\ UNCHANGED slot
  <2>1. \A g \in Handlers : handler'[g] = IF g = h THEN IdleHandler ELSE handler[g]
    BY Zenon, <1>0, <1>3 DEF EndRequest, ToHandler
  <2>2. TypeOK'
    BY Zenon, StartRequestType
  <2> QED BY <1>1, <1>2, <1>3, <2>1, <2>2, HandlerMoveOwned DEF IdleHandler
<1>4. ASSUME NEW s \in Slots, slot[s].pc = "free", slot' = [slot EXCEPT ![s].pc = "held"],
             ToHandler(h, [handler[h] EXCEPT !.pc = "preflight", !.slot = s, !.seen = "None"])
      PROVE  OwnershipInv'
  <2> DEFINE c == [handler[h] EXCEPT !.pc = "preflight", !.slot = s, !.seen = "None"]
  <2>1. c.pc = "preflight" /\ c.slot = s /\ c.seen = "None"
    BY Zenon, <1>0 DEF HandlerRecords
  <2> HIDE DEF c
  <2>2. \A g \in Handlers : handler'[g] = IF g = h THEN c ELSE handler[g]
    BY Zenon, <1>0, <1>4 DEF ToHandler, c
  <2>3. \A r \in Slots : /\ r # s => slot'[r] = slot[r]
                         /\ r = s => slot'[r].pc = "held" /\ slot'[r].sig = slot[r].sig
    BY Zenon, <1>0, <1>4 DEF SlotRecords
  <2>4. \A g \in Handlers : handler[g].slot # s
    BY Zenon, <1>0, <1>4, NoSlotAssumption DEF HandlerSound
  <2>5. ASSUME NEW g \in Handlers  PROVE HandlerSound(g)'
    <3>1. CASE g = h
      BY Zenon, <2>1, <2>2, <2>3, <2>4, <3>1, NoSlotAssumption DEF HandlerSound, IsTerminal
    <3>2. CASE g # h
      <4>1. handler[g].slot # NoSlot =>
             /\ slot'[handler[g].slot].pc = "held"
             /\ \A f \in Handlers \ {g} : handler'[f].slot # handler[g].slot
        BY <1>0, <2>1, <2>2, <2>3, <2>4 DEF HandlerSound
      <4> QED BY Zenon, <1>0, <1>1, <2>2, <3>2, <4>1, HandlerKept
    <3> QED BY Zenon, <3>1, <3>2
  <2>6. ASSUME NEW r \in Slots  PROVE SlotSound(r)'
    <3>1. CASE r = s
      <4>1. ~slot[s].sig
        BY Zenon, <1>4 DEF OwnershipInv, SlotSound, TaskPcs, DispatchPcs
      <4>2. handler'[h].slot = s
        BY Zenon, <2>1, <2>2
      <4> QED BY Zenon, <2>3, <3>1, <4>1, <4>2 DEF SlotSound, TaskPcs, DispatchPcs, LeasePcs
    <3>2. CASE r # s
      <4>1. SlotSound(r) /\ slot'[r] = slot[r]
        BY Zenon, <2>3, <3>2 DEF OwnershipInv
      <4>2. slot[r].pc = "held" => \E g \in Handlers : handler'[g].slot = r
        BY Zenon, <1>1, <2>2, <4>1, NoSlotAssumption DEF SlotSound
      <4>3. slot[r].pc \in TaskPcs => slot[r].k # NoTurn
        BY Zenon, <1>0, TaskTurn, NoTurnAssumption
      <4> QED BY Zenon, <1>1, <4>1, <4>2, <4>3, SlotKept
    <3> QED BY Zenon, <3>1, <3>2
  <2>7. ASSUME NEW j \in Keys  PROVE KeySound(j)'
    <3>1. KeySound(j) /\ registry'[j] = registry[j] /\ registry[j] \in Slots \cup {NoSlot}
      BY Zenon, <1>0, <1>1 DEF OwnershipInv
    <3>2. registry[j] # s
      BY Zenon, <1>4, <3>1, NoSlotAssumption DEF KeySound, TaskPcs, DispatchPcs
    <3> QED BY Zenon, <1>1, <1>2, <2>3, <3>1, <3>2 DEF KeySound
  <2> QED BY Zenon, <1>2, <2>5, <2>6, <2>7, ServingSound DEF OwnershipInv
<1> QED BY Zenon, <1>3, <1>4 DEF AcquirePermit

\* A request registers its turn and lends its permit to the new task, or yields
\* to the owner of the turn.
LEMMA LaunchOwned ==
  ASSUME TypeOK, OwnershipInv, NEW h \in Handlers, Launch(h)
  PROVE  OwnershipInv'
<1> DEFINE k == handler[h].k
           s == handler[h].slot
           new == [FreeSlot EXCEPT !.pc = "guard", !.k = k]
<1>0. /\ slot \in [Slots -> SlotRecords] /\ handler \in [Handlers -> HandlerRecords]
      /\ registry \in [Keys -> Slots \cup {NoSlot}]
      /\ \A g \in Handlers : HandlerSound(g) /\ handler[g].slot \in Slots \cup {NoSlot}
  BY Zenon DEF TypeOK, OwnershipInv, HandlerRecords
<1>1. /\ turn' = turn /\ TurnsKept /\ NoStartBut(NoTurn) /\ handler[h].pc = "launch"
      /\ cred' = cred /\ daemon' = daemon
  BY Zenon DEF Launch, storeVars, TurnsKept, NoStartBut
<1>2. Serving /\ Serving'
  BY <1>1 DEF OwnershipInv, DaemonSound, IdleHandler, Serving
<1>3. k \in Keys /\ s \in Slots /\ slot[s].pc = "held" /\ turn[k].state # "Absent"
  BY Zenon, <1>0, <1>1, NoSlotAssumption DEF HandlerRecords, HandlerSound
<1>4. CASE registry[k] # NoSlot
  BY Zenon, <1>1, <1>2, <1>3, <1>4, DropPermitOwned DEF Launch, Refuse, EndRequest, ToHandler
<1>5. CASE registry[k] = NoSlot
  <2>1. /\ registry' = [registry EXCEPT ![k] = s]
        /\ slot' = [slot EXCEPT ![s] = new]
        /\ handler' = [handler EXCEPT ![h] = IdleHandler]
    BY Zenon, <1>5 DEF Launch, EndRequest, ToHandler
  <2>2. new.pc = "guard" /\ new.k = k /\ ~new.sig
    BY Zenon DEF FreeSlot
  <2> HIDE DEF new
  <2>3. /\ \A r \in Slots : slot'[r] = IF r = s THEN new ELSE slot[r]
        /\ \A j \in Keys : registry'[j] = IF j = k THEN s ELSE registry[j]
        /\ \A g \in Handlers : handler'[g] = IF g = h THEN IdleHandler ELSE handler[g]
    BY Zenon, <1>0, <2>1
  <2>4. \A g \in Handlers : g # h => handler[g].slot # s
    BY Zenon, <1>0, <1>3, NoSlotAssumption DEF HandlerSound
  <2>5. turn[k].state # "ProviderStarted"
    BY Zenon, <1>2, <1>3, <1>5 DEF OwnershipInv, KeySound
  <2>6. ASSUME NEW g \in Handlers  PROVE HandlerSound(g)'
    <3>1. CASE g = h
      BY <2>3, <3>1 DEF HandlerSound, IdleHandler
    <3>2. CASE g # h
      <4>1. IdleHandler.slot = NoSlot
        BY Zenon DEF IdleHandler
      <4>2. handler[g].slot # NoSlot =>
             /\ slot'[handler[g].slot].pc = "held"
             /\ \A f \in Handlers \ {g} : handler'[f].slot # handler[g].slot
        BY <1>0, <2>3, <2>4, <3>2, <4>1 DEF HandlerSound
      <4> QED BY Zenon, <1>0, <1>1, <2>3, <3>2, <4>2, HandlerKept
    <3> QED BY Zenon, <3>1, <3>2
  <2>7. ASSUME NEW r \in Slots  PROVE SlotSound(r)'
    <3>1. CASE r = s
      <4>1. slot'[r] = new /\ registry'[k] = r /\ turn'[k] = turn[k]
        BY Zenon, <1>1, <1>3, <2>3, <3>1
      <4> QED BY Zenon, <1>3, <2>2, <2>5, <4>1 DEF SlotSound, TaskPcs, DispatchPcs, LeasePcs
    <3>2. CASE r # s
      <4>1. SlotSound(r) /\ slot'[r] = slot[r]
        BY Zenon, <2>3, <3>2 DEF OwnershipInv
      <4>2. slot[r].pc = "held" => \E g \in Handlers : handler'[g].slot = r
        BY Zenon, <2>3, <3>2, <4>1 DEF SlotSound
      <4>3. slot[r].pc \in TaskPcs \cup {"quarantined"} => slot[r].k \in Keys
        BY Zenon, <1>0, TaskTurn
      <4>4. slot[r].pc \in TaskPcs => slot[r].k # NoTurn
        BY Zenon, <4>3, NoTurnAssumption
      <4>5. slot[r].pc \in TaskPcs => \/ registry'[slot[r].k] = registry[slot[r].k]
                                      \/ IsTerminal(turn[slot[r].k].state)
        BY Zenon, <1>5, <2>3, <4>1, <4>3, NoSlotAssumption DEF SlotSound
      <4>6. slot[r].pc = "quarantined" => registry'[slot[r].k] = registry[slot[r].k]
        BY Zenon, <1>5, <2>3, <4>1, <4>3, NoSlotAssumption DEF SlotSound
      <4> QED BY Zenon, <1>1, <4>1, <4>2, <4>4, <4>5, <4>6, SlotKept
    <3> QED BY Zenon, <3>1, <3>2
  <2>8. ASSUME NEW j \in Keys  PROVE KeySound(j)'
    <3>1. CASE j = k
      BY Zenon, <1>3, <2>2, <2>3, <3>1, NoSlotAssumption DEF KeySound, TaskPcs, DispatchPcs
    <3>2. CASE j # k
      <4>1. KeySound(j) /\ registry'[j] = registry[j] /\ registry[j] \in Slots \cup {NoSlot}
        BY Zenon, <1>0, <2>3, <3>2 DEF OwnershipInv
      <4>2. registry[j] # s
        BY Zenon, <1>3, <4>1, NoSlotAssumption DEF KeySound, TaskPcs, DispatchPcs
      <4> QED BY <1>1, <1>2, <2>3, <4>1, <4>2 DEF KeySound
    <3> QED BY Zenon, <3>1, <3>2
  <2> QED BY Zenon, <1>2, <2>6, <2>7, <2>8, ServingSound DEF OwnershipInv
<1> QED BY Zenon, <1>4, <1>5

\* A cancel request removes the entry of its terminal turn: the task is told to
\* stop, a quarantined permit is dropped.
LEMMA SignalOwned ==
  ASSUME TypeOK, OwnershipInv, NEW h \in Handlers, SignalTask(h)
  PROVE  OwnershipInv'
<1> DEFINE k == handler[h].k
           s == registry[k]
           c == [handler[h] EXCEPT !.pc = "release"]
<1>0. /\ slot \in [Slots -> SlotRecords] /\ handler \in [Handlers -> HandlerRecords]
      /\ registry \in [Keys -> Slots \cup {NoSlot}] /\ HandlerSound(h)
  BY Zenon DEF TypeOK, OwnershipInv
<1>1. /\ turn' = turn /\ TurnsKept /\ NoStartBut(NoTurn) /\ handler[h].pc = "signal"
      /\ cred' = cred /\ daemon' = daemon /\ handler' = [handler EXCEPT ![h] = c]
  BY Zenon DEF SignalTask, ToHandler, storeVars, TurnsKept, NoStartBut
<1>2. Serving /\ Serving'
  BY <1>1 DEF OwnershipInv, DaemonSound, IdleHandler, Serving
<1>3. /\ c.pc = "release" /\ c.slot = NoSlot /\ c.seen = handler[h].seen /\ c.k = k
      /\ k \in Keys /\ handler[h].slot = NoSlot
      /\ IsTerminal(handler[h].seen) => IsTerminal(turn[k].state)
  BY Zenon, <1>0, <1>1 DEF HandlerRecords, HandlerSound
<1> HIDE DEF c
<1>4. \A g \in Handlers : handler'[g] = IF g = h THEN c ELSE handler[g]
  BY Zenon, <1>0, <1>1
<1>5. \A g \in Handlers : handler'[g] = handler[g] \/ GoesOnFree(g)
  BY Zenon, <1>1, <1>3, <1>4 DEF GoesOnFree
<1>6. CASE UNCHANGED <<registry, slot>>
  <2>1. TypeOK'
    BY Zenon, CancelRequestType
  <2>2. \A g \in Handlers : g # h => handler'[g] = handler[g]
    BY Zenon, <1>4
  <2>3. handler'[h] = c
    BY Zenon, <1>4
  <2> QED BY Zenon, <1>1, <1>2, <1>3, <1>6, <2>1, <2>2, <2>3, HandlerMoveOwned
<1>7. CASE s # NoSlot /\ handler[h].seen \in {"Cancelled", "InterruptedNeedsReview"}
  <2>1. /\ registry' = [registry EXCEPT ![k] = NoSlot]
        /\ slot' = IF slot[s].pc = "quarantined" THEN Freed(s) ELSE [slot EXCEPT ![s].sig = TRUE]
    BY Zenon, <1>7 DEF SignalTask
  <2>2. s \in Slots /\ slot[s].k = k /\ slot[s].pc \in TaskPcs \cup {"quarantined"}
    BY Zenon, <1>0, <1>3, <1>7 DEF OwnershipInv, KeySound
  <2>3. IsTerminal(turn[k].state)
    BY Zenon, <1>3, <1>7 DEF IsTerminal
  <2>4. CASE slot[s].pc = "quarantined"
    BY Zenon, <1>1, <1>2, <1>5, <2>1, <2>2, <2>3, <2>4, ReleaseOwned
  <2>5. CASE slot[s].pc # "quarantined"
    <3>1. /\ \A r \in Slots : r # s => slot'[r] = slot[r]
          /\ slot'[s] = [slot[s] EXCEPT !.sig = TRUE]
          /\ \A j \in Keys : registry'[j] = IF j = k THEN NoSlot ELSE registry[j]
      BY Zenon, <1>0, <2>1, <2>2, <2>5
    <3>2. slot'[s].pc = slot[s].pc /\ slot'[s].k = k
      BY ZenonT(30), <1>0, <2>2, <3>1 DEF SlotRecords
    <3>3. slot[s].pc \in TaskPcs /\ slot[s].pc # "held"
      BY Zenon, <2>2, <2>5 DEF TaskPcs, DispatchPcs
    <3>4. /\ \A g \in Handlers : HandlerSound(g)'
          /\ \A r \in Slots : slot[r].pc = "held" => \E g \in Handlers : handler'[g].slot = r
      <4>1. \A r \in Slots : slot[r].pc = "held" => slot'[r].pc = "held"
        BY Zenon, <3>1, <3>3
      <4> QED BY Zenon, <1>1, <1>5, <4>1, HoldersKept
    <3>5. ASSUME NEW r \in Slots  PROVE SlotSound(r)'
      <4>1. SlotSound(r)
        BY Zenon DEF OwnershipInv
      <4>2. CASE r = s
        BY ZenonT(30), <1>1, <2>2, <2>3, <3>2, <3>3, <4>1, <4>2
        DEF SlotSound, IsTerminal, TaskPcs, DispatchPcs
      <4>3. CASE r # s
        <5>1. slot[r].pc \in TaskPcs \cup {"quarantined"} => slot[r].k \in Keys
          BY Zenon, <1>0, TaskTurn
        <5>2. slot[r].pc \in TaskPcs => slot[r].k # NoTurn
          BY Zenon, <5>1, NoTurnAssumption
        <5>3. slot[r].pc \in TaskPcs => \/ registry'[slot[r].k] = registry[slot[r].k]
                                        \/ IsTerminal(turn[slot[r].k].state)
          BY Zenon, <2>3, <3>1, <5>1
        <5>4. slot[r].pc = "quarantined" => registry'[slot[r].k] = registry[slot[r].k]
          BY Zenon, <3>1, <4>1, <4>3, <5>1 DEF SlotSound
        <5> QED BY Zenon, <1>1, <3>1, <3>4, <4>1, <4>3, <5>2, <5>3, <5>4, SlotKept
      <4> QED BY Zenon, <4>2, <4>3
    <3>6. ASSUME NEW j \in Keys  PROVE KeySound(j)'
      <4>1. KeySound(j) /\ registry[j] \in Slots \cup {NoSlot}
        BY Zenon, <1>0 DEF OwnershipInv
      <4>2. CASE j = k
        BY Zenon, <1>1, <2>3, <3>1, <4>2 DEF KeySound, IsTerminal
      <4>3. CASE j # k
        <5>1. registry[j] # s /\ registry'[j] = registry[j]
          BY Zenon, <2>2, <3>1, <4>1, <4>3, NoSlotAssumption DEF KeySound
        <5> QED BY Zenon, <1>1, <1>2, <3>1, <4>1, <5>1 DEF KeySound
      <4> QED BY Zenon, <4>2, <4>3
    <3> QED BY Zenon, <1>2, <3>4, <3>5, <3>6, ServingSound DEF OwnershipInv
  <2> QED BY Zenon, <2>4, <2>5
<1> QED BY Zenon, <1>6, <1>7 DEF SignalTask

\* A request that drops a quarantine it saw terminal, if there is one, and ends.
LEMMA DropQuarantineOwned ==
  ASSUME TypeOK, TypeOK', OwnershipInv, NEW h \in Handlers, handler[h].pc \in {"owner", "release"},
         IF IsTerminal(handler[h].seen) /\ Quarantined(handler[h].k)
           THEN /\ registry' = [registry EXCEPT ![handler[h].k] = NoSlot]
                /\ slot' = Freed(registry[handler[h].k])
           ELSE UNCHANGED <<registry, slot>>,
         EndRequest(h), turn' = turn, UNCHANGED <<daemon, cred>>
  PROVE  OwnershipInv'
<1> DEFINE k == handler[h].k
           s == registry[k]
<1>0. /\ slot \in [Slots -> SlotRecords] /\ handler \in [Handlers -> HandlerRecords]
      /\ registry \in [Keys -> Slots \cup {NoSlot}] /\ HandlerSound(h)
  BY Zenon DEF TypeOK, OwnershipInv
<1>1. Serving /\ TurnsKept /\ NoStartBut(NoTurn)
  BY DEF OwnershipInv, DaemonSound, IdleHandler, TurnsKept, NoStartBut
<1>2. k \in Keys /\ handler[h].slot = NoSlot
  BY Zenon, <1>0 DEF HandlerRecords, HandlerSound
<1>3. \A g \in Handlers : handler'[g] = IF g = h THEN IdleHandler ELSE handler[g]
  BY Zenon, <1>0 DEF EndRequest, ToHandler
<1>4. IdleHandler.pc = "idle" /\ IdleHandler.slot = NoSlot
  BY Zenon DEF IdleHandler
<1>5. CASE IsTerminal(handler[h].seen) /\ Quarantined(k)
  <2>1. \A g \in Handlers : handler'[g] = handler[g] \/ GoesOnFree(g)
    BY Zenon, <1>2, <1>3, <1>4 DEF GoesOnFree
  <2>2. IsTerminal(turn[k].state)
    BY Zenon, <1>0, <1>5 DEF HandlerSound
  <2>3. s \in Slots /\ slot[s].k = k /\ slot[s].pc = "quarantined"
    BY <1>0, <1>2, <1>5 DEF OwnershipInv, KeySound, Quarantined
  <2> QED BY Zenon, <1>1, <1>5, <2>1, <2>2, <2>3, ReleaseOwned
<1>6. CASE ~(IsTerminal(handler[h].seen) /\ Quarantined(k))
  BY Zenon, <1>1, <1>2, <1>3, <1>4, <1>6, HandlerMoveOwned
<1> QED BY Zenon, <1>5, <1>6

\* A request that ends, with the permit it may hold.
LEMMA EndedOwned ==
  ASSUME TypeOK, TypeOK', OwnershipInv, TurnsKept, NoStartBut(NoTurn), NEW h \in Handlers,
         Serving, EndRequest(h),
         slot' = IF handler[h].slot = NoSlot THEN slot ELSE Freed(handler[h].slot),
         UNCHANGED <<registry, daemon, cred>>
  PROVE  OwnershipInv'
<1>0. handler \in [Handlers -> HandlerRecords] /\ handler[h].slot \in Slots \cup {NoSlot}
  BY Zenon DEF TypeOK, HandlerRecords
<1>1. CASE handler[h].slot = NoSlot
  <2>1. \A g \in Handlers : handler'[g] = IF g = h THEN IdleHandler ELSE handler[g]
    BY Zenon, <1>0 DEF EndRequest, ToHandler
  <2>2. IdleHandler.pc = "idle" /\ IdleHandler.slot = NoSlot
    BY Zenon DEF IdleHandler
  <2> QED BY Zenon, <1>1, <2>1, <2>2, HandlerMoveOwned
<1>2. CASE handler[h].slot # NoSlot
  BY Zenon, <1>0, <1>2, DropPermitOwned DEF EndRequest, ToHandler
<1> QED BY Zenon, <1>1, <1>2

\* The steps of a request up to its reservation keep the ownership.
LEMMA StartRequestOwned ==
  ASSUME TypeOK, TypeOK', OwnershipInv, TurnsKept, NoStartBut(NoTurn), NEW h \in Handlers,
         (\E k \in Keys : BeginStart(h, k)) \/ Preflight(h) \/ ReserveTurn(h)
  PROVE  OwnershipInv'
<1>0. /\ handler \in [Handlers -> HandlerRecords] /\ HandlerSound(h) /\ StoreTypeOK
      /\ turn \in [Keys -> TurnRecords]
  BY Zenon DEF TypeOK, StoreTypeOK, OwnershipInv
<1>1. UNCHANGED <<registry, daemon, cred>>
  BY Zenon DEF BeginStart, Preflight, ReserveTurn
<1>2. Serving
  <2>1. (\E k \in Keys : BeginStart(h, k)) => Serving
    BY Zenon DEF BeginStart
  <2>2. Preflight(h) \/ ReserveTurn(h) => handler[h].pc # "idle"
    BY Zenon DEF Preflight, ReserveTurn
  <2> QED BY <2>1, <2>2 DEF OwnershipInv, DaemonSound, IdleHandler
<1>3. ASSUME NEW k \in Keys, BeginStart(h, k)
      PROVE  OwnershipInv'
  <2> DEFINE c == [IdleHandler EXCEPT !.pc = "owner", !.k = k, !.seen = turn[k].state]
  <2>1. c.pc = "owner" /\ c.slot = NoSlot /\ c.k = k /\ c.seen = turn[k].state
    BY Zenon DEF IdleHandler
  <2> HIDE DEF c
  <2>2. /\ \A g \in Handlers : handler'[g] = IF g = h THEN c ELSE handler[g]
        /\ turn' = turn /\ slot' = slot /\ handler[h].pc = "idle"
    BY Zenon, <1>0, <1>3 DEF BeginStart, ToHandler, storeVars, c
  <2>3. handler[h].slot = NoSlot
    BY Zenon, <1>0, <2>2 DEF HandlerSound
  <2> QED BY Zenon, <1>1, <1>2, <2>1, <2>2, <2>3, HandlerMoveOwned
<1>4. ASSUME Refuse(h), handler[h].pc \in {"preflight", "reserve"}
      PROVE  OwnershipInv'
  <2>1. handler[h].slot # NoSlot
    BY Zenon, <1>0, <1>4 DEF HandlerSound
  <2> QED BY Zenon, <1>1, <1>2, <1>4, <2>1, EndedOwned DEF Refuse
<1>5. ASSUME NEW c \in HandlerRecords, ToHandler(h, c), UNCHANGED slot,
             handler[h].pc \in {"preflight", "reserve"}, c.pc \in {"reserve", "launch"},
             c.slot = handler[h].slot, c.k = handler[h].k, c.seen = handler[h].seen,
             c.pc = "launch" => turn'[c.k].state # "Absent"
      PROVE  OwnershipInv'
  <2>1. \A g \in Handlers : handler'[g] = IF g = h THEN c ELSE handler[g]
    BY Zenon, <1>0, <1>5 DEF ToHandler
  <2>2. handler[h].slot # NoSlot /\ handler[h].k \in Keys
    BY Zenon, <1>0, <1>5 DEF HandlerSound, HandlerRecords
  <2>3. IsTerminal(c.seen) => IsTerminal(turn'[c.k].state)
    BY Zenon, <1>0, <1>5, <2>2 DEF HandlerSound, TurnsKept
  <2> QED BY Zenon, <1>1, <1>2, <1>5, <2>1, <2>2, <2>3, HandlerMoveOwned
<1>6. CASE Preflight(h)
  <2> DEFINE c == [handler[h] EXCEPT !.pc = "reserve", !.bind = cred]
  <2>1. handler[h].pc = "preflight" /\ handler[h] \in HandlerRecords
    BY Zenon, <1>0, <1>6 DEF Preflight
  <2>2. CASE ToHandler(h, c) /\ UNCHANGED slot
    <3>1. c = handler'[h] /\ handler'[h] \in HandlerRecords
      BY Zenon, <1>0, <2>2 DEF ToHandler, TypeOK
    <3>2. c.pc = "reserve" /\ c.slot = handler[h].slot /\ c.k = handler[h].k
          /\ c.seen = handler[h].seen
      BY Zenon, <2>1 DEF HandlerRecords
    <3> HIDE DEF c
    <3> QED BY Zenon, <1>5, <2>1, <2>2, <3>1, <3>2
  <2> QED BY Zenon, <1>4, <1>6, <2>1, <2>2 DEF Preflight
<1>7. CASE ReserveTurn(h)
  <2> DEFINE c == [handler[h] EXCEPT !.pc = "launch"]
             k == handler[h].k
             b == handler[h].bind
  <2>1. handler[h].pc = "reserve" /\ handler[h] \in HandlerRecords
    BY Zenon, <1>0, <1>7 DEF ReserveTurn
  <2>2. ASSUME ToHandler(h, c), UNCHANGED slot, turn'[k].state # "Absent"
        PROVE  OwnershipInv'
    <3>1. c = handler'[h] /\ handler'[h] \in HandlerRecords
      BY Zenon, <1>0, <2>2 DEF ToHandler, TypeOK
    <3>2. c.pc = "launch" /\ c.slot = handler[h].slot /\ c.k = handler[h].k
          /\ c.seen = handler[h].seen
      BY Zenon, <2>1 DEF HandlerRecords
    <3> HIDE DEF c
    <3> QED BY Zenon, <1>5, <2>1, <2>2, <3>1, <3>2
  <2>3. k \in Keys
    BY Zenon, <2>1 DEF HandlerRecords
  <2>4. Reserve(k, b) => turn'[k].state # "Absent"
    BY <1>0, <2>3, ReservedFields DEF Reserve
  <2>5. turn[k].state = "Reserved" /\ UNCHANGED storeVars => turn'[k].state # "Absent"
    BY Zenon DEF storeVars
  <2>6. Refuse(h) => OwnershipInv'
    BY Zenon, <1>4, <2>1
  <2> HIDE DEF k, b
  <2> QED BY Zenon, <1>7, <2>2, <2>4, <2>5, <2>6 DEF ReserveTurn, k, b
<1> QED BY Zenon, <1>3, <1>6, <1>7

\* The steps of a cancel request, and the request deadline, keep the ownership.
LEMMA CancelRequestOwned ==
  ASSUME TypeOK, TypeOK', StoreSound, OwnershipInv, TurnsKept, NoStartBut(NoTurn),
         NEW h \in Handlers,
         \/ \E id \in CancelKeys, k \in Keys, expected \in 0..1 : BeginCancel(h, id, k, expected)
         \/ CommitCancel(h) \/ RequestTimeout(h)
  PROVE  OwnershipInv'
<1>0. /\ handler \in [Handlers -> HandlerRecords] /\ HandlerSound(h)
      /\ turn \in [Keys -> TurnRecords]
  BY Zenon DEF TypeOK, StoreTypeOK, OwnershipInv
<1>1. UNCHANGED <<registry, daemon, cred>>
  BY Zenon DEF BeginCancel, CommitCancel, RequestTimeout
<1>2. Serving
  <2>1. (\E id \in CancelKeys, k \in Keys, expected \in 0..1 : BeginCancel(h, id, k, expected))
          => Serving
    BY Zenon DEF BeginCancel
  <2>2. CommitCancel(h) \/ RequestTimeout(h) => handler[h].pc # "idle"
    BY Zenon DEF CommitCancel, RequestTimeout
  <2> QED BY <2>1, <2>2 DEF OwnershipInv, DaemonSound, IdleHandler
<1>3. ASSUME NEW c \in HandlerRecords, ToHandler(h, c), UNCHANGED slot,
             handler[h].pc \in {"idle", "commit"}, c.pc \in {"commit", "signal"},
             c.slot = NoSlot, IsTerminal(c.seen) => IsTerminal(turn'[c.k].state)
      PROVE  OwnershipInv'
  <2>1. \A g \in Handlers : handler'[g] = IF g = h THEN c ELSE handler[g]
    BY Zenon, <1>0, <1>3 DEF ToHandler
  <2>2. handler[h].slot = NoSlot
    BY Zenon, <1>0, <1>3 DEF HandlerSound
  <2> QED BY Zenon, <1>1, <1>2, <1>3, <2>1, <2>2, HandlerMoveOwned
<1>4. ASSUME NEW id \in CancelKeys, NEW k \in Keys, NEW expected \in 0..1,
             BeginCancel(h, id, k, expected)
      PROVE  OwnershipInv'
  <2> DEFINE c == [IdleHandler EXCEPT !.pc = "commit", !.k = k, !.id = id,
                     !.exp = expected, !.plan = CancellationEdge(turn[k].state),
                     !.rev = turn[k].rev]
  <2>1. c.pc = "commit" /\ c.slot = NoSlot /\ c.seen = "None"
    BY Zenon DEF IdleHandler
  <2>2. ToHandler(h, c) /\ UNCHANGED slot /\ handler[h].pc = "idle"
    BY Zenon, <1>4 DEF BeginCancel
  <2> HIDE DEF c
  <2>3. c \in HandlerRecords
    BY Zenon, <1>0, <2>2 DEF ToHandler, TypeOK
  <2>4. ~IsTerminal("None")
    BY Zenon DEF IsTerminal
  <2> QED BY Zenon, <1>3, <2>1, <2>2, <2>3, <2>4
<1>5. CASE CommitCancel(h)
  <2> DEFINE k == handler[h].k
             c == [IdleHandler EXCEPT !.pc = "signal", !.k = k, !.seen = turn'[k].state]
  <2>1. handler[h].pc = "commit" /\ UNCHANGED slot
    BY Zenon, <1>5 DEF CommitCancel
  <2>2. c.pc = "signal" /\ c.slot = NoSlot /\ c.seen = turn'[k].state /\ c.k = k
    BY Zenon DEF IdleHandler
  <2>3. ToHandler(h, c) \/ EndRequest(h)
    BY Zenon, <1>5 DEF CommitCancel
  <2> HIDE DEF c
  <2>4. CASE ToHandler(h, c)
    <3>1. c \in HandlerRecords
      BY Zenon, <1>0, <2>4 DEF ToHandler, TypeOK
    <3> QED BY Zenon, <1>3, <2>1, <2>2, <2>4, <3>1
  <2>5. CASE EndRequest(h)
    <3>1. handler[h].slot = NoSlot
      BY Zenon, <1>0, <2>1 DEF HandlerSound
    <3> QED BY Zenon, <1>1, <1>2, <2>1, <2>5, <3>1, EndedOwned
  <2> QED BY Zenon, <2>3, <2>4, <2>5
<1>6. CASE RequestTimeout(h)
  BY Zenon, <1>1, <1>2, <1>6, EndedOwned DEF RequestTimeout
<1> QED BY Zenon, <1>4, <1>5, <1>6

\* Every step of a request keeps the ownership.
LEMMA HandlerOwned ==
  ASSUME TypeOK, TypeOK', StoreSound, OwnershipInv, TurnsKept, NoStartBut(NoTurn),
         NEW h \in Handlers, HandlerStep(h)
  PROVE  OwnershipInv'
<1>1. CASE AnswerReplay(h) \/ ReleaseQuarantined(h)
  BY Zenon, <1>1, DropQuarantineOwned DEF AnswerReplay, ReleaseQuarantined, storeVars
<1> QED BY Zenon, <1>1, StartRequestOwned, CancelRequestOwned, AcquireOwned, LaunchOwned, SignalOwned
        DEF HandlerStep

\* Where a task neither awaits its start nor holds the credential lease.
PlainPcs == {"stream", "append", "flush", "complete", "failing", "interrupt", "recheck",
             "reconcile", "recommit", "exit"}

\* A task that goes on past its start, or exits with a terminal turn.
LEMMA PlainMoveOwned ==
  ASSUME TypeOK, TypeOK', OwnershipInv, TurnsKept, NoStartBut(NoTurn), NEW s \in Slots,
         slot[s].pc \in TaskPcs \ {"start"}, SlotMoves(s), slot'[s].pc \in PlainPcs,
         slot'[s].pc = "exit" => IsTerminal(turn'[slot[s].k].state),
         UNCHANGED <<registry, handler, daemon, cred>>
  PROVE  OwnershipInv'
<1>1. PlainPcs \subseteq TaskPcs /\ PlainPcs \cap LeasePcs = {}
      /\ PlainPcs \cap {"guard", "start", "conflicted"} = {}
  BY Zenon DEF PlainPcs, TaskPcs, DispatchPcs, LeasePcs
<1>2. NoStartBut(IF slot[s].pc = "start" /\ turn[slot[s].k].state = "Reserved"
                   THEN slot[s].k ELSE NoTurn)
  BY Zenon
<1> QED BY Zenon, <1>1, <1>2, TaskMoveOwned DEF SlotMoves

\* The steps before the provider answers keep the ownership: the lease is
\* granted for the binding of the turn and held through the start and the call.
LEMMA BoundaryStepsOwned ==
  ASSUME TypeOK, TypeOK', OwnershipInv, BoundaryInv, TurnsKept, NEW s \in Slots,
         AcquireCredentialUse(s) \/ StartProvider(s) \/ LoadAfterConflict(s) \/ CallProvider(s)
  PROVE  OwnershipInv'
<1> DEFINE k == slot[s].k
<1>0. /\ k \in Keys /\ SlotSound(s) /\ turn[k] \in TurnRecords
      /\ slot[s].pc \in {"guard", "start", "conflicted", "open"}
      /\ turn \in [Keys -> TurnRecords]
  <2>1. slot[s].pc \in {"guard", "start", "conflicted", "open"}
    BY Zenon DEF AcquireCredentialUse, StartProvider, LoadAfterConflict, CallProvider
  <2>2. k \in Keys
    BY Zenon, <2>1, TaskTurn DEF TypeOK, TaskPcs, DispatchPcs
  <2> QED BY Zenon, <2>1, <2>2 DEF TypeOK, StoreTypeOK, OwnershipInv
<1>1. UNCHANGED <<registry, handler, daemon, cred>>
  BY Zenon DEF AcquireCredentialUse, StartProvider, LoadAfterConflict, CallProvider, TaskCommit,
     TaskLocal
<1>2. slot[s].pc \in TaskPcs /\ "start" \in TaskPcs /\ "conflicted" \in TaskPcs
      /\ "open" \in TaskPcs /\ "opening" \in TaskPcs /\ "reconcile" \in PlainPcs
      /\ "exit" \in PlainPcs
  BY Zenon, <1>0 DEF TaskPcs, DispatchPcs, PlainPcs
<1>3. turn' = turn => NoStartBut(NoTurn)
  BY Zenon DEF NoStartBut
<1>4. ASSUME NEW next \in {"start", "conflicted", "open", "opening"}, Goto(s, next),
             cred = turn[k].bind, slot[s].pc \in {"guard", "start", "conflicted", "open"},
             next \in {"start", "conflicted"} =>
               slot[s].pc \in {"guard", "start", "conflicted"} /\ turn' = turn,
             NoStartBut(IF slot[s].pc = "start" /\ turn[k].state = "Reserved" THEN k ELSE NoTurn)
      PROVE  OwnershipInv'
  BY ZenonT(30), <1>0, <1>1, <1>2, <1>4, GotoMoves, TaskMoveOwned DEF SlotMoves
<1>5. ASSUME NEW next \in {"reconcile", "exit"}, Goto(s, next),
             next = "exit" => IsTerminal(turn[k].state),
             slot[s].pc # "start", turn' = turn
      PROVE  OwnershipInv'
  BY Zenon, <1>0, <1>1, <1>2, <1>3, <1>5, GotoMoves, PlainMoveOwned
<1>6. CASE AcquireCredentialUse(s)
  <2>1. /\ slot[s].pc = "guard" /\ turn' = turn
        /\ Goto(s, IF cred = turn[k].bind THEN "start" ELSE "reconcile")
    BY Zenon, <1>6 DEF AcquireCredentialUse, TaskLocal, storeVars
  <2> QED BY Zenon, <1>3, <1>4, <1>5, <2>1
<1>7. CASE LoadAfterConflict(s)
  <2>1. /\ slot[s].pc = "conflicted" /\ turn' = turn
        /\ \/ Goto(s, IF turn[k].state = "Reserved" THEN "reconcile" ELSE "exit")
           \/ Goto(s, "reconcile")
    BY Zenon, <1>7 DEF LoadAfterConflict, storeVars
  <2>2. turn[k].state # "Reserved" => IsTerminal(turn[k].state)
    BY Zenon, <1>0, <1>2, <2>1 DEF SlotSound, IsTerminal, TurnRecords
  <2> QED BY Zenon, <1>5, <2>1, <2>2
<1>8. CASE CallProvider(s)
  <2>1. slot[s].pc = "open" /\ turn' = turn /\ Goto(s, "opening")
    BY Zenon, <1>8 DEF CallProvider, storeVars
  <2>2. cred = turn[k].bind
    BY Zenon, <1>0, <2>1 DEF SlotSound, LeasePcs
  <2> QED BY Zenon, <1>3, <1>4, <2>1, <2>2
<1>9. CASE StartProvider(s)
  <2>1. /\ slot[s].pc = "start"
        /\ TaskCommit(s, MayStartProvider(k), StartedTurn(turn[k]),
                      "open", "conflicted", "reconcile")
    BY Zenon, <1>9 DEF StartProvider
  <2>2. cred = turn[k].bind
    BY Zenon, <1>0, <2>1 DEF SlotSound, LeasePcs
  <2>3. NoStartBut(IF slot[s].pc = "start" /\ turn[k].state = "Reserved" THEN k ELSE NoTurn)
    <3>1. CASE QuietStep
      BY Zenon, <1>0, <3>1 DEF QuietStep, QuietMoves, QuietMove, NoStartBut
    <3>2. CASE StartMove(s)
      BY Zenon, <1>0, <2>1, <3>2 DEF StartMove, NoStartBut
    <3> QED BY Zenon, <1>9, <3>1, <3>2, StartProviderStep
  <2>4. \/ Goto(s, "open") \/ (Goto(s, "conflicted") /\ turn' = turn) \/ Goto(s, "reconcile")
    BY Zenon, <2>1 DEF TaskCommit, storeVars
  <2>5. CASE Goto(s, "reconcile")
    <3>1. SlotMoves(s) /\ slot'[s].pc = "reconcile"
      BY Zenon, <2>5, GotoMoves
    <3>2. "reconcile" \in TaskPcs /\ "reconcile" \notin LeasePcs
      BY Zenon DEF TaskPcs, LeasePcs
    <3> QED BY Zenon, <1>1, <1>2, <2>3, <3>1, <3>2, TaskMoveOwned DEF SlotMoves
  <2> QED BY Zenon, <1>4, <2>1, <2>2, <2>3, <2>4, <2>5
<1> QED BY Zenon, <1>6, <1>7, <1>8, <1>9

\* The steps that read the stream keep the ownership.
LEMMA StreamStepsOwned ==
  ASSUME TypeOK, TypeOK', OwnershipInv, TurnsKept, NoStartBut(NoTurn), NEW s \in Slots,
         \/ StreamOpened(s) \/ StreamCancelled(s) \/ ProviderError(s)
         \/ \E n \in Deltas : TextDelta(s, n)
         \/ StreamCompleted(s)
         \/ \E usage \in BOOLEAN : StreamEnd(s, usage)
  PROVE  OwnershipInv'
<1>0. slot \in [Slots -> SlotRecords] /\ slot[s] \in SlotRecords
  BY Zenon DEF TypeOK
<1>1. slot[s].pc \in {"opening", "stream"} /\ UNCHANGED <<registry, handler, daemon, cred>>
  BY Zenon DEF StreamOpened, StreamCancelled, ProviderError, TextDelta, StreamCompleted,
     StreamEnd, TaskLocal
<1>2. slot[s].pc \in TaskPcs \ {"start"}
  BY Zenon, <1>1 DEF TaskPcs, DispatchPcs
<1>3. SlotMoves(s) /\ slot'[s].pc \in PlainPcs \ {"exit"}
  <2>1. CASE StreamOpened(s) \/ StreamCancelled(s)
    BY <2>1, GotoMoves DEF StreamOpened, StreamCancelled, PlainPcs
  <2>2. CASE ProviderError(s)
    <3>1. ASSUME NEW r \in BOOLEAN,
                 slot' = [slot EXCEPT ![s].pc = "failing", ![s].retryable = r]
          PROVE  SlotMoves(s) /\ slot'[s].pc = "failing"
      BY Zenon, <1>0, <3>1 DEF SlotMoves, SlotRecords
    <3> QED BY <2>2, <3>1, GotoMoves DEF ProviderError, PlainPcs
  <2>3. ASSUME NEW n \in Deltas, TextDelta(s, n)
        PROVE  SlotMoves(s) /\ slot'[s].pc \in PlainPcs \ {"exit"}
    <3> DEFINE out == slot[s].out + n
               next == IF NeedsAppend(out, slot[s].off) THEN "append" ELSE "stream"
    <3>1. ASSUME slot' = [slot EXCEPT ![s].out = out, ![s].pc = next]
          PROVE  SlotMoves(s) /\ slot'[s].pc = next
      <4> HIDE DEF out, next
      <4> QED BY Zenon, <1>0, <3>1 DEF SlotMoves, SlotRecords
    <3>2. Goto(s, "interrupt") \/ slot' = [slot EXCEPT ![s].out = out, ![s].pc = next]
      BY Zenon, <2>3 DEF TextDelta
    <3> QED BY <3>1, <3>2, GotoMoves DEF PlainPcs
  <2>4. CASE StreamCompleted(s)
    BY Zenon, <1>0, <2>4 DEF StreamCompleted, SlotMoves, SlotRecords, PlainPcs
  <2>5. ASSUME NEW usage \in BOOLEAN, StreamEnd(s, usage)
        PROVE  SlotMoves(s) /\ slot'[s].pc \in PlainPcs \ {"exit"}
    BY <2>5, GotoMoves DEF StreamEnd, PlainPcs
  <2> QED BY Zenon, <2>1, <2>2, <2>3, <2>4, <2>5
<1> QED BY Zenon, <1>1, <1>2, <1>3, PlainMoveOwned

\* The terminal commit of a task keeps the ownership: it exits when its turn is
\* terminal.
LEMMA TaskTerminalOwned ==
  ASSUME TypeOK, TypeOK', OwnershipInv, TurnsKept, NoStartBut(NoTurn), NEW s \in Slots,
         slot[s].pc \in {"complete", "failing", "interrupt"}, NEW to, IsTerminal(to),
         NEW may, NEW a, NEW r, NEW next \in {"interrupt", "recheck"},
         TaskCommit(s, may, TerminalTurn(turn[slot[s].k], to, a, r), "exit", next, next)
  PROVE  OwnershipInv'
<1> DEFINE k == slot[s].k
<1>0. slot[s].pc \in TaskPcs \ {"start"}
  BY Zenon DEF TaskPcs, DispatchPcs
<1>1. k \in Keys /\ turn \in [Keys -> TurnRecords] /\ turn[k] \in TurnRecords
  BY Zenon, <1>0, TaskTurn DEF TypeOK, StoreTypeOK
<1>2. UNCHANGED <<registry, handler, daemon, cred>>
  BY Zenon DEF TaskCommit
<1>3. CASE SetTurn(k, TerminalTurn(turn[k], to, a, r)) /\ Goto(s, "exit")
  <2>1. turn'[k] = TerminalTurn(turn[k], to, a, r)
    BY Zenon, <1>1, <1>3 DEF SetTurn
  <2>2. IsTerminal(turn'[k].state)
    BY <1>1, <2>1, TerminalState
  <2> QED BY Zenon, <1>0, <1>2, <1>3, <2>2, GotoMoves, PlainMoveOwned DEF PlainPcs
<1>4. CASE Goto(s, next)
  BY Zenon, <1>0, <1>2, <1>4, GotoMoves, PlainMoveOwned DEF PlainPcs
<1> QED BY Zenon, <1>3, <1>4 DEF TaskCommit

\* The steps that write the log and the outcome keep the ownership.
LEMMA StoreStepsOwned ==
  ASSUME TypeOK, TypeOK', OwnershipInv, TurnsKept, NoStartBut(NoTurn), NEW s \in Slots,
         \/ AppendText(s) \/ CompleteTurn(s) \/ StoreRaceCancelled(s) \/ FailTurn(s)
         \/ InterruptTurn(s) \/ RecheckTurn(s)
  PROVE  OwnershipInv'
<1>0. slot \in [Slots -> SlotRecords] /\ slot[s] \in SlotRecords
  BY Zenon DEF TypeOK
<1>1. UNCHANGED <<registry, handler, daemon, cred>>
  BY Zenon DEF AppendText, CompleteTurn, StoreRaceCancelled, FailTurn, InterruptTurn, RecheckTurn,
     TaskCommit, TaskLocal
<1>2. slot[s].pc \in {"append", "flush", "complete", "failing", "interrupt", "recheck"}
  BY Zenon DEF AppendText, CompleteTurn, StoreRaceCancelled, FailTurn, InterruptTurn, RecheckTurn
<1>3. slot[s].pc \in TaskPcs \ {"start"}
  BY Zenon, <1>2 DEF TaskPcs, DispatchPcs
<1>4. IsTerminal("Completed") /\ IsTerminal("Failed") /\ IsTerminal("InterruptedNeedsReview")
  BY Zenon DEF IsTerminal
<1>5. ASSUME NEW next \in {"interrupt", "reconcile"}, Goto(s, next)
      PROVE  OwnershipInv'
  BY Zenon, <1>1, <1>3, <1>5, GotoMoves, PlainMoveOwned DEF PlainPcs
<1>6. CASE AppendText(s)
  <2> DEFINE off == slot[s].off + ChunkSize(s)
             next == IF slot[s].pc = "flush" THEN "complete"
                     ELSE IF NeedsAppend(slot[s].out, off) THEN "append" ELSE "stream"
  <2>1. next \in PlainPcs \ {"exit"}
    BY Zenon DEF PlainPcs
  <2>2. Goto(s, "interrupt") \/ slot' = [slot EXCEPT ![s].off = off, ![s].pc = next]
    BY Zenon, <1>6 DEF AppendText
  <2> HIDE DEF off, next
  <2>3. CASE slot' = [slot EXCEPT ![s].off = off, ![s].pc = next]
    <3>1. SlotMoves(s) /\ slot'[s].pc = next
      BY Zenon, <1>0, <2>3 DEF SlotMoves, SlotRecords
    <3> QED BY Zenon, <1>1, <1>3, <2>1, <3>1, PlainMoveOwned
  <2> QED BY Zenon, <1>5, <2>2, <2>3
<1>7. CASE CompleteTurn(s)
  BY Zenon, <1>4, <1>5, <1>7, TaskTerminalOwned DEF CompleteTurn
<1>8. CASE StoreRaceCancelled(s)
  BY Zenon, <1>5, <1>8 DEF StoreRaceCancelled
<1>9. CASE FailTurn(s) \/ InterruptTurn(s)
  BY Zenon, <1>4, <1>9, TaskTerminalOwned DEF FailTurn, InterruptTurn
<1>10. CASE RecheckTurn(s)
  <2>1. CASE Goto(s, "exit") /\ IsTerminal(turn[slot[s].k].state)
    <3>1. slot[s].k \in Keys
      BY Zenon, <1>0, <1>3, TaskTurn
    <3>2. IsTerminal(turn'[slot[s].k].state)
      BY Zenon, <2>1, <3>1 DEF TurnsKept
    <3> QED BY Zenon, <1>1, <1>3, <2>1, <3>2, GotoMoves, PlainMoveOwned DEF PlainPcs
  <2> QED BY Zenon, <1>5, <1>10, <2>1 DEF RecheckTurn
<1> QED BY Zenon, <1>6, <1>7, <1>8, <1>9, <1>10

\* A task that gives up keeps its permit in the registry when it is the owner.
LEMMA GiveUpOwned ==
  ASSUME TypeOK, OwnershipInv, NEW s \in Slots, GiveUp(s)
  PROVE  OwnershipInv'
<1> DEFINE k == slot[s].k
           q == [FreeSlot EXCEPT !.pc = "quarantined", !.k = k]
<1>0. /\ slot \in [Slots -> SlotRecords] /\ registry \in [Keys -> Slots \cup {NoSlot}]
      /\ slot[s].pc \in TaskPcs /\ slot[s].pc # "held"
      /\ slot[s].pc \in TaskPcs \cup {"quarantined"}
  BY Zenon DEF TypeOK, GiveUp, TaskPcs
<1>1. /\ turn' = turn /\ TurnsKept /\ NoStartBut(NoTurn) /\ handler' = handler
      /\ cred' = cred /\ daemon' = daemon /\ registry' = registry
  BY Zenon DEF GiveUp, storeVars, TurnsKept, NoStartBut
<1>2. Serving /\ Serving'
  <2>1. slot[s] # FreeSlot
    BY DEF FreeSlot, GiveUp
  <2> QED BY Zenon, <1>1, <2>1 DEF OwnershipInv, DaemonSound, Serving
<1>3. k \in Keys
  BY Zenon, <1>0, TaskTurn
<1>4. CASE registry[k] # s
  <2>1. slot' = Freed(s)
    BY Zenon, <1>4 DEF GiveUp
  <2> QED BY Zenon, <1>0, <1>1, <1>2, <1>4, <2>1, ReleaseOwned
<1>5. CASE registry[k] = s
  <2>1. slot' = [slot EXCEPT ![s] = q]
    BY Zenon, <1>5 DEF GiveUp
  <2>2. q.pc = "quarantined" /\ q.k = k /\ ~q.sig
    BY Zenon DEF FreeSlot
  <2> HIDE DEF q
  <2>3. \A r \in Slots : slot'[r] = IF r = s THEN q ELSE slot[r]
    BY Zenon, <1>0, <2>1
  <2>4. /\ \A g \in Handlers : HandlerSound(g)'
        /\ \A r \in Slots : slot[r].pc = "held" => \E g \in Handlers : handler'[g].slot = r
    <3>1. \A r \in Slots : slot[r].pc = "held" => slot'[r].pc = "held"
      BY Zenon, <1>0, <2>3
    <3> QED BY Zenon, <1>1, <3>1, HoldersKept
  <2>5. ASSUME NEW r \in Slots  PROVE SlotSound(r)'
    <3>1. CASE r = s
      BY Zenon, <1>1, <1>5, <2>2, <2>3, <3>1 DEF SlotSound, TaskPcs, DispatchPcs, LeasePcs
    <3>2. CASE r # s
      <4>1. SlotSound(r) /\ slot'[r] = slot[r]
        BY Zenon, <2>3, <3>2 DEF OwnershipInv
      <4>2. slot[r].pc \in TaskPcs => slot[r].k # NoTurn
        BY Zenon, <1>0, TaskTurn, NoTurnAssumption
      <4> QED BY Zenon, <1>1, <2>4, <4>1, <4>2, SlotKept
    <3> QED BY Zenon, <3>1, <3>2
  <2>6. ASSUME NEW j \in Keys  PROVE KeySound(j)'
    <3>1. KeySound(j) /\ registry[j] \in Slots \cup {NoSlot}
      BY Zenon, <1>0 DEF OwnershipInv
    <3>2. registry[j] = s => j = k
      BY Zenon, <3>1, NoSlotAssumption DEF KeySound
    <3> QED BY Zenon, <1>1, <1>2, <2>2, <2>3, <3>1, <3>2 DEF KeySound
  <2> QED BY Zenon, <1>2, <2>4, <2>5, <2>6, ServingSound DEF OwnershipInv
<1> QED BY Zenon, <1>4, <1>5

\* The exit of a task keeps the ownership.
LEMMA ExitStepsOwned ==
  ASSUME TypeOK, TypeOK', StoreSound, OwnershipInv, TurnsKept, NoStartBut(NoTurn),
         NEW s \in Slots, ReconcileLoad(s) \/ ReconcileCommit(s) \/ FinishTask(s)
  PROVE  OwnershipInv'
<1> DEFINE k == slot[s].k
<1>0. /\ slot \in [Slots -> SlotRecords] /\ slot[s] \in SlotRecords
      /\ slot[s].pc \in TaskPcs \ {"start"} /\ slot[s].pc \in TaskPcs \cup {"quarantined"}
  BY Zenon DEF TypeOK, ReconcileLoad, ReconcileCommit, FinishTask, TaskPcs, DispatchPcs
<1>1. k \in Keys
  BY Zenon, <1>0, TaskTurn
<1>2. CASE ReconcileLoad(s)
  <2> DEFINE t == turn[k]
  <2>1. UNCHANGED <<registry, handler, daemon, cred>> /\ turn' = turn
    BY Zenon, <1>2 DEF ReconcileLoad, TaskLocal, storeVars
  <2>2. CASE IsTerminal(t.state)
    <3>1. Goto(s, "exit")
      BY Zenon, <1>2, <2>2 DEF ReconcileLoad, Goto
    <3> QED BY Zenon, <1>0, <2>1, <2>2, <3>1, GotoMoves, PlainMoveOwned DEF PlainPcs
  <2>3. CASE ~IsTerminal(t.state)
    <3> DEFINE plan == CancellationEdge(t.state)
    <3>1. slot' = [slot EXCEPT ![s].pc = "recommit", ![s].rev = t.rev, ![s].plan = plan]
      BY Zenon, <1>2, <2>3 DEF ReconcileLoad
    <3> HIDE DEF plan
    <3>2. SlotMoves(s) /\ slot'[s].pc = "recommit"
      BY Zenon, <1>0, <3>1 DEF SlotMoves, SlotRecords
    <3> QED BY Zenon, <1>0, <2>1, <3>2, PlainMoveOwned DEF PlainPcs
  <2> QED BY Zenon, <2>2, <2>3
<1>3. CASE ReconcileCommit(s)
  <2>1. UNCHANGED <<registry, handler, daemon, cred>>
    BY Zenon, <1>3 DEF ReconcileCommit
  <2>2. CASE Goto(s, "reconcile")
    BY <1>0, <2>1, <2>2, GotoMoves, PlainMoveOwned DEF PlainPcs
  <2>3. CASE CommitCancellation(k, k, slot[s].rev, slot[s].plan, slot[s].rev) /\ Goto(s, "exit")
    <3>1. /\ k \in CancelIds /\ slot[s].rev \in Nat /\ slot[s].plan \in Plans /\ StoreTypeOK
          /\ ReceiptsMatchTurns
      BY Zenon, <1>0, <1>1 DEF SlotRecords, CancelIds, TypeOK, StoreSound
    <3>2. IsTerminal(turn'[k].state)
      BY Zenon, <1>1, <2>3, <3>1, CancellationStore
    <3> QED BY Zenon, <1>0, <2>1, <2>3, <3>2, GotoMoves, PlainMoveOwned DEF PlainPcs
  <2> QED BY Zenon, <1>3, <2>2, <2>3 DEF ReconcileCommit
<1>4. CASE FinishTask(s)
  <2>1. /\ slot[s].pc = "exit" /\ turn' = turn /\ slot' = Freed(s) /\ handler' = handler
        /\ registry' = IF registry[k] = s THEN [registry EXCEPT ![k] = NoSlot] ELSE registry
        /\ UNCHANGED <<daemon, cred>>
    BY Zenon, <1>4 DEF FinishTask, storeVars
  <2>2. IsTerminal(turn[k].state)
    BY Zenon, <2>1 DEF OwnershipInv, SlotSound
  <2>3. Serving
    <3>1. slot[s] # FreeSlot
      BY <2>1 DEF FreeSlot
    <3> QED BY Zenon, <3>1 DEF OwnershipInv, DaemonSound
  <2> QED BY Zenon, <1>0, <2>1, <2>2, <2>3, ReleaseOwned
<1> QED BY Zenon, <1>2, <1>3, <1>4

\* Every step of a task keeps the ownership.
LEMMA TaskOwned ==
  ASSUME TypeOK, TypeOK', StoreSound, BoundaryInv, OwnershipInv, TurnsKept, NEW s \in Slots,
         TaskStep(s), StartProvider(s) \/ NoStartBut(NoTurn)
  PROVE  OwnershipInv'
  BY Zenon, BoundaryStepsOwned, StreamStepsOwned, StoreStepsOwned, GiveUpOwned, ExitStepsOwned
     DEF TaskStep

\* Before IPC opens nobody owns anything.
LEMMA DownOwned ==
  ASSUME ~Serving', registry' = [k \in Keys |-> NoSlot], slot' = [s \in Slots |-> FreeSlot],
         handler' = [h \in Handlers |-> IdleHandler], detached' = {},
         daemon'.mode = "recovering" /\ ~daemon'.truncated => Incomplete' \subseteq daemon'.todo
  PROVE  OwnershipInv'
<1>1. \A k \in Keys : KeySound(k)'
  BY Zenon DEF KeySound
<1>2. \A s \in Slots : SlotSound(s)'
  BY Zenon DEF SlotSound, FreeSlot, TaskPcs, DispatchPcs, LeasePcs
<1>3. \A h \in Handlers : HandlerSound(h)'
  BY Zenon DEF HandlerSound, IdleHandler
<1>4. DaemonSound'
  BY Zenon DEF DaemonSound
<1> QED BY Zenon, <1>1, <1>2, <1>3, <1>4 DEF OwnershipInv

\* Going down, whatever was committed, leaves nobody an owner.
LEMMA HaltOwned ==
  ASSUME Halt
  PROVE  OwnershipInv'
<1>1. daemon'.mode = "down" /\ ~Serving'
  BY Zenon DEF Halt, Serving
<1> QED BY Zenon, <1>1, DownOwned DEF Halt

\* Startup recovery keeps the ownership: IPC opens after an untruncated pass,
\* when no incomplete turn is left to answer for.
LEMMA RecoveryOwned ==
  ASSUME TypeOK, TypeOK', OwnershipInv, RecoveryStep
  PROVE  OwnershipInv'
<1>0. /\ DaemonSound /\ turn \in [Keys -> TurnRecords]
      /\ daemon \in [mode : {"down", "recovering", "serving"}, todo : SUBSET Keys,
                     truncated : BOOLEAN]
  BY Zenon DEF OwnershipInv, TypeOK, StoreTypeOK
<1>1. CASE BeginRecovery
  <2>1. PICK page \in SUBSET Incomplete :
          daemon' = [mode |-> "recovering", todo |-> page, truncated |-> page # Incomplete]
    BY Zenon, <1>1 DEF BeginRecovery
  <2>2. /\ turn' = turn /\ registry' = registry /\ slot' = slot /\ handler' = handler
        /\ detached' = detached /\ ~Serving
    BY Zenon, <1>1 DEF BeginRecovery, storeVars, memVars, Serving
  <2>3. ~Serving' /\ (~daemon'.truncated => Incomplete' \subseteq daemon'.todo)
    BY Zenon, <2>1, <2>2 DEF Serving, Incomplete
  <2> QED BY Zenon, <1>0, <2>2, <2>3, DownOwned DEF DaemonSound
<1>2. CASE EndRecovery
  <2>1. CASE daemon.truncated
    BY Zenon, <1>2, <2>1, HaltOwned DEF EndRecovery
  <2>2. CASE ~daemon.truncated
    <3>1. /\ turn' = turn /\ registry' = registry /\ slot' = slot /\ handler' = handler
          /\ detached' = detached /\ ~Serving /\ cred' = cred /\ daemon.mode = "recovering"
          /\ daemon.todo = {} /\ Serving'
      BY Zenon, <1>0, <1>2, <2>2 DEF EndRecovery, storeVars, memVars, Serving
    <3>2. Incomplete = {}
      BY Zenon, <1>0, <2>2, <3>1 DEF DaemonSound
    <3>3. \A k \in Keys : KeySound(k)'
      BY Zenon, <1>0, <3>1, <3>2 DEF DaemonSound, KeySound, Incomplete
    <3>4. (\A s \in Slots : SlotSound(s)') /\ (\A h \in Handlers : HandlerSound(h)')
      BY <3>1 DEF OwnershipInv, SlotSound, HandlerSound
    <3> QED BY Zenon, <3>1, <3>3, <3>4, ServingSound DEF OwnershipInv
  <2> QED BY Zenon, <2>1, <2>2
<1>3. ASSUME NEW k \in Keys, RecoverTurn(k)
      PROVE  OwnershipInv'
  <2> DEFINE to == CancellationEdge(turn[k].state)
             t == TerminalTurn(turn[k], to, 0, FALSE)
  <2>1. CASE Halt
    BY Zenon, <2>1, HaltOwned
  <2>2. CASE /\ ValidTerminal(k, to, turn[k].rev, 0) /\ SetTurn(k, t)
             /\ daemon' = [daemon EXCEPT !.todo = @ \ {k}] /\ UNCHANGED memVars
    <3>1. /\ ~Serving /\ daemon.mode = "recovering" /\ daemon'.mode = "recovering"
          /\ daemon'.truncated = daemon.truncated /\ daemon'.todo = daemon.todo \ {k} /\ ~Serving'
      <4>1. daemon.mode = "recovering"
        BY Zenon, <1>3 DEF RecoverTurn
      <4>2. daemon' = [daemon EXCEPT !.todo = @ \ {k}]
        BY Zenon, <2>2
      <4> QED BY Zenon, <1>0, <4>1, <4>2 DEF Serving
    <3>2. IsTerminal(to)
      BY Zenon, <2>2 DEF ValidTerminal, TurnPermits, CancellationEdge, IsTerminal
    <3>3. turn[k] \in TurnRecords
      BY Zenon, <1>0
    <3>4. t.state = to
      BY Zenon, <3>3 DEF TerminalTurn, TurnRecords
    <3>5. turn' = [turn EXCEPT ![k] = t]
      BY Zenon, <2>2 DEF SetTurn
    <3> HIDE DEF t, to
    <3>6. Incomplete' \subseteq Incomplete \ {k}
      BY Zenon, <1>0, <3>2, <3>4, <3>5 DEF Incomplete, IsTerminal
    <3>7. ~daemon'.truncated => Incomplete' \subseteq daemon'.todo
      BY Zenon, <1>0, <3>1, <3>6 DEF DaemonSound
    <3>8. registry' = registry /\ slot' = slot /\ handler' = handler /\ detached' = detached
      BY Zenon, <2>2 DEF memVars
    <3> QED BY Zenon, <1>0, <3>1, <3>7, <3>8, DownOwned DEF DaemonSound
  <2> QED BY Zenon, <1>3, <2>1, <2>2 DEF RecoverTurn
<1> QED BY Zenon, <1>1, <1>2, <1>3 DEF RecoveryStep

\* A rotation waits for every lease, so no lease is left on the old binding.
LEMMA RotateOwned ==
  ASSUME TypeOK, OwnershipInv, NEW b, RotateCredential(b)
  PROVE  OwnershipInv'
<1>1. /\ turn' = turn /\ registry' = registry /\ slot' = slot /\ handler' = handler
      /\ detached' = detached /\ daemon' = daemon /\ Serving'
      /\ \A s \in Slots : slot[s].pc \notin LeasePcs
  BY Zenon DEF RotateCredential, storeVars, memVars, Serving
<1>2. \A k \in Keys : KeySound(k)'
  BY Zenon, <1>1 DEF OwnershipInv, KeySound, Serving
<1>3. (\A s \in Slots : SlotSound(s)') /\ (\A h \in Handlers : HandlerSound(h)')
  BY <1>1 DEF OwnershipInv, SlotSound, HandlerSound
<1> QED BY Zenon, <1>1, <1>2, <1>3, ServingSound DEF OwnershipInv

\* A detached call moves turns only.
LEMMA DetachedOwned ==
  ASSUME TypeOK, OwnershipInv, TurnsKept, NoStartBut(NoTurn), NEW d \in detached, RunDetached(d)
  PROVE  OwnershipInv'
<1>0. slot \in [Slots -> SlotRecords]
  BY Zenon DEF TypeOK
<1>1. /\ registry' = registry /\ slot' = slot /\ handler' = handler
      /\ daemon' = daemon /\ cred' = cred /\ Serving /\ Serving'
  BY Zenon DEF RunDetached, OwnershipInv, DaemonSound, Serving
<1>2. \A k \in Keys : KeySound(k)'
  BY Zenon, <1>1, NoTurnAssumption DEF OwnershipInv, KeySound, NoStartBut
<1>3. ASSUME NEW r \in Slots  PROVE SlotSound(r)'
  <2>1. SlotSound(r)
    BY Zenon DEF OwnershipInv
  <2>2. slot[r].pc = "held" => \E g \in Handlers : handler'[g].slot = r
    BY Zenon, <1>1, <2>1 DEF SlotSound
  <2>3. slot[r].pc \in TaskPcs => slot[r].k # NoTurn
    BY Zenon, <1>0, TaskTurn, NoTurnAssumption
  <2> QED BY Zenon, <1>1, <2>1, <2>2, <2>3, SlotKept
<1>4. \A g \in Handlers : HandlerSound(g)'
  <2>1. \A r \in Slots : slot[r].pc = "held" => slot'[r].pc = "held"
    BY Zenon, <1>1
  <2> QED BY Zenon, <1>1, <2>1, HoldersKept
<1> QED BY Zenon, <1>1, <1>2, <1>3, <1>4, ServingSound DEF OwnershipInv

\* Every step keeps the ownership.
LEMMA OwnershipStep ==
  ASSUME TypeOK, StoreSound, BoundaryInv, OwnershipInv, Next
  PROVE  OwnershipInv'
<1>0. TypeOK' /\ TurnsKept
  BY Zenon, NextType, StoreStep
<1>1. (\E s \in Slots : StartProvider(s)) \/ NoStartBut(NoTurn)
  BY Zenon, OnlyTasksStart
<1>2. ASSUME NEW s \in Slots, StartProvider(s)  PROVE OwnershipInv'
  BY Zenon, <1>0, <1>2, BoundaryStepsOwned
<1>3. CASE NoStartBut(NoTurn)
  BY Zenon, <1>0, <1>3, HandlerOwned, TaskOwned, DetachedOwned, RotateOwned, RecoveryOwned, HaltOwned
     DEF Next, Crash
<1> QED BY Zenon, <1>1, <1>2, <1>3

\* Nothing is owned at first.
LEMMA OwnershipInit ==
  ASSUME Init
  PROVE  OwnershipInv
<1>1. \A k \in Keys : KeySound(k)
  BY Zenon DEF Init, KeySound, Serving
<1>2. \A s \in Slots : SlotSound(s)
  BY Zenon DEF Init, SlotSound, FreeSlot, TaskPcs, DispatchPcs, LeasePcs
<1>3. \A h \in Handlers : HandlerSound(h)
  BY Zenon DEF Init, HandlerSound, IdleHandler
<1>4. DaemonSound
  BY Zenon DEF Init, DaemonSound
<1> QED BY Zenon, <1>1, <1>2, <1>3, <1>4 DEF OwnershipInv

\* A stuttering step keeps the ownership.
LEMMA OwnershipStutter ==
  ASSUME OwnershipInv, UNCHANGED vars
  PROVE  OwnershipInv'
<1>1. /\ turn' = turn /\ registry' = registry /\ slot' = slot /\ handler' = handler
      /\ detached' = detached /\ daemon' = daemon /\ cred' = cred
  BY Zenon DEF vars, storeVars, memVars
<1> QED BY <1>1 DEF OwnershipInv, KeySound, SlotSound, HandlerSound, DaemonSound, Serving, Incomplete

\* Who owns what is an inductive invariant of the daemon: registry, permits,
\* tasks, requests, credential lease and recovery pass always agree.
THEOREM OwnershipHolds == Spec => []OwnershipInv
<1>1. Init => TypeOK /\ StoreSound /\ BoundaryInv /\ OwnershipInv
  BY Zenon, InitType, StoreSoundInit, BoundaryInit, OwnershipInit
<1>2. TypeOK /\ StoreSound /\ BoundaryInv /\ OwnershipInv /\ [Next]_vars
        => TypeOK' /\ StoreSound' /\ BoundaryInv' /\ OwnershipInv'
  BY Zenon, NextType, StoreStep, StoreStutter, BoundaryStep, OwnershipStep, OwnershipStutter
<1> QED BY <1>1, <1>2, PTL DEF Spec

\* The registry, the permits and the tasks agree, a turn at the provider has an
\* owner, and only a terminal turn's task is told to stop
\* (ConversationTaskRegistry, launch_conversation_turn, cancel_conversation_turn).
THEOREM TasksAlwaysAccounted == Spec => []TasksAccounted
<1>1. TypeOK /\ OwnershipInv => TasksAccounted
  <2> SUFFICES ASSUME TypeOK, OwnershipInv  PROVE TasksAccounted
    BY Zenon
  <2>1. RegistryMatchesSlots /\ StartedTurnHasOwner
    BY Zenon DEF OwnershipInv, KeySound, RegistryMatchesSlots, StartedTurnHasOwner
  <2>2. SignalledTurnsAreTerminal
    BY Zenon DEF OwnershipInv, SlotSound, SignalledTurnsAreTerminal
  <2>3. PermitsAccounted
    BY DEF OwnershipInv, SlotSound, PermitsAccounted, TypeOK, SlotRecords
  <2> QED BY Zenon, <2>1, <2>2, <2>3 DEF TasksAccounted
<1> QED BY <1>1, TypeCorrect, OwnershipHolds, PTL

\* The provider is called with the credential its turn is bound to, which is the
\* current one: a rotation waits for the lease (acquire_xai_credential_use).
THEOREM CallsUseBoundCredential == Spec => CallUsesBoundCredential
<1>1. TypeOK /\ StoreSound /\ BoundaryInv /\ OwnershipInv /\ [Next]_vars
        => [\A k \in Keys : calls'[k] # calls[k] => cred = turn[k].bind /\ cred # NoBinding]_vars
  <2> SUFFICES ASSUME TypeOK, StoreSound, BoundaryInv, OwnershipInv, Next, NEW k \in Keys,
                      calls'[k] # calls[k]
               PROVE  cred = turn[k].bind /\ cred # NoBinding
    BY Zenon
  <2>1. PICK s \in Slots : CallProvider(s)
    <3>1. QuietStep => calls' = calls
      BY Zenon DEF QuietStep
    <3>2. \A r \in Slots : StartProvider(r) => calls' = calls
      BY Zenon DEF StartProvider, TaskCommit
    <3> QED BY Zenon, <3>1, <3>2, StepKinds
  <2>2. slot[s].k = k /\ slot[s].pc = "open"
    <3>1. calls \in [Keys -> Nat]
      BY Zenon DEF TypeOK
    <3>2. slot[s].pc = "open" /\ calls' = [calls EXCEPT ![slot[s].k] = @ + 1]
      BY Zenon, <2>1 DEF CallProvider
    <3> QED BY Zenon, <3>1, <3>2
  <2>3. cred = turn[k].bind /\ turn[k].state # "Absent"
    BY Zenon, <2>2 DEF OwnershipInv, SlotSound, LeasePcs, TaskPcs, DispatchPcs
  <2>4. turn[k].bind # NoBinding
    BY Zenon, <2>3, NoBindingAssumption DEF StoreSound, TurnsFormed
  <2> QED BY Zenon, <2>3, <2>4
<1> QED BY <1>1, TypeCorrect, StoreHolds, BoundaryHolds, OwnershipHolds, PTL
        DEF Spec, CallUsesBoundCredential

\* IPC opens only when every turn of an earlier process is classified
\* (recover_incomplete, and the refusal of a truncated pass).
THEOREM RecoversBeforeServing == Spec => ServesOnlyRecovered
<1>1. TypeOK /\ OwnershipInv /\ [Next]_vars
        => [~Serving /\ Serving' => \A k \in Keys : turn[k].state = "Absent"
                                                     \/ IsTerminal(turn[k].state)]_vars
  <2> SUFFICES ASSUME TypeOK, OwnershipInv, Next, ~Serving, Serving', NEW k \in Keys
               PROVE  turn[k].state = "Absent" \/ IsTerminal(turn[k].state)
    BY Zenon
  <2>1. turn[k] \in TurnRecords /\ DaemonSound
    BY Zenon DEF TypeOK, StoreTypeOK, OwnershipInv
  <2>2. daemon' # daemon
    BY Zenon DEF Serving
  <2>3. ~Halt
    BY DEF Halt, Serving
  <2>4. EndRecovery
    <3>1. ASSUME NEW h \in Handlers  PROVE ~HandlerStep(h)
      BY Zenon, <2>2 DEF HandlerStep, BeginStart, AnswerReplay, AcquirePermit, Preflight, ReserveTurn,
         Launch, BeginCancel, CommitCancel, SignalTask, ReleaseQuarantined, RequestTimeout
    <3>2. ASSUME NEW s \in Slots  PROVE ~TaskStep(s)
      BY Zenon, <2>2 DEF TaskStep, AcquireCredentialUse, StartProvider, LoadAfterConflict, CallProvider,
         StreamOpened, StreamCancelled, ProviderError, TextDelta, StreamCompleted, StreamEnd,
         AppendText, CompleteTurn, StoreRaceCancelled, FailTurn, InterruptTurn, RecheckTurn,
         ReconcileLoad, ReconcileCommit, GiveUp, FinishTask, TaskCommit, TaskLocal
    <3>3. ASSUME NEW d \in detached  PROVE ~RunDetached(d)
      BY Zenon, <2>2 DEF RunDetached
    <3>4. ASSUME NEW b  PROVE ~RotateCredential(b)
      BY Zenon DEF RotateCredential
    <3>5. ~Crash /\ ~BeginRecovery
      BY <2>3 DEF Crash, BeginRecovery, Serving
    <3>6. ASSUME NEW j \in Keys  PROVE ~RecoverTurn(j)
      BY Zenon, <2>3 DEF RecoverTurn, Serving, TypeOK
    <3> QED BY Zenon, <3>1, <3>2, <3>3, <3>4, <3>5, <3>6 DEF Next, RecoveryStep
  <2>5. Incomplete = {}
    BY Zenon, <2>1, <2>3, <2>4 DEF EndRecovery, DaemonSound
  <2> QED BY Zenon, <2>1, <2>5 DEF Incomplete, IsTerminal, TurnRecords
<1> QED BY <1>1, TypeCorrect, OwnershipHolds, PTL DEF Spec, ServesOnlyRecovered
=============================================================================
