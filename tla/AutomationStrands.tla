------------------------- MODULE AutomationStrands --------------------------
(***************************************************************************)
(* A scheduler that serves strands no run while its clock does not go back *)
(* and its store answers, for every set of definitions, every calendar and *)
(* policy, and every bound.                                                *)
(***************************************************************************)
EXTENDS AutomationAccounts

USE DEF OccurrenceStates, ActiveStates, RunStates, Completions, Owners

-----------------------------------------------------------------------------
(* No run is stranded *)

SpentRecords ==
  [limit : Limits, regressions : Nat, crashes : Nat, faults : Nat, edits : Nat]

Linked(o) == InState(o, {"RunLinked"})

RunningRuns == {o \in Occurrences : run[o] # None /\ run[o].state = "Running"}

\* Nothing the scheduler stored lies in the future.
TimesPast ==
  /\ task.now <= clock
  /\ lease # None => lease.renewedAt <= clock /\ lease.expiresAt = lease.renewedAt + TTL
  /\ \A o \in Occurrences : /\ occurrence[o] # None => occurrence[o].updatedAt <= clock
                            /\ run[o] # None => run[o].updatedAt <= clock

\* A claim does not outlive the lease it was made under, or a renewal of it.
ClaimsCovered ==
  \A o \in Occurrences :
    Linked(o) => /\ lease # None /\ occurrence[o].expiresAt \in Nat
                 /\ occurrence[o].expiresAt <= lease.expiresAt

\* A daemon starts without a lease, so when it has one every older claim has
\* expired, and recovery that succeeds settles the runs that were sent.
StartsFresh ==
  /\ task.pc = "starting" => lease = None \/ lease.owner # task.owner
  /\ task.pc = "recovering" =>
       \A o \in Occurrences : Linked(o) => occurrence[o].expiresAt <= task.now
  /\ task.pc = "recovered" => RunningRuns = {}

\* The run being dispatched is marked Running, and nobody else touches it.
CurrentRun ==
  task.pc \in InDispatch =>
    /\ task.current.id \in RunningRuns /\ Linked(task.current.id)
    /\ occurrence[task.current.id].revision = task.current.revision

OnlyCurrent ==
  Serving /\ spent.faults = 0 =>
    \A o \in RunningRuns : task.pc \in InDispatch /\ task.current.id = o

StrandInv ==
  /\ CurrentRun /\ spent \in SpentRecords
  /\ spent.regressions = 0 => TimesPast /\ ClaimsCovered /\ StartsFresh /\ OnlyCurrent

\* What is spent stays spent, and time goes back only at a cost.
SpentMove ==
  /\ spent' \in SpentRecords
  /\ spent'.faults = 0 => spent.faults = 0
  /\ spent'.regressions = 0 => spent.regressions = 0 /\ clock <= clock'

\* Spending one of a bound
LEMMA SpendFields ==
  ASSUME spent \in SpentRecords,
         NEW b \in {"regressions", "crashes", "faults", "edits"}, Spend(b)
  PROVE  /\ spent' \in SpentRecords
         /\ spent'.faults = 0 => spent.faults = 0 /\ b # "faults"
         /\ spent'.regressions = 0 => spent.regressions = 0 /\ b # "regressions"
<1>1. CASE b = "regressions"
  <2> DEFINE n == spent.regressions + 1
  <2>1. n \in Nat /\ n # 0
    BY DEF SpentRecords
  <2>2. spent' = [spent EXCEPT !.regressions = n]
    BY <1>1 DEF Spend, SpentRecords
  <2> HIDE DEF n
  <2> QED BY <1>1, <2>1, <2>2 DEF SpentRecords
<1>2. CASE b = "faults"
  <2> DEFINE n == spent.faults + 1
  <2>1. n \in Nat /\ n # 0
    BY DEF SpentRecords
  <2>2. spent' = [spent EXCEPT !.faults = n]
    BY <1>2 DEF Spend, SpentRecords
  <2> HIDE DEF n
  <2> QED BY <1>2, <2>1, <2>2 DEF SpentRecords
<1>3. CASE b = "crashes"
  <2> DEFINE n == spent.crashes + 1
  <2>1. n \in Nat
    BY DEF SpentRecords
  <2>2. spent' = [spent EXCEPT !.crashes = n]
    BY <1>3 DEF Spend, SpentRecords
  <2> HIDE DEF n
  <2> QED BY <1>3, <2>1, <2>2 DEF SpentRecords
<1>4. CASE b = "edits"
  <2> DEFINE n == spent.edits + 1
  <2>1. n \in Nat
    BY DEF SpentRecords
  <2>2. spent' = [spent EXCEPT !.edits = n]
    BY <1>4 DEF Spend, SpentRecords
  <2> HIDE DEF n
  <2> QED BY <1>4, <2>1, <2>2 DEF SpentRecords
<1> QED BY <1>1, <1>2, <1>3, <1>4

\* A store call spends nothing, or a fault.
LEMMA AnswersSpend ==
  ASSUME spent \in SpentRecords, NEW ok, NEW failed, Answers(ok, failed),
         clock \in Nat, clock' = clock
  PROVE  SpentMove /\ (spent'.faults = 0 => task' = ok) /\ task' \in {ok, failed}
<1>1. CASE UNCHANGED spent /\ task' = ok
  BY <1>1 DEF SpentMove
<1>2. CASE Spend("faults") /\ task' = failed
  BY <1>2, SpendFields DEF SpentMove
<1> QED BY <1>1, <1>2 DEF Answers

\* The lease is kept, or written for a lifetime from now.
LeaseMove ==
  \/ lease' = lease
  \/ lease' # None /\ lease'.renewedAt = clock /\ lease'.expiresAt = clock + TTL

\* Rows and runs are written at the time of the pass or of the clock.
RowTimes ==
  \A o \in Occurrences :
    /\ occurrence'[o] = occurrence[o] \/ occurrence'[o].updatedAt \in {task.now, clock}
    /\ run'[o] = run[o] \/ run'[o].updatedAt \in {task.now, clock}

\* A claim is an old one, or made within the lease.
ClaimsMove ==
  \A o \in Occurrences :
    Linked(o)' =>
      \/ Linked(o) /\ occurrence'[o].expiresAt = occurrence[o].expiresAt
      \/ /\ lease' = lease /\ lease # None /\ occurrence'[o].expiresAt \in Nat
         /\ occurrence'[o].expiresAt <= lease.expiresAt

\* How the task moves when no row and no run does
PhaseMove ==
  \/ /\ task'.pc = task.pc /\ task'.owner = task.owner /\ task'.now = task.now
     /\ task'.current = task.current /\ lease' = lease
  \/ task'.pc \in {"down", "disabled"}
  \/ task.pc = "recovered" /\ task'.pc = "loop"
  \/ Serving /\ Serving' /\ task.pc \notin InDispatch /\ task'.pc \notin InDispatch
  \/ Serving' /\ task'.pc \notin InDispatch /\ spent'.faults # 0
  \/ task.pc \in InDispatch /\ task'.pc \in InDispatch /\ task'.current = task.current
  \/ task'.pc = "starting" /\ lease' = lease /\ (lease # None => lease.owner # task'.owner)
  \/ /\ task.pc = "starting" /\ task'.pc = "recovering" /\ task'.now = clock
     /\ lease # None /\ lease.owner # task.owner => lease.expiresAt <= clock

\* A clock that does not go back stays ahead of what is written at its time.
LEMMA TimesStep ==
  ASSUME SchedulerInv, TypeOK', TimesPast, clock <= clock',
         task'.now \in {0, task.now, clock}, LeaseMove, RowTimes
  PROVE  TimesPast'
<1>1. /\ clock \in Nat /\ clock' \in Nat /\ task.now \in Nat
      /\ lease \in Leases \cup {None}
      /\ occurrence \in [Occurrences -> Rows \cup {None}]
      /\ run \in [Occurrences -> Runs \cup {None}]
  BY TaskParts DEF SchedulerInv, TypeOK, JournalTypeOK
<1>2. task'.now <= clock'
  BY <1>1 DEF TimesPast
<1>3. lease' # None => lease'.renewedAt <= clock' /\ lease'.expiresAt = lease'.renewedAt + TTL
  <2>1. CASE lease' = lease
    <3>1. lease # None => lease.renewedAt \in Nat
      BY <1>1 DEF Leases
    <3> QED BY <1>1, <2>1, <3>1 DEF TimesPast
  <2>2. CASE lease'.renewedAt = clock /\ lease'.expiresAt = clock + TTL
    BY <1>1, <2>2
  <2> QED BY <2>1, <2>2 DEF LeaseMove
<1>4. ASSUME NEW o \in Occurrences, occurrence'[o] # None
      PROVE  occurrence'[o].updatedAt <= clock'
  <2>1. occurrence[o] # None => occurrence[o].updatedAt \in Nat
    BY <1>1 DEF Rows
  <2> QED BY <1>1, <1>4, <2>1 DEF TimesPast, RowTimes
<1>5. ASSUME NEW o \in Occurrences, run'[o] # None
      PROVE  run'[o].updatedAt <= clock'
  <2>1. run[o] # None => run[o].updatedAt \in Nat
    BY <1>1 DEF Runs
  <2> QED BY <1>1, <1>5, <2>1 DEF TimesPast, RowTimes
<1> QED BY <1>2, <1>3, <1>4, <1>5 DEF TimesPast

\* A renewal only extends the lease, so it still covers the claims made under it.
LEMMA ClaimsStep ==
  ASSUME SchedulerInv, TimesPast, ClaimsCovered, LeaseMove, ClaimsMove
  PROVE  ClaimsCovered'
<1>1. clock \in Nat /\ TTL \in Nat
      /\ (lease # None => lease.renewedAt \in Nat /\ lease.expiresAt \in Nat)
  BY JournalAssumption DEF SchedulerInv, TypeOK, JournalTypeOK, Leases
<1>2. lease # None => lease' # None /\ lease.expiresAt <= lease'.expiresAt
                      /\ lease'.expiresAt \in Nat
  BY <1>1 DEF LeaseMove, TimesPast
<1> SUFFICES ASSUME NEW o \in Occurrences, Linked(o)'
             PROVE  /\ lease' # None /\ occurrence'[o].expiresAt \in Nat
                    /\ occurrence'[o].expiresAt <= lease'.expiresAt
  BY DEF ClaimsCovered
<1>3. /\ lease # None /\ occurrence'[o].expiresAt \in Nat
      /\ occurrence'[o].expiresAt <= lease.expiresAt
  BY DEF ClaimsMove, ClaimsCovered
<1> QED BY <1>1, <1>2, <1>3

\* What the phase of the task says of the runs, when the task moves and they do not
LEMMA PhaseStep ==
  ASSUME SchedulerInv, StrandInv, SpentMove, UNCHANGED <<occurrence, run>>, PhaseMove
  PROVE  CurrentRun' /\ (spent'.regressions = 0 => StartsFresh' /\ OnlyCurrent')
<1>1. RunningRuns' = RunningRuns /\ \A o : Linked(o)' <=> Linked(o)
  BY DEF RunningRuns, Linked, InState
<1>2. CurrentRun'
  BY <1>1 DEF StrandInv, CurrentRun, PhaseMove, InDispatch
<1>3. ASSUME spent'.regressions = 0  PROVE StartsFresh'
  <2>1. ClaimsCovered /\ StartsFresh /\ clock \in Nat
        /\ (lease # None => lease.expiresAt \in Nat)
    BY <1>3 DEF StrandInv, SpentMove, SchedulerInv, TypeOK, JournalTypeOK, Leases
  <2>2. task'.pc = "starting" => lease' = None \/ lease'.owner # task'.owner
    BY <2>1 DEF StartsFresh, PhaseMove, InDispatch, Serving
  <2>3. ASSUME task'.pc = "recovering", NEW o \in Occurrences, Linked(o)
        PROVE  occurrence[o].expiresAt <= task'.now
    <3>1. CASE task.pc = "recovering" /\ task'.now = task.now
      BY <2>1, <2>3, <3>1 DEF StartsFresh
    <3>2. CASE /\ task.pc = "starting" /\ task'.now = clock
               /\ lease # None /\ lease.owner # task.owner => lease.expiresAt <= clock
      BY <2>1, <2>3, <3>2 DEF StartsFresh, ClaimsCovered
    <3> QED BY <2>3, <3>1, <3>2 DEF PhaseMove, InDispatch, Serving
  <2>4. task'.pc = "recovered" => RunningRuns = {}
    BY <2>1 DEF StartsFresh, PhaseMove, InDispatch, Serving
  <2> QED BY <1>1, <2>2, <2>3, <2>4 DEF StartsFresh
<1>4. ASSUME spent'.regressions = 0  PROVE OnlyCurrent'
  <2> SUFFICES ASSUME Serving', spent'.faults = 0, NEW o \in RunningRuns
               PROVE  task'.pc \in InDispatch /\ task'.current.id = o
    BY <1>1 DEF OnlyCurrent
  <2>1. StartsFresh /\ OnlyCurrent /\ spent.faults = 0
    BY <1>4 DEF StrandInv, SpentMove
  <2>2. task.pc # "recovered"
    BY <2>1 DEF StartsFresh
  <2>3. CASE Serving
    <3>1. task.pc \in InDispatch /\ task.current.id = o
      BY <2>1, <2>3 DEF OnlyCurrent
    <3> QED BY <2>2, <3>1 DEF PhaseMove, Serving, InDispatch
  <2>4. CASE ~Serving
    BY <2>2, <2>4 DEF PhaseMove, Serving, InDispatch
  <2> QED BY <2>3, <2>4
<1> QED BY <1>2, <1>3, <1>4

\* A step that moves no row and no run
LEMMA QuietStrand ==
  ASSUME SchedulerInv, TypeOK', StrandInv, SpentMove, UNCHANGED <<occurrence, run>>,
         task'.now \in {0, task.now, clock}, LeaseMove, PhaseMove
  PROVE  StrandInv'
<1>1. RowTimes
  BY DEF RowTimes
<1>2. ClaimsMove
  BY DEF ClaimsMove, Linked, InState
<1>3. spent'.regressions = 0 => TimesPast' /\ ClaimsCovered'
  BY <1>1, <1>2, TimesStep, ClaimsStep DEF StrandInv, SpentMove
<1> QED BY <1>3, PhaseStep DEF StrandInv, SpentMove

\* A step of the task alone
LEMMA IdleStrand ==
  ASSUME SchedulerInv, TypeOK', StrandInv, UNCHANGED <<journalVars, spent>>, Outside,
         task'.now \in {0, task.now, clock}, PhaseMove
  PROVE  StrandInv'
<1>1. SpentMove
  BY DEF SpentMove, StrandInv, Outside, SchedulerInv, TypeOK
<1>2. UNCHANGED <<occurrence, run>> /\ LeaseMove
  BY DEF journalVars, LeaseMove
<1> QED BY <1>1, <1>2, QuietStrand

\* Starting, looping and stopping
LEMMA LoopStrand ==
  ASSUME SchedulerInv, TypeOK', StrandInv,
         Boot \/ StartScheduler \/ LoopReady \/ LoopNotReady \/ LoopStops \/ Sleep
  PROVE  StrandInv'
<1>1. task \in Tasks /\ UNCHANGED <<journalVars, spent>> /\ Outside
  BY DEF SchedulerInv, TypeOK, Boot, StartScheduler, LoopReady, LoopNotReady, LoopStops, Sleep
<1>2. Remembers
  BY <1>1, LoopRemembers
<1>3. PhaseMove
  <2>1. CASE Boot
    <3>1. PICK owner \in Owners : /\ lease # None => lease.owner # owner
                                  /\ task' = [Down EXCEPT !.pc = "starting", !.owner = owner]
      BY Zenon, <2>1 DEF Boot
    <3>2. task'.pc = "starting" /\ task'.owner = owner
      BY <3>1 DEF Down
    <3> QED BY <1>1, <3>1, <3>2 DEF PhaseMove, journalVars
  <2>2. CASE StartScheduler
    BY <2>2, EnterFields DEF StartScheduler, Fresh, PhaseMove
  <2>3. CASE LoopStops
    BY <2>3, DownFields DEF LoopStops, PhaseMove
  <2>4. CASE LoopReady \/ LoopNotReady \/ Sleep
    <3>1. task.pc \in {"loop", "sleep"} /\ task'.pc \in {"list", "loop", "sleep"}
      BY <2>4, EnterFields DEF LoopReady, LoopNotReady, Sleep, Fresh
    <3> QED BY <3>1 DEF PhaseMove, Serving, InDispatch
  <2> QED BY <2>1, <2>2, <2>3, <2>4
<1> QED BY <1>1, <1>2, <1>3, IdleStrand DEF Remembers

\* Reading pages and ending passes
LEMMA ListStrand ==
  ASSUME SchedulerInv, TypeOK', StrandInv,
         ListResumable \/ DispatchEnds \/ ListCandidates \/ TickEnds \/ ListOwners
           \/ ListPending \/ ClaimsEnd
  PROVE  StrandInv'
<1>1. task \in Tasks /\ UNCHANGED <<journalVars, spent>> /\ Outside
  BY DEF SchedulerInv, TypeOK, ListResumable, DispatchEnds, ListCandidates, TickEnds,
         ListOwners, ListPending, ClaimsEnd
<1>2. Serving /\ task.pc \notin InDispatch
  BY DEF ListResumable, DispatchEnds, ListCandidates, TickEnds, ListOwners, ListPending,
         ClaimsEnd, Serving, InDispatch
<1>3. task'.now \in {0, task.now, clock} /\ Serving' /\ task'.pc \notin InDispatch
  <2>1. CASE ListResumable
    BY <2>1, DispatchFields DEF ListResumable, Fresh, Serving, InDispatch
  <2>2. CASE DispatchEnds \/ ClaimsEnd
    BY <2>2, AfterFields DEF DispatchEnds, ClaimsEnd, Fresh, Serving, InDispatch
  <2>3. CASE ListCandidates
    <3>1. PICK x : task' = [task EXCEPT !.pc = "evaluate", !.seen = x]
      BY Zenon, <2>3 DEF ListCandidates
    <3>2. task'.pc = "evaluate" /\ task'.now = task.now
      BY <1>1, <3>1, WithinFields DEF Goes
    <3> QED BY <3>2 DEF Serving, InDispatch
  <2>4. CASE TickEnds
    <3>1. PICK pc \in {"retick", "claiming"} : task' = Enter(pc)
      BY <2>4 DEF TickEnds
    <3> QED BY <3>1, EnterFields DEF Fresh, Serving, InDispatch
  <2>5. CASE ListOwners
    <3>1. PICK x : task' = [task EXCEPT !.pc = "pending", !.owners = x]
      BY Zenon, <2>5 DEF ListOwners
    <3>2. task'.pc = "pending" /\ task'.now = task.now
      BY <1>1, <3>1, WithinFields DEF Goes
    <3> QED BY <3>2 DEF Serving, InDispatch
  <2>6. CASE ListPending
    <3>1. PICK x, y : task' = [task EXCEPT !.owners = x, !.wanted = y]
      BY Zenon, <2>6 DEF ListPending
    <3>2. task'.pc = task.pc /\ task'.now = task.now
      BY <1>1, <3>1, WithinFields DEF Goes
    <3> QED BY <1>2, <3>2 DEF Serving, InDispatch
  <2> QED BY <2>1, <2>2, <2>3, <2>4, <2>5, <2>6
<1> QED BY <1>1, <1>2, <1>3, IdleStrand DEF PhaseMove

\* While the guest works, only the task moves.
LEMMA GuestStrand ==
  ASSUME SchedulerInv, TypeOK', StrandInv, CallGuest \/ CancelledBeforeGuest \/ GuestReturns
  PROVE  StrandInv'
<1>1. task \in Tasks /\ UNCHANGED <<journalVars, spent>> /\ clock' = clock
  BY DEF SchedulerInv, TypeOK, CallGuest, CancelledBeforeGuest, GuestReturns, Outside
<1>2. Remembers
  BY <1>1, DispatchRemembers
<1>3. PhaseMove
  <2>1. \/ task' = [task EXCEPT !.pc = "guest"]
        \/ \E x : task' = [task EXCEPT !.pc = "complete", !.completion = x]
    BY Zenon DEF CallGuest, CancelledBeforeGuest, GuestReturns, Finishing
  <2>2. \E pc \in {"guest", "complete"} : Goes(task', pc)
    <3>1. CASE task' = [task EXCEPT !.pc = "guest"]
      <4>1. Goes(task', "guest")
        BY <1>1, <3>1, WithinFields
      <4> QED BY <4>1
    <3>2. ASSUME NEW x, task' = [task EXCEPT !.pc = "complete", !.completion = x]
          PROVE  Goes(task', "complete")
      BY <1>1, <3>2, WithinFields
    <3> QED BY <2>1, <3>1, <3>2
  <2>3. task.pc \in InDispatch
    BY DEF CallGuest, CancelledBeforeGuest, GuestReturns, InDispatch
  <2> QED BY <2>2, <2>3 DEF PhaseMove, Goes, InDispatch
<1>4. SpentMove /\ LeaseMove /\ UNCHANGED <<occurrence, run>>
  BY <1>1 DEF SpentMove, StrandInv, SchedulerInv, TypeOK, LeaseMove, journalVars
<1> QED BY <1>2, <1>3, <1>4, QuietStrand DEF Remembers

\* The generation a pass works under lasts a lifetime from its acquisition.
LEMMA LeaseFields ==
  ASSUME lease \in Leases \cup {None}, NEW owner \in Nat, NEW now \in Nat
  PROVE  /\ LeaseAfter(owner, now) # None
         /\ LeaseAfter(owner, now).renewedAt = now
         /\ LeaseAfter(owner, now).expiresAt = now + TTL
<1>1. LeaseAfter(owner, now) # None
  BY LeaseType, JournalAssumption
<1> DEFINE expiry == now + TTL
           next == lease.fence + 1
<1>2. LeaseAfter(owner, now) =
        CASE lease = None ->
               [owner |-> owner, fence |-> 1, acquiredAt |-> now,
                renewedAt |-> now, expiresAt |-> expiry]
          [] Renews(owner, now) ->
               [lease EXCEPT !.renewedAt = now, !.expiresAt = expiry]
          [] OTHER ->
               [owner |-> owner, fence |-> next, acquiredAt |-> now,
                renewedAt |-> now, expiresAt |-> expiry]
  BY DEF LeaseAfter
<1> HIDE DEF expiry, next
<1>3. LeaseAfter(owner, now).renewedAt = now /\ LeaseAfter(owner, now).expiresAt = expiry
  <2>1. CASE lease = None
    BY <1>2, <2>1 DEF Renews
  <2>2. CASE lease # None /\ Renews(owner, now)
    BY <1>2, <2>2 DEF Leases
  <2>3. CASE lease # None /\ ~Renews(owner, now)
    BY <1>2, <2>3
  <2> QED BY <2>1, <2>2, <2>3
<1> QED BY <1>1, <1>3 DEF expiry

\* Taking the lease: a daemon that starts gets it when the last one has expired.
LEMMA LeaseStrand ==
  ASSUME SchedulerInv, TypeOK', StrandInv, RecoveryLease \/ TickLease \/ ClaimLease
  PROVE  StrandInv'
<1>1. /\ task \in Tasks /\ task.owner \in Nat /\ clock \in Nat
      /\ lease \in Leases \cup {None} /\ spent \in SpentRecords /\ clock' = clock
  BY TaskParts DEF SchedulerInv, TypeOK, JournalTypeOK, StrandInv, RecoveryLease, TickLease,
                   ClaimLease, Outside
<1>2. Remembers
  BY <1>1, LoopRemembers, PassRemembers
<1>3. LeaseMove /\ UNCHANGED <<occurrence, run>>
  <2>1. CASE SetLease(clock)
    BY <1>1, <2>1, LeaseFields DEF SetLease, LeaseMove
  <2>2. CASE UNCHANGED journalVars
    BY <2>2 DEF journalVars, LeaseMove
  <2> QED BY <2>1, <2>2 DEF RecoveryLease, TickLease, ClaimLease
<1>4. SpentMove /\ PhaseMove
  <2>1. UNCHANGED spent => SpentMove
    BY <1>1 DEF SpentMove
  <2>2. CASE RecoveryLease
    <3>1. CASE Acquisition(task.owner, clock) = "Acquired"
      <4>1. Answers(Holding("recovering", clock), Enter("disabled")) /\ task.pc = "starting"
        BY <2>2, <3>1 DEF RecoveryLease
      <4>2. SpentMove /\ task' \in {Holding("recovering", clock), Enter("disabled")}
        BY <1>1, <4>1, AnswersSpend
      <4>3. lease # None /\ lease.owner # task.owner => lease.expiresAt <= clock
        <5>1. lease # None => lease.expiresAt \in Nat
          BY <1>1 DEF Leases
        <5>2. ~(lease # None /\ lease.owner # task.owner /\ clock < lease.expiresAt)
          BY <3>1 DEF Acquisition
        <5> QED BY <1>1, <5>1, <5>2
      <4>4. CASE task' = Holding("recovering", clock)
        <5>1. task'.pc = "recovering" /\ task'.now = clock
          BY <4>4, HoldingFields
        <5> QED BY <4>1, <4>2, <4>3, <5>1 DEF PhaseMove
      <4>5. CASE task' = Enter("disabled")
        BY <4>2, <4>5, EnterFields DEF Fresh, PhaseMove
      <4> QED BY <4>2, <4>4, <4>5
    <3>2. CASE Acquisition(task.owner, clock) # "Acquired"
      BY <2>1, <2>2, <3>2, EnterFields DEF RecoveryLease, Fresh, PhaseMove
    <3> QED BY <3>1, <3>2
  <2>3. CASE TickLease \/ ClaimLease
    <3>1. Serving /\ task.pc \notin InDispatch
      BY <2>3 DEF TickLease, ClaimLease, Serving, InDispatch
    <3>2. SpentMove /\ task'.pc \in {"candidates", "owners", "list"}
      <4>1. CASE TickLease
        <5>1. PICK first : first = (task.pc = "tick")
          OBVIOUS
        <5>2. \/ Answers([Holding("candidates", clock) EXCEPT !.first = first], SecondDispatch)
              \/ task' = SecondDispatch /\ UNCHANGED spent
          BY Zenon, <4>1, <5>1 DEF TickLease
        <5>3. SpentMove /\ task' \in {[Holding("candidates", clock) EXCEPT !.first = first],
                                     SecondDispatch}
          BY <1>1, <2>1, <5>2, AnswersSpend
        <5>4. CASE task' = [Holding("candidates", clock) EXCEPT !.first = first]
          BY Zenon, <5>3, <5>4, TickFields
        <5>5. CASE task' = SecondDispatch
          BY <5>3, <5>5, AfterFields DEF Fresh
        <5> QED BY <5>3, <5>4, <5>5
      <4>2. CASE ClaimLease
        <5>1. \/ Answers(Holding("owners", clock), SecondDispatch)
              \/ task' = SecondDispatch /\ UNCHANGED spent
          BY <4>2 DEF ClaimLease
        <5>2. SpentMove /\ task' \in {Holding("owners", clock), SecondDispatch}
          BY <1>1, <2>1, <5>1, AnswersSpend
        <5> QED BY <5>2, HoldingFields, AfterFields DEF Fresh
      <4> QED BY <2>3, <4>1, <4>2
    <3> QED BY <3>1, <3>2 DEF PhaseMove, Serving, InDispatch
  <2> QED BY <2>2, <2>3
<1> QED BY <1>2, <1>3, <1>4, QuietStrand DEF Remembers

\* Faults, crashes, shutdowns, edits and the clock
LEMMA EnvironmentStrand ==
  ASSUME SchedulerInv, TypeOK', StrandInv, Environment
  PROVE  StrandInv'
<1>1. task \in Tasks /\ clock \in Nat /\ spent \in SpentRecords
  BY DEF SchedulerInv, TypeOK, StrandInv
<1>2. Remembers
  BY <1>1, EnvironmentRemembers
<1>3. UNCHANGED <<lease, occurrence, run>>
  BY DEF Environment, StoreFails, Advance, Regress, Crash, Shutdown, ArchiveProject,
         EditDefinition, journalVars
<1>4. LeaseMove
  BY <1>3 DEF LeaseMove
<1>5. SpentMove
  <2>1. CASE Advance
    BY <1>1, <2>1 DEF Advance, SpentMove
  <2>2. CASE Regress
    BY <1>1, <2>2, SpendFields DEF Regress, SpentMove
  <2>3. CASE StoreFails
    BY <1>1, <2>3, SpendFields DEF StoreFails, Outside, SpentMove
  <2>4. CASE Crash \/ Shutdown
    BY <1>1, <2>4, SpendFields DEF Crash, Shutdown, Outside, SpentMove
  <2>5. CASE ArchiveProject \/ \E a \in Automations : EditDefinition(a)
    BY <1>1, <2>5, SpendFields DEF ArchiveProject, EditDefinition, Outside, SpentMove
  <2> QED BY <2>1, <2>2, <2>3, <2>4, <2>5 DEF Environment
<1>6. PhaseMove
  <2>1. CASE StoreFails
    <3>1. spent'.faults # 0
      BY <1>1, <2>1, SpendFields DEF StoreFails
    <3>2. task'.pc = "disabled" \/ task'.pc \in {"sleep", "tick", "list"}
      <4>1. task' = Enter("disabled") \/ task' = AfterDispatch \/ task' = SecondDispatch
        BY <2>1 DEF StoreFails, ErrorContinuation
      <4> QED BY <4>1, EnterFields, AfterFields DEF Fresh
    <3> QED BY <3>1, <3>2 DEF PhaseMove, Serving, InDispatch
  <2>2. CASE Crash
    BY <2>2, DownFields DEF Crash, PhaseMove
  <2>3. CASE Shutdown
    <3>1. task' = Down \/ \E x : task' = [task EXCEPT !.stopping = x]
      BY Zenon, <2>3 DEF Shutdown
    <3>2. CASE task' = Down
      BY <3>2, DownFields DEF PhaseMove
    <3>3. CASE task' # Down
      <4>1. PICK x : task' = [task EXCEPT !.stopping = x]
        BY <3>1, <3>3
      <4> QED BY <1>1, <1>3, <4>1, WithinFields DEF Goes, PhaseMove
    <3> QED BY <3>2, <3>3
  <2>4. CASE Advance \/ Regress \/ ArchiveProject \/ \E a \in Automations : EditDefinition(a)
    <3>1. task' = task
      BY <2>4 DEF Advance, Regress, ArchiveProject, EditDefinition
    <3> QED BY <1>3, <3>1 DEF PhaseMove
  <2> QED BY <2>1, <2>2, <2>3, <2>4 DEF Environment
<1> QED BY <1>2, <1>3, <1>4, <1>5, <1>6, QuietStrand DEF Remembers

\* A step that moves rows or runs and leaves the lease
LEMMA MovesStrand ==
  ASSUME SchedulerInv, TypeOK', StrandInv, SpentMove, lease' = lease,
         task'.now \in {0, task.now, clock}, RowTimes, ClaimsMove,
         CurrentRun', spent'.regressions = 0 => StartsFresh' /\ OnlyCurrent'
  PROVE  StrandInv'
<1>1. LeaseMove
  BY DEF LeaseMove
<1>2. spent'.regressions = 0 => TimesPast' /\ ClaimsCovered'
  BY <1>1, TimesStep, ClaimsStep DEF StrandInv, SpentMove
<1> QED BY <1>2 DEF StrandInv, SpentMove

\* Moving a run sets its state and its time.
LEMMA MovedFields ==
  ASSUME NEW row \in Runs, NEW next, NEW now
  PROVE  /\ RunMoved(row, next, now).state = next
         /\ RunMoved(row, next, now).updatedAt = now
  BY DEF RunMoved, Runs

\* begin_occurrence_run marks the one run that is about to be sent.
LEMMA BeginStrand ==
  ASSUME SchedulerInv, TypeOK', StrandInv, BeginNext
  PROVE  StrandInv'
<1>1. /\ task \in Tasks /\ task.bound \in SUBSET Snapshots /\ clock \in Nat
      /\ spent \in SpentRecords /\ JournalTypeOK /\ JournalInv
  BY TaskParts DEF SchedulerInv, TypeOK, StrandInv
<1>2. Remembers /\ Outside /\ clock' = clock /\ Serving /\ task.pc \notin InDispatch
  BY <1>1, DispatchRemembers DEF BeginNext, Outside, Serving, InDispatch
<1>3. PICK b \in task.bound : Begin(b)
  BY DEF BeginNext
<1>4. b.id \in Occurrences
  BY <1>1 DEF Snapshots
<1>5. CASE ~BeginAccepted(b.id, b.revision, b.runRevision, clock)
  <2>1. task' = Dispatching(task.bound \ {b}) /\ UNCHANGED <<journalVars, spent>>
    BY <1>3, <1>5 DEF Begin
  <2>2. PhaseMove
    BY <1>2, <2>1, DispatchFields DEF Fresh, PhaseMove, Serving, InDispatch
  <2> QED BY <1>2, <2>1, <2>2, IdleStrand DEF Remembers
<1>6. CASE BeginAccepted(b.id, b.revision, b.runRevision, clock)
  <2>1. BeginRun(b.id, clock) /\ Answers(Begun(b), AfterDispatch)
    BY <1>3, <1>6 DEF Begin
  <2>2. /\ SpentMove /\ (spent'.faults = 0 => task' = Begun(b))
        /\ task' \in {Begun(b), AfterDispatch}
    BY <1>1, <1>2, <2>1, AnswersSpend
  <2>3. UNCHANGED <<occurrence, lease>>
    BY <2>1 DEF BeginRun
  <2>4. Linked(b.id) /\ occurrence[b.id].revision = b.revision
    BY <1>6 DEF BeginAccepted, Linked
  <2>5. /\ run'[b.id].updatedAt = clock /\ run'[b.id] # None /\ run'[b.id].state = "Running"
        /\ \A o \in Occurrences : o # b.id => run'[o] = run[o]
    <3> DEFINE planning == RunMoved(run[b.id], "Planning", clock)
               new == RunMoved(planning, "Running", clock)
    <3>1. run[b.id] \in Runs
      BY <1>1, <1>4, <2>4 DEF JournalTypeOK, JournalInv, RunsBound, Linked, InState, BoundStates
    <3>2. planning \in Runs
      BY <1>1, <3>1, RunMovedType DEF RunStates
    <3>3. new \in Runs
      <4> HIDE DEF planning
      <4> QED BY <1>1, <3>2, RunMovedType DEF RunStates
    <3>4. new.state = "Running" /\ new.updatedAt = clock
      <4> HIDE DEF planning
      <4> QED BY <3>2, MovedFields
    <3>5. run' = [run EXCEPT ![b.id] = new]
      BY <2>1 DEF BeginRun
    <3> HIDE DEF new, planning
    <3> QED BY <1>1, <1>4, <3>3, <3>4, <3>5, JournalAssumption DEF JournalTypeOK
  <2>6. RowTimes /\ ClaimsMove
    BY <2>3, <2>5 DEF RowTimes, ClaimsMove, Linked, InState
  <2>7. RunningRuns' = RunningRuns \cup {b.id}
    BY <1>4, <2>5 DEF RunningRuns
  <2>8. task' = Begun(b) => task'.pc = "dispatch" /\ task'.current = b
    BY DispatchFields DEF Fresh
  <2>9. task' = AfterDispatch => task'.pc \in {"sleep", "tick"}
    BY AfterFields DEF Fresh
  <2>10. CurrentRun'
    BY <2>2, <2>3, <2>4, <2>7, <2>8, <2>9 DEF CurrentRun, InDispatch, Linked, InState
  <2>11. StartsFresh'
    BY <2>2, <2>8, <2>9 DEF StartsFresh
  <2>12. ASSUME spent'.regressions = 0  PROVE OnlyCurrent'
    <3>1. spent'.faults = 0 => RunningRuns = {}
      BY <1>2, <2>2, <2>12 DEF StrandInv, SpentMove, OnlyCurrent
    <3> QED BY <2>2, <2>7, <2>8, <3>1 DEF OnlyCurrent, InDispatch
  <2> QED BY <1>2, <2>2, <2>3, <2>6, <2>10, <2>11, <2>12, MovesStrand DEF Remembers
<1> QED BY <1>5, <1>6

\* Settled rows are written at the given time and no longer claimed.
LEMMA SettlesMove ==
  ASSUME NEW S, NEW now, Settles(S, now)
  PROVE  /\ ClaimsMove
         /\ \A o \in Occurrences : occurrence'[o] = occurrence[o] \/ occurrence'[o].updatedAt = now
<1> SUFFICES ASSUME NEW o \in Occurrences
             PROVE  /\ Linked(o)' => Linked(o) /\ occurrence'[o] = occurrence[o]
                    /\ occurrence'[o] = occurrence[o] \/ occurrence'[o].updatedAt = now
  BY DEF ClaimsMove
<1>1. CASE o \in S
  BY <1>1 DEF Settles, Linked, InState
<1>2. CASE o \notin S
  BY <1>2 DEF Settles, Linked, InState
<1> QED BY <1>1, <1>2

\* Under a clock that never went back, the run just executed can be completed.
LEMMA CompletionAccepted ==
  ASSUME SchedulerInv, CurrentRun, TimesPast, task.pc = "complete"
  PROVE  CompleteAccepted(task.current.id, task.current.revision, task.completion, clock)
<1> DEFINE o == task.current.id
<1>1. /\ o \in RunningRuns /\ o \in Occurrences /\ run[o] # None /\ run[o].state = "Running"
      /\ InState(o, {"RunLinked"}) /\ occurrence[o].revision = task.current.revision
  BY DEF CurrentRun, InDispatch, RunningRuns, Linked
<1>2. task.completion \in Completions
  BY DEF SchedulerInv, TaskReady
<1>3. RunCanMove(o, RunOutcome(task.completion), clock)
  <2>1. run[o].updatedAt <= clock
    BY <1>1 DEF TimesPast
  <2>2. RunPermits("Running", RunOutcome(task.completion))
    BY <1>2 DEF RunPermits, RunOutcome
  <2> QED BY <1>1, <2>1, <2>2 DEF RunCanMove
<1>4. occurrence[o].updatedAt <= clock
  BY <1>1 DEF TimesPast, InState
<1>5. PromotionAccepted({Automation(o)}, clock)
  BY DEF PromotionAccepted, TimesPast, InState
<1> QED BY <1>1, <1>3, <1>4, <1>5 DEF CompleteAccepted

\* complete_occurrence_run settles the run that was dispatched.
LEMMA CompleteStrand ==
  ASSUME SchedulerInv, TypeOK', StrandInv, Complete
  PROVE  StrandInv'
<1>1. /\ task \in Tasks /\ clock \in Nat /\ spent \in SpentRecords
      /\ JournalTypeOK /\ JournalInv /\ task.completion \in Completions
  BY DEF SchedulerInv, TypeOK, StrandInv, Complete, TaskReady
<1>2. Remembers /\ clock' = clock /\ Serving /\ task.pc = "complete"
  BY <1>1, DispatchRemembers DEF Complete, Outside, Serving
<1>3. PICK o \in Occurrences : o = task.current.id
  BY <1>2 DEF StrandInv, CurrentRun, InDispatch, RunningRuns
<1>4. task' \in {Dispatching(task.bound), AfterDispatch}
  BY DEF Complete, Answers
<1>5. task'.pc \in {"begin", "sleep", "tick"}
  BY <1>4, DispatchFields, AfterFields DEF Fresh
<1>6. CurrentRun' /\ StartsFresh'
  BY <1>5 DEF CurrentRun, StartsFresh, InDispatch
<1>7. CASE CompleteAccepted(o, task.current.revision, task.completion, clock)
  <2>1. CompleteRun(o, task.completion, clock) /\ Answers(Dispatching(task.bound), AfterDispatch)
        /\ InState(o, {"RunLinked"})
    BY <1>3, <1>7 DEF Complete, CompleteAccepted
  <2>2. SpentMove
    BY <1>1, <1>2, <2>1, AnswersSpend
  <2>3. Settles({o}, clock)
    <3> HIDE DEF Completions
    <3> QED BY <1>1, <2>1, CompleteSettles
  <2>4. /\ run'[o].updatedAt = clock /\ run'[o].state # "Running"
        /\ \A p \in Occurrences : p # o => run'[p] = run[p]
    <3> DEFINE outcome == RunOutcome(task.completion)
               new == RunMoved(run[o], outcome, clock)
    <3>1. run[o] \in Runs
      BY <1>1, <2>1 DEF JournalTypeOK, JournalInv, RunsBound, InState, BoundStates
    <3>2. outcome # "Running"
      BY <1>1 DEF RunOutcome
    <3>3. run' = [run EXCEPT ![o] = new]
      BY <2>1 DEF CompleteRun
    <3> HIDE DEF outcome
    <3>4. new.updatedAt = clock /\ new.state # "Running"
      BY <3>1, <3>2, MovedFields
    <3> HIDE DEF new
    <3> QED BY <1>1, <3>3, <3>4 DEF JournalTypeOK
  <2>5. RowTimes /\ ClaimsMove /\ lease' = lease
    <3>1. PICK S : S = {o} /\ Settles(S, clock)
      BY <2>3
    <3>2. /\ ClaimsMove
          /\ \A p \in Occurrences :
               occurrence'[p] = occurrence[p] \/ occurrence'[p].updatedAt = clock
      BY <3>1, SettlesMove
    <3>3. RowTimes
      BY <2>4, <3>2 DEF RowTimes
    <3> QED BY <2>1, <3>2, <3>3 DEF CompleteRun
  <2>6. ASSUME spent'.regressions = 0  PROVE OnlyCurrent'
    <3>1. spent'.faults = 0 => \A p \in RunningRuns : p = o
      BY <1>2, <1>3, <2>2, <2>6 DEF StrandInv, SpentMove, OnlyCurrent
    <3>2. spent'.faults = 0 => RunningRuns' = {}
      BY <2>4, <3>1 DEF RunningRuns
    <3> QED BY <3>2 DEF OnlyCurrent
  <2> QED BY <1>2, <1>6, <2>2, <2>5, <2>6, MovesStrand DEF Remembers
<1>8. CASE ~CompleteAccepted(o, task.current.revision, task.completion, clock)
  <2>1. UNCHANGED spent
    BY <1>3, <1>8 DEF Complete
  <2>2. spent.regressions # 0
    BY <1>2, <1>3, <1>8, CompletionAccepted DEF StrandInv
  <2> QED BY <1>1, <1>6, <2>1, <2>2 DEF StrandInv
<1> QED BY <1>7, <1>8

\* claim_and_bind_occurrence claims within the lease and binds a queued run.
LEMMA ClaimStrand ==
  ASSUME SchedulerInv, TypeOK', StrandInv, Claim
  PROVE  StrandInv'
<1>1. /\ task \in Tasks /\ task.wanted \in SUBSET Snapshots /\ task.now \in Nat /\ clock \in Nat
      /\ spent \in SpentRecords /\ JournalTypeOK /\ JournalInv
  BY TaskParts DEF SchedulerInv, TypeOK, StrandInv
<1>2. Remembers /\ Outside /\ clock' = clock /\ Serving /\ task.pc \notin InDispatch
      /\ task.pc = "pending"
  BY <1>1, PassRemembers DEF Claim, Outside, Serving, InDispatch
<1>3. PICK w \in task.wanted :
        LET rest == [task EXCEPT !.wanted = @ \ {w}] IN
        IF ClaimAccepted(w.id, w.revision, task.owner, task.fence, task.now)
          THEN ClaimAndBind(w.id, task.now) /\ Answers(rest, SecondDispatch)
          ELSE task' = rest /\ UNCHANGED <<journalVars, spent>>
  BY DEF Claim
<1>4. PICK x : x = task.wanted \ {w}
  OBVIOUS
<1>5. IF ClaimAccepted(w.id, w.revision, task.owner, task.fence, task.now)
        THEN /\ ClaimAndBind(w.id, task.now)
             /\ Answers([task EXCEPT !.wanted = x], SecondDispatch)
        ELSE task' = [task EXCEPT !.wanted = x] /\ UNCHANGED <<journalVars, spent>>
  BY Zenon, <1>3, <1>4
<1>6. /\ [task EXCEPT !.wanted = x].pc = "pending" /\ SecondDispatch.pc = "list"
  BY <1>1, <1>2, WithinFields, AfterFields DEF Goes, Fresh
<1>7. w.id \in Occurrences
  BY <1>1 DEF Snapshots
<1>8. CASE ~ClaimAccepted(w.id, w.revision, task.owner, task.fence, task.now)
  <2>1. task'.pc = "pending" /\ UNCHANGED <<journalVars, spent>>
    BY <1>5, <1>6, <1>8
  <2>2. PhaseMove
    BY <1>2, <2>1 DEF PhaseMove, Serving, InDispatch
  <2> QED BY <1>2, <2>1, <2>2, IdleStrand DEF Remembers
<1>9. CASE ClaimAccepted(w.id, w.revision, task.owner, task.fence, task.now)
  <2> DEFINE o == w.id
  <2>1. ClaimAndBind(o, task.now) /\ Answers([task EXCEPT !.wanted = x], SecondDispatch)
    BY <1>5, <1>9
  <2>2. SpentMove /\ task'.pc \in {"pending", "list"}
    BY <1>1, <1>2, <1>6, <2>1, AnswersSpend
  <2>3. /\ InState(o, {"Pending"}) /\ lease # None /\ task.now + TTL <= lease.expiresAt
        /\ task.now + TTL \in Nat
    BY <1>1, <1>9, JournalAssumption DEF ClaimAccepted, LiveLease
  <2>4. lease' = lease
    BY <2>1 DEF ClaimAndBind
  <2>5. /\ occurrence'[o].expiresAt = task.now + TTL /\ occurrence'[o].updatedAt = task.now
        /\ \A p \in Occurrences : p # o => occurrence'[p] = occurrence[p]
    <3>1. occurrence[o] \in Rows
      BY <1>1, <1>7, <2>3 DEF JournalTypeOK, InState
    <3>2. /\ occurrence'[o] = Bound(occurrence[o], task.now)
          /\ \A p \in Occurrences : p # o => occurrence'[p] = occurrence[p]
      BY <1>1, <1>7, <2>1 DEF ClaimAndBind, JournalTypeOK
    <3> QED BY <1>1, <3>1, <3>2, BoundFields
  <2>6. /\ run'[o].updatedAt = task.now /\ run'[o].state = "Queued"
        /\ \A p \in Occurrences : p # o => run'[p] = run[p]
    BY <1>1, <1>7, <2>1 DEF ClaimAndBind, JournalTypeOK
  <2> HIDE DEF o
  <2>7. RowTimes
    BY <2>5, <2>6 DEF RowTimes
  <2>8. ClaimsMove
    BY <2>3, <2>4, <2>5 DEF ClaimsMove, Linked, InState
  <2>9. CurrentRun' /\ StartsFresh'
    BY <2>2 DEF CurrentRun, StartsFresh, InDispatch
  <2>10. ASSUME spent'.regressions = 0  PROVE OnlyCurrent'
    <3>1. spent'.faults = 0 => RunningRuns = {}
      BY <1>2, <2>2, <2>10 DEF StrandInv, SpentMove, OnlyCurrent
    <3>2. spent'.faults = 0 => RunningRuns' = {}
      BY <2>6, <3>1 DEF RunningRuns
    <3> QED BY <3>2 DEF OnlyCurrent
  <2> QED BY <1>2, <2>2, <2>4, <2>7, <2>8, <2>9, <2>10, MovesStrand DEF Remembers
<1> QED BY <1>8, <1>9

\* recover_claims settles every run an earlier daemon left behind.
LEMMA RecoverStrand ==
  ASSUME SchedulerInv, TypeOK', StrandInv, Recover
  PROVE  StrandInv'
<1>1. /\ task \in Tasks /\ task.now \in Nat /\ clock \in Nat /\ spent \in SpentRecords
      /\ JournalTypeOK /\ JournalInv
  BY TaskParts DEF SchedulerInv, TypeOK, StrandInv
<1>2. Remembers /\ Outside /\ clock' = clock /\ task.pc = "recovering"
  BY <1>1, LoopRemembers DEF Recover, Outside
<1>3. PICK batch \in Batches(task.now, RecoveryBatch) :
        IF RecoverAccepted(batch, task.now)
          THEN /\ RecoverClaims(batch, task.now)
               /\ Answers(Enter(IF batch = Expired(task.now) THEN "recovered" ELSE "disabled"),
                          Enter("disabled"))
          ELSE task' = Enter("disabled") /\ UNCHANGED <<journalVars, spent>>
  BY DEF Recover
<1>4. batch \in SUBSET Occurrences /\ \A o \in batch : InState(o, {"RunLinked"})
  BY DEF Batches, Expired
<1>5. CASE ~RecoverAccepted(batch, task.now)
  <2>1. PhaseMove
    BY <1>3, <1>5, EnterFields DEF Fresh, PhaseMove
  <2> QED BY <1>2, <1>3, <1>5, <2>1, IdleStrand DEF Remembers
<1>6. CASE RecoverAccepted(batch, task.now)
  <2>1. RecoverClaims(batch, task.now)
    BY <1>3, <1>6
  <2>2. PICK pc : pc = IF batch = Expired(task.now) THEN "recovered" ELSE "disabled"
    OBVIOUS
  <2>3. Answers(Enter(pc), Enter("disabled"))
    BY <1>3, <1>6, <2>2
  <2>4. SpentMove /\ task' \in {Enter(pc), Enter("disabled")}
    BY <1>1, <1>2, <2>3, AnswersSpend
  <2>5. (task'.pc = "recovered" /\ batch = Expired(task.now)) \/ task'.pc = "disabled"
    BY <2>2, <2>4, EnterFields DEF Fresh
  <2>6. /\ Settles(Stranded(batch), task.now)
        /\ \A o \in Stranded(batch) : o \in Occurrences /\ run[o] \in Runs
                                      /\ run[o].state = "Running"
    BY <1>1, <1>4, <2>1, RecoverSettles
  <2>7. ASSUME NEW o \in Occurrences
        PROVE  IF o \in Stranded(batch)
                 THEN run'[o].updatedAt = task.now /\ run'[o].state = "InterruptedNeedsReview"
                 ELSE run'[o] = run[o]
    <3>1. run'[o] = IF o \in Stranded(batch) THEN ReviewedRun(run[o], task.now) ELSE run[o]
      BY <2>1 DEF RecoverClaims
    <3>2. ASSUME o \in Stranded(batch)
          PROVE  ReviewedRun(run[o], task.now)
                   = RunMoved(run[o], "InterruptedNeedsReview", task.now)
      BY <2>6, <3>2 DEF ReviewedRun, RunIsTerminal
    <3> QED BY <2>6, <3>1, <3>2, MovedFields
  <2>8. RowTimes /\ ClaimsMove /\ lease' = lease
    BY <2>1, <2>6, <2>7, SettlesMove DEF RowTimes, RecoverClaims
  <2>9. CurrentRun' /\ OnlyCurrent'
    BY <2>5 DEF CurrentRun, OnlyCurrent, Serving, InDispatch
  <2>10. ASSUME spent'.regressions = 0, batch = Expired(task.now)  PROVE RunningRuns' = {}
    <3> SUFFICES ASSUME NEW o \in Occurrences, run'[o] # None, run'[o].state = "Running"
                 PROVE  FALSE
      BY DEF RunningRuns
    <3>1. o \notin Stranded(batch) /\ run[o] # None /\ run[o].state = "Running"
      BY <2>7
    <3>2. InState(o, {"RunLinked"})
      <4>1. occurrence[o] # None /\ occurrence[o].state \in BoundStates
        BY <1>1, <3>1 DEF JournalInv, RunsBound, InState
      <4> QED BY <1>1, <3>1, <4>1 DEF JournalInv, RunAgrees, RunOutcome, BoundStates, InState
    <3>3. occurrence[o].expiresAt <= task.now
      BY <1>2, <2>4, <2>10, <3>2 DEF StrandInv, SpentMove, StartsFresh, Linked
    <3> QED BY <2>10, <3>1, <3>2, <3>3 DEF Expired, Stranded, Resumable
  <2>11. spent'.regressions = 0 => StartsFresh'
    BY <2>5, <2>10 DEF StartsFresh
  <2> QED BY <1>2, <2>4, <2>8, <2>9, <2>11, MovesStrand DEF Remembers
<1> QED BY <1>5, <1>6

\* commit_evaluation writes rows that nobody has claimed, and no run.
LEMMA EvaluateStrand ==
  ASSUME SchedulerInv, TypeOK', StrandInv, Evaluate
  PROVE  StrandInv'
<1>1. /\ task \in Tasks /\ task.now \in Nat /\ task.since \in Nat /\ clock \in Nat
      /\ task.seen \in SUBSET Seen /\ spent \in SpentRecords /\ JournalTypeOK
  BY TaskParts DEF SchedulerInv, TypeOK, StrandInv
<1>2. Remembers /\ clock' = clock /\ Serving /\ task.pc \notin InDispatch /\ task.pc = "evaluate"
  BY <1>1, PassRemembers DEF Evaluate, Outside, Serving, InDispatch
<1>3. PICK seen \in task.seen : EvaluateOne(seen)
  BY DEF Evaluate
<1>4. seen \in Seen /\ seen.id \in Automations
  BY <1>1 DEF Seen
<1> DEFINE a == seen.id
           through == Min({seen.cursor.through + Window, task.now})
           proposals == Proposed(a, seen.cursor.through, through, task.since)
<1>5. SpentMove /\ task'.pc \in {"evaluate", "list"}
  <2>1. SecondDispatch.pc = "list"
    BY AfterFields DEF Fresh
  <2>2. \A i, m \in BOOLEAN : Evaluated(seen, i, m).pc = "evaluate"
    BY <1>1, <1>2, EvaluatedType
  <2>3. UNCHANGED spent => SpentMove
    BY <1>1, <1>2 DEF SpentMove
  <2>4. PICK m \in BOOLEAN : m = (proposals # {})
    BY Zenon
  <2>5. \/ UNCHANGED spent /\ \E i, n \in BOOLEAN : task' = Evaluated(seen, i, n)
        \/ UNCHANGED spent /\ task' = SecondDispatch
        \/ \E i, n \in BOOLEAN : Answers(Evaluated(seen, i, n), SecondDispatch)
    <3>1. CASE seen.cursor = None
      BY <1>3, <3>1 DEF EvaluateOne, EvaluateNew
    <3>2. CASE seen.cursor # None /\ seen.cursor.through = task.now
      BY <1>3, <3>2 DEF EvaluateOne
    <3>3. CASE seen.cursor # None /\ seen.cursor.through # task.now
      <4>1. EvaluateWindow(seen)
        BY <1>3, <3>3 DEF EvaluateOne
      <4>2. \/ Answers(Evaluated(seen, FALSE, m), SecondDispatch)
            \/ UNCHANGED spent /\ task' = SecondDispatch
        BY Zenon, <2>4, <4>1 DEF EvaluateWindow
      <4> QED BY <4>2
    <3> QED BY <3>1, <3>2, <3>3
  <2>6. ASSUME NEW i \in BOOLEAN, NEW n \in BOOLEAN,
               Answers(Evaluated(seen, i, n), SecondDispatch)
        PROVE  SpentMove /\ task'.pc \in {"evaluate", "list"}
    <3>1. PICK ok : ok = Evaluated(seen, i, n)
      OBVIOUS
    <3>2. ok.pc = "evaluate" /\ Answers(ok, SecondDispatch)
      BY Zenon, <2>2, <2>6, <3>1
    <3> QED BY <1>1, <1>2, <2>1, <3>2, AnswersSpend
  <2> QED BY <2>1, <2>2, <2>3, <2>5, <2>6
<1>6. \/ UNCHANGED <<lease, occurrence, run>>
      \/ seen.cursor # None /\ AdvanceCursor(a, through, proposals, task.now)
  <2>1. CASE seen.cursor = None
    BY <1>3, <2>1 DEF EvaluateOne, EvaluateNew, InitializeCursor, journalVars
  <2>2. CASE seen.cursor # None /\ seen.cursor.through = task.now
    BY <1>3, <2>2 DEF EvaluateOne, journalVars
  <2>3. CASE seen.cursor # None /\ seen.cursor.through # task.now
    BY <1>3, <2>3 DEF EvaluateOne, EvaluateWindow, journalVars
  <2> QED BY <2>1, <2>2, <2>3
<1>7. PhaseMove
  BY <1>2, <1>5 DEF PhaseMove, Serving, InDispatch
<1>8. CASE UNCHANGED <<lease, occurrence, run>>
  <2>1. LeaseMove
    BY <1>8 DEF LeaseMove
  <2> QED BY <1>2, <1>5, <1>7, <1>8, <2>1, QuietStrand DEF Remembers
<1>9. CASE seen.cursor # None /\ AdvanceCursor(a, through, proposals, task.now)
  <2>1. seen.cursor.through \in Nat /\ through \in Nat
    <3>1. seen.cursor \in Cursors
      BY <1>4, <1>9 DEF Seen
    <3>2. seen.cursor.through \in Nat
      BY <3>1 DEF Cursors
    <3>3. PICK x \in Nat : x = seen.cursor.through + Window
      BY <3>2, JournalAssumption
    <3> QED BY <1>1, <3>2, <3>3, MinOfTwo
  <2>2. /\ proposals \in SUBSET Proposals
        /\ \A p, q \in proposals : p.slot = q.slot => p = q
    <3> HIDE DEF through
    <3> QED BY <1>1, <1>4, <2>1, ProposedShape
  <2>3. occurrence' = Inserted(a, proposals, task.now) /\ UNCHANGED <<lease, run>>
    BY <1>9 DEF AdvanceCursor
  <2> HIDE DEF a, through, proposals
  <2>4. ASSUME NEW o \in Occurrences
        PROVE  \/ occurrence'[o] = occurrence[o]
               \/ occurrence'[o].updatedAt = task.now /\ occurrence'[o].state \notin BoundStates
    <3>1. CASE Automation(o) = a /\ \E p \in proposals : p.slot = Slot(o)
      <4>1. PICK p \in proposals : p.slot = Slot(o)
        BY <3>1
      <4>2. a \in Automations
        BY <1>4 DEF a
      <4> QED BY <1>1, <2>2, <2>3, <3>1, <4>1, <4>2, InsertedRow
    <3>2. CASE ~(Automation(o) = a /\ \E p \in proposals : p.slot = Slot(o))
      BY <2>3, <3>2 DEF Inserted
    <3> QED BY <3>1, <3>2
  <2>5. RowTimes
    BY <2>3, <2>4 DEF RowTimes
  <2>6. ClaimsMove
    BY <2>4 DEF ClaimsMove, Linked, InState, BoundStates
  <2>7. CurrentRun' /\ StartsFresh'
    BY <1>5 DEF CurrentRun, StartsFresh, InDispatch
  <2>8. ASSUME spent'.regressions = 0  PROVE OnlyCurrent'
    <3>1. spent'.faults = 0 => RunningRuns = {}
      BY <1>2, <1>5, <2>8 DEF StrandInv, SpentMove, OnlyCurrent
    <3>2. RunningRuns' = RunningRuns
      BY <2>3 DEF RunningRuns
    <3> QED BY <3>1, <3>2 DEF OnlyCurrent
  <2> QED BY <1>2, <1>5, <2>3, <2>5, <2>6, <2>7, <2>8, MovesStrand DEF Remembers
<1> QED BY <1>6, <1>8, <1>9

\* A new database has no run.
LEMMA StrandInit == Init => StrandInv
<1> SUFFICES ASSUME Init  PROVE StrandInv
  OBVIOUS
<1>1. task.pc = "down" /\ task.now = 0 /\ lease = None /\ clock = 0
      /\ \A o \in Occurrences : occurrence[o] = None /\ run[o] = None
  BY DownFields DEF Init, JournalInit
<1>2. spent \in SpentRecords
  BY DEF Init, SpentRecords
<1>3. RunningRuns = {} /\ \A o \in Occurrences : ~Linked(o)
  BY <1>1 DEF RunningRuns, Linked, InState
<1> QED BY <1>1, <1>2, <1>3 DEF StrandInv, CurrentRun, TimesPast, ClaimsCovered, StartsFresh,
                                OnlyCurrent, Serving, InDispatch

\* Every step keeps the runs accounted for.
LEMMA StrandStep == SchedulerInv /\ StrandInv /\ [Next]_vars => StrandInv'
<1> SUFFICES ASSUME SchedulerInv, StrandInv, [Next]_vars  PROVE StrandInv'
  OBVIOUS
<1>1. TypeOK'
  BY NextKeepsInv DEF SchedulerInv
<1>2. CASE UNCHANGED vars
  <2>1. UNCHANGED <<journalVars, spent>> /\ Outside /\ task' = task /\ lease' = lease
    BY <1>2 DEF vars, journalVars, Outside
  <2>2. PhaseMove
    BY <2>1 DEF PhaseMove
  <2> QED BY <1>1, <2>1, <2>2, IdleStrand
<1>3. CASE Boot \/ StartScheduler \/ LoopReady \/ LoopNotReady \/ LoopStops \/ Sleep
  BY <1>1, <1>3, LoopStrand
<1>4. CASE RecoveryLease \/ TickLease \/ ClaimLease
  BY <1>1, <1>4, LeaseStrand
<1>5. CASE ListResumable \/ DispatchEnds \/ ListCandidates \/ TickEnds \/ ListOwners
             \/ ListPending \/ ClaimsEnd
  BY <1>1, <1>5, ListStrand
<1>6. CASE CallGuest \/ CancelledBeforeGuest \/ GuestReturns
  BY <1>1, <1>6, GuestStrand
<1>7. CASE BeginNext
  BY <1>1, <1>7, BeginStrand
<1>8. CASE Complete
  BY <1>1, <1>8, CompleteStrand
<1>9. CASE Claim
  BY <1>1, <1>9, ClaimStrand
<1>10. CASE Evaluate
  BY <1>1, <1>10, EvaluateStrand
<1>11. CASE Recover
  BY <1>1, <1>11, RecoverStrand
<1>12. CASE Environment
  BY <1>1, <1>12, EnvironmentStrand
<1> QED BY <1>2, <1>3, <1>4, <1>5, <1>6, <1>7, <1>8, <1>9, <1>10, <1>11, <1>12
    DEF Next, TaskStep

\* What lets a new daemon settle every run is an invariant of the scheduler.
THEOREM StrandsHold == Spec => []StrandInv
BY SchedulerInvariant, StrandInit, StrandStep, PTL DEF Spec

\* Occurrences and runs tell the same outcome (complete_occurrence_run,
\* recover_claims), and a scheduler that serves after its recovery pass has no run
\* marked Running except the one it dispatches, unless the clock went back or the
\* store failed.
THEOREM RunsAlwaysAccounted == Spec => []RunsAccounted
<1>1. SchedulerInv => TypeOK /\ RunAgrees
  BY DEF SchedulerInv, JournalInv
<1>2. StrandInv => NoneStranded
  BY DEF StrandInv, OnlyCurrent, NoneStranded, RunningRuns, InDispatch
<1>3. TypeOK /\ RunAgrees /\ NoneStranded => RunsAccounted
  BY DEF RunsAccounted
<1> QED BY <1>1, <1>2, <1>3, SchedulerInvariant, StrandsHold, PTL

=============================================================================
