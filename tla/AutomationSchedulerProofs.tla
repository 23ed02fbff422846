--------------------- MODULE AutomationSchedulerProofs ---------------------
(***************************************************************************)
(* Proofs about the scheduler for every set of definitions, every calendar *)
(* and policy, and every bound.  SchedulerInv adds the task to what the    *)
(* journal keeps: the run it is about to send has durably left Queued and  *)
(* was never sent.                                                         *)
(*                                                                         *)
(* What every transaction of the journal keeps, whoever calls it: rows lie *)
(* behind the cursor, so an evaluated window is always fresh; a row has a  *)
(* run exactly when it was claimed; the two agree; and an automation has   *)
(* one active and one queued row.                                          *)
(***************************************************************************)
EXTENDS AutomationScheduler, FiniteSetTheorems, TLAPS

USE DEF OccurrenceStates, ActiveStates, RunStates, Completions, Owners

-----------------------------------------------------------------------------
(* Types of what the journal writes *)

\* An occurrence belongs to an automation and has a slot of its calendar.
LEMMA OccurrenceParts ==
  ASSUME NEW o \in Occurrences
  PROVE  /\ Automation(o) \in Automations /\ Slot(o) \in Nat
         /\ Slot(o) \in Slots(Automation(o))
         /\ o = <<Automation(o), Slot(o)>>
  BY JournalAssumption DEF Occurrences, Automation, Slot, Slots

\* The smaller of two numbers is one of them.
LEMMA MinOfTwo ==
  ASSUME NEW x \in Nat, NEW y \in Nat
  PROVE  Min({x, y}) \in {x, y} /\ Min({x, y}) <= x /\ Min({x, y}) <= y
<1>1. \E m \in {x, y} : \A z \in {x, y} : m <= z
  <2>1. CASE x <= y BY <2>1
  <2>2. CASE y <= x BY <2>2
  <2> QED BY <2>1, <2>2
<1> QED BY <1>1 DEF Min

\* What an evaluation inserts is a row.
LEMMA NewRowType ==
  ASSUME NEW state \in OccurrenceStates, NEW count \in Nat \ {0}, NEW now \in Nat
  PROVE  NewRow(state, count, now) \in Rows
  BY DEF NewRow, Rows

\* Binding a run keeps a row a row.
LEMMA BoundType ==
  ASSUME NEW row \in Rows, NEW now \in Nat
  PROVE  Bound(row, now) \in Rows
<1> DEFINE rev == row.revision + 2
           expiry == now + TTL
<1>1. rev \in Nat /\ expiry \in Nat
  BY JournalAssumption DEF Rows
<1>2. Bound(row, now) = [row EXCEPT !.state = "RunLinked", !.revision = rev,
                           !.expiresAt = expiry, !.updatedAt = now]
  BY DEF Bound
<1> HIDE DEF rev, expiry
<1> QED BY Zenon, <1>1, <1>2 DEF Rows

\* Finishing keeps a row a row.
LEMMA FinishedType ==
  ASSUME NEW row \in Rows, NEW state \in OccurrenceStates, NEW now \in Nat
  PROVE  Finished(row, state, now) \in Rows
<1> DEFINE rev == row.revision + 1
<1>1. rev \in Nat
  BY DEF Rows
<1>2. Finished(row, state, now) = [row EXCEPT !.state = state, !.revision = rev,
                                     !.expiresAt = None, !.updatedAt = now]
  BY DEF Finished
<1> HIDE DEF rev
<1> QED BY Zenon, <1>1, <1>2 DEF Rows

\* So does promotion.
LEMMA PromotedRowType ==
  ASSUME NEW row \in Rows, NEW now \in Nat
  PROVE  [row EXCEPT !.state = "Pending", !.revision = @ + 1, !.updatedAt = now]
           \in Rows
<1> DEFINE rev == row.revision + 1
<1>1. rev \in Nat
  BY DEF Rows
<1> HIDE DEF rev
<1>2. [row EXCEPT !.state = "Pending", !.revision = rev, !.updatedAt = now] \in Rows
  BY Zenon, <1>1 DEF Rows
<1> QED BY <1>2 DEF rev

\* promote_queued yields rows.
LEMMA PromotedType ==
  ASSUME NEW rows \in [Occurrences -> Rows \cup {None}], NEW freed, NEW now \in Nat
  PROVE  Promoted(rows, freed, now) \in [Occurrences -> Rows \cup {None}]
  BY Zenon, PromotedRowType DEF Promoted

\* A run that moves stays a run.
LEMMA RunMovedType ==
  ASSUME NEW row \in Runs, NEW next \in RunStates, NEW now \in Nat
  PROVE  RunMoved(row, next, now) \in Runs /\ RunMoved(row, next, now).state = next
<1> DEFINE rev == row.revision + 1
<1>1. rev \in Nat
  BY DEF Runs
<1>2. RunMoved(row, next, now) = [row EXCEPT !.state = next, !.revision = rev,
                                    !.updatedAt = now]
  BY DEF RunMoved
<1> HIDE DEF rev
<1> QED BY Zenon, <1>1, <1>2 DEF Runs

-----------------------------------------------------------------------------
(* Evaluation *)

Proposals == [slot : Nat, state : {"Pending", "SkippedMissed",
                                   "SkippedInvalidLocalTime"},
              count : Nat \ {0}]

\* A set of numbers with an upper bound is finite, so it can be counted.
LEMMA BoundedCount ==
  ASSUME NEW n \in Nat, NEW S \in SUBSET (0..n), S # {}
  PROVE  Cardinality(S) \in Nat \ {0}
<1>1. IsFiniteSet(0..n)
  BY FS_Interval
<1>2. IsFiniteSet(S)
  BY Zenon, <1>1, FS_Subset
<1>3. Cardinality(S) \in Nat
  BY <1>2, FS_CardinalityType
<1>4. Cardinality(S) # 0
  BY <1>2, FS_EmptySet
<1> QED BY <1>3, <1>4

\* materialize_decisions proposes slots of the window, each at most once.
LEMMA ProposedShape ==
  ASSUME NEW a \in Automations, NEW after \in Nat, NEW through \in Nat,
         NEW since \in Nat
  PROVE  /\ Proposed(a, after, through, since) \subseteq Proposals
         /\ \A p \in Proposed(a, after, through, since) :
              after < p.slot /\ p.slot <= through /\ p.slot \in Slots(a)
         /\ \A p, q \in Proposed(a, after, through, since) :
              p.slot = q.slot => p = q
<1> DEFINE missed  == {s \in Within(Due[a], after, through) : s < since}
           current == Within(Due[a], after, through) \ missed
           gaps    == Within(Gaps[a], after, through)
           latest  == {t \in missed : \A u \in missed : u <= t}
           policy  == IF MissedPolicy[a] = "Skip" THEN "SkippedMissed" ELSE "Pending"
           lost    == {Proposal(s, policy, Cardinality(missed)) : s \in latest}
           absent  == {Proposal(s, "SkippedInvalidLocalTime", 1) : s \in gaps}
           due     == {Proposal(s, "Pending", 1) : s \in current}
<1>1. Proposed(a, after, through, since) = absent \cup lost \cup due
  BY DEF Proposed
<1>2. /\ missed \subseteq Due[a] /\ current \subseteq Due[a] /\ gaps \subseteq Gaps[a]
      /\ Due[a] \subseteq Nat /\ Gaps[a] \subseteq Nat /\ Due[a] \cap Gaps[a] = {}
      /\ missed \cap current = {}
      /\ \A s \in missed \cup current \cup gaps : after < s /\ s <= through
  BY JournalAssumption DEF Within
<1>3. missed # {} => Cardinality(missed) \in Nat \ {0}
  <2>1. missed \in SUBSET (0..through)
    BY <1>2
  <2> HIDE DEF missed
  <2> QED BY <2>1, BoundedCount
<1>4. \A s, t \in latest : s = t
  <2>1. latest \subseteq Nat
    BY <1>2
  <2> QED BY <2>1
<1> HIDE DEF missed, current, gaps, policy
<1>5. absent \cup lost \cup due \subseteq Proposals
  BY <1>2, <1>3 DEF Proposal, Proposals, policy
<1>6. \A p \in absent \cup lost \cup due :
        after < p.slot /\ p.slot <= through /\ p.slot \in Slots(a)
  BY <1>2 DEF Proposal, Slots
<1>7. \A p, q \in absent \cup lost \cup due : p.slot = q.slot => p = q
  BY <1>2, <1>4 DEF Proposal
<1> QED BY <1>1, <1>5, <1>6, <1>7

\* A proposal becomes active only if nothing is ahead of it, and is queued only
\* behind exactly one.
LEMMA AdjudicatedCases ==
  ASSUME NEW a, NEW proposals, NEW p,
         p.state \in {"Pending", "SkippedMissed", "SkippedInvalidLocalTime"}
  PROVE  /\ Adjudicated(a, proposals, p) \in ActiveStates =>
              /\ p.state = "Pending"
              /\ Stored(a, ActiveStates) = {} /\ Ahead(proposals, p) = {}
         /\ Adjudicated(a, proposals, p) = "QueuedOverlap" =>
              /\ p.state = "Pending" /\ Stored(a, {"QueuedOverlap"}) = {}
              /\ \E s \in Stored(a, ActiveStates) \cup Ahead(proposals, p) :
                   Stored(a, ActiveStates) \cup Ahead(proposals, p) = {s}
<1> DEFINE blocking == Stored(a, ActiveStates) \cup Ahead(proposals, p)
           room == /\ OverlapPolicy[a] = "QueueOne"
                   /\ Stored(a, {"QueuedOverlap"}) = {}
                   /\ \E s \in blocking : blocking = {s}
<1>1. Adjudicated(a, proposals, p)
        = IF p.state # "Pending" THEN p.state
          ELSE IF blocking = {} THEN "Pending"
          ELSE IF room THEN "QueuedOverlap"
          ELSE "SkippedOverlap"
  BY DEF Adjudicated
<1>2. blocking = {} => Stored(a, ActiveStates) = {} /\ Ahead(proposals, p) = {}
  OBVIOUS
<1>3. room => /\ Stored(a, {"QueuedOverlap"}) = {}
              /\ \E s \in Stored(a, ActiveStates) \cup Ahead(proposals, p) :
                   Stored(a, ActiveStates) \cup Ahead(proposals, p) = {s}
  OBVIOUS
<1> HIDE DEF blocking, room
<1>5. CASE p.state # "Pending"
  BY <1>1, <1>5
<1>6. CASE p.state = "Pending" /\ blocking = {}
  BY <1>1, <1>2, <1>6
<1>7. CASE p.state = "Pending" /\ blocking # {} /\ room
  BY <1>1, <1>3, <1>7
<1>8. CASE p.state = "Pending" /\ blocking # {} /\ ~room
  BY <1>1, <1>8
<1> QED BY <1>5, <1>6, <1>7, <1>8

\* adjudicate_overlap decides only between these states.
LEMMA AdjudicatedStates ==
  ASSUME NEW a, NEW proposals \in SUBSET Proposals, NEW p \in proposals
  PROVE  Adjudicated(a, proposals, p) \in
           {"Pending", "QueuedOverlap", "SkippedOverlap", "SkippedMissed",
            "SkippedInvalidLocalTime"}
  BY DEF Adjudicated, Proposals

\* What the insertions leave alone and what they write
LEMMA InsertedRows ==
  ASSUME JournalTypeOK, NEW a \in Automations, NEW proposals \in SUBSET Proposals,
         NEW now \in Nat
  PROVE  /\ Inserted(a, proposals, now) \in [Occurrences -> Rows \cup {None}]
         /\ \A o \in Occurrences :
              IF Automation(o) = a /\ \E p \in proposals : p.slot = Slot(o)
                THEN \E p \in proposals :
                       /\ p.slot = Slot(o)
                       /\ Inserted(a, proposals, now)[o] \in Rows
                       /\ Inserted(a, proposals, now)[o].state
                            = Adjudicated(a, proposals, p)
                ELSE Inserted(a, proposals, now)[o] = occurrence[o]
<1> DEFINE row(p) == NewRow(Adjudicated(a, proposals, p), p.count, now)
<1>1. \A p \in proposals : /\ row(p) \in Rows
                           /\ row(p).state = Adjudicated(a, proposals, p)
  <2> TAKE p \in proposals
  <2>1. Adjudicated(a, proposals, p) \in OccurrenceStates
    BY AdjudicatedStates
  <2>2. p.count \in Nat \ {0}
    BY DEF Proposals
  <2> QED BY <2>1, <2>2, NewRowType DEF NewRow
<1> HIDE DEF row
<1> SUFFICES ASSUME NEW o \in Occurrences
             PROVE  IF Automation(o) = a /\ \E p \in proposals : p.slot = Slot(o)
                      THEN \E p \in proposals :
                             p.slot = Slot(o) /\ Inserted(a, proposals, now)[o] = row(p)
                      ELSE Inserted(a, proposals, now)[o] = occurrence[o]
  <2>1. \A o \in Occurrences : occurrence[o] \in Rows \cup {None}
    BY DEF JournalTypeOK
  <2>2. Inserted(a, proposals, now)
          = [o \in Occurrences |-> Inserted(a, proposals, now)[o]]
    BY DEF Inserted
  <2> QED BY <1>1, <2>1, <2>2
<1>2. CASE Automation(o) = a /\ \E p \in proposals : p.slot = Slot(o)
  <2> DEFINE p == CHOOSE q \in proposals : q.slot = Slot(o)
  <2>1. p \in proposals /\ p.slot = Slot(o)
    BY <1>2
  <2>2. Inserted(a, proposals, now)[o] = row(p)
    BY <1>2 DEF Inserted, row
  <2> QED BY Zenon, <1>2, <2>1, <2>2
<1>3. CASE ~(Automation(o) = a /\ \E p \in proposals : p.slot = Slot(o))
  BY <1>3 DEF Inserted
<1> QED BY <1>2, <1>3

-----------------------------------------------------------------------------
(* The journal invariant *)

BoundStates == {"RunLinked", "Succeeded", "Failed", "InterruptedNeedsReview",
                "Cancelled"}

\* Rows exist only behind the cursor: the next window is fresh.
RowsBehindCursor ==
  \A o \in Occurrences :
    occurrence[o] # None => /\ cursor[Automation(o)] # None
                            /\ Slot(o) <= cursor[Automation(o)].through

\* An occurrence has a run exactly when it was claimed.
RunsBound == \A o \in Occurrences : run[o] # None <=> InState(o, BoundStates)

JournalInv == RowsBehindCursor /\ RunsBound /\ RunAgrees /\ OneActive

Uncalled(o) == run[o] = None \/ run[o].state = "Queued"

\* What every transaction keeps: types, the invariant, and that a run that has
\* left Queued never returns to it.
JournalStep ==
  /\ JournalTypeOK' /\ JournalInv'
  /\ \A o \in Occurrences : Uncalled(o)' => Uncalled(o)

\* A step that touches neither cursors nor rows nor runs keeps the journal.
LEMMA QuietStep ==
  ASSUME JournalTypeOK, JournalInv, UNCHANGED <<cursor, occurrence, run>>,
         lease' \in Leases \cup {None}, definition' \in [Automations -> Definitions],
         projectActive' \in BOOLEAN
  PROVE  JournalStep
  BY DEF JournalStep, JournalTypeOK, JournalInv, RowsBehindCursor, RunsBound,
         RunAgrees, OneActive, InState, Uncalled

\* The first evaluation of a definition (commit_evaluation) only sets its cursor.
LEMMA InitializeStep ==
  ASSUME JournalTypeOK, JournalInv, NEW a \in Automations, cursor[a] = None,
         NEW activatedAt \in Nat, NEW now \in Nat,
         InitializeCursor(a, activatedAt, now)
  PROVE  JournalStep
<1>1. [through |-> activatedAt, revision |-> 0, updatedAt |-> now] \in Cursors
  BY DEF Cursors
<1>2. JournalTypeOK'
  BY <1>1 DEF JournalTypeOK, InitializeCursor
<1>3. RowsBehindCursor'
  BY OccurrenceParts DEF InitializeCursor, JournalTypeOK, JournalInv, RowsBehindCursor
<1> QED BY <1>2, <1>3 DEF InitializeCursor, JournalStep, JournalInv, RunsBound,
            RunAgrees, OneActive, InState, Uncalled

\* claim_and_bind_occurrence turns a pending row into a linked one with a queued run.
LEMMA ClaimStep ==
  ASSUME JournalTypeOK, JournalInv, NEW o \in Occurrences, NEW now \in Nat,
         InState(o, {"Pending"}), ClaimAndBind(o, now)
  PROVE  JournalStep
<1> DEFINE new == [state |-> "Queued", revision |-> 0, updatedAt |-> now]
<1>1. occurrence[o] \in Rows /\ occurrence[o].state = "Pending"
  BY DEF JournalTypeOK, InState
<1>2. Bound(occurrence[o], now) \in Rows /\ Bound(occurrence[o], now).state = "RunLinked"
  BY Zenon, <1>1, BoundType DEF Bound, Rows
<1>3. new \in Runs /\ new.state = "Queued"
  BY DEF Runs
<1>4. /\ occurrence' = [occurrence EXCEPT ![o] = Bound(@, now)]
      /\ run' = [run EXCEPT ![o] = new]
      /\ UNCHANGED <<lease, definition, projectActive, cursor>>
  BY DEF ClaimAndBind
<1> HIDE DEF new
<1>5. JournalTypeOK'
  BY <1>2, <1>3, <1>4 DEF JournalTypeOK
<1>6. /\ occurrence'[o] \in Rows /\ occurrence'[o].state = "RunLinked"
      /\ run'[o] \in Runs /\ run'[o].state = "Queued"
      /\ \A p \in Occurrences : p # o => occurrence'[p] = occurrence[p] /\ run'[p] = run[p]
  BY <1>2, <1>3, <1>4 DEF JournalTypeOK
<1>7. occurrence'[o] # None /\ run'[o] # None /\ occurrence[o] # None
  BY <1>1, <1>6, JournalAssumption
<1>8. RowsBehindCursor'
  BY <1>4, <1>6, <1>7 DEF JournalInv, RowsBehindCursor
<1>9. RunsBound'
  BY <1>6, <1>7 DEF JournalInv, RunsBound, InState, BoundStates
<1>10. RunAgrees'
  BY <1>6, <1>7 DEF JournalInv, RunAgrees, InState
<1>11. OneActive'
  <2>1. \A p \in Occurrences : /\ InState(p, ActiveStates)' <=> InState(p, ActiveStates)
                               /\ InState(p, {"QueuedOverlap"})' <=> InState(p, {"QueuedOverlap"})
    BY <1>1, <1>6, <1>7 DEF InState
  <2> QED BY <2>1 DEF JournalInv, OneActive, Of
<1>12. \A p \in Occurrences : Uncalled(p)' => Uncalled(p)
  <2>1. run[o] = None
    BY <1>1 DEF JournalInv, RunsBound, InState, BoundStates
  <2> QED BY <1>6, <2>1 DEF Uncalled
<1> QED BY <1>5, <1>8, <1>9, <1>10, <1>11, <1>12 DEF JournalStep, JournalInv

\* begin_occurrence_run keeps the journal and takes the run out of Queued.
LEMMA BeginStep ==
  ASSUME JournalTypeOK, JournalInv, NEW o \in Occurrences, NEW now \in Nat,
         InState(o, {"RunLinked"}), BeginRun(o, now)
  PROVE  JournalStep /\ run'[o] # None /\ run'[o].state = "Running"
<1> DEFINE planning == RunMoved(run[o], "Planning", now)
           new == RunMoved(planning, "Running", now)
<1>1. run[o] \in Runs
  BY DEF JournalTypeOK, JournalInv, RunsBound, InState, BoundStates
<1>a. planning \in Runs
  BY <1>1, RunMovedType
<1> HIDE DEF planning
<1>2. new \in Runs /\ new.state = "Running"
  BY <1>a, RunMovedType
<1>3. run' = [run EXCEPT ![o] = new]
      /\ UNCHANGED <<lease, definition, projectActive, cursor, occurrence>>
  BY DEF BeginRun, planning
<1> HIDE DEF new
<1>4. JournalTypeOK'
  BY <1>2, <1>3 DEF JournalTypeOK
<1>5. /\ run'[o] \in Runs /\ run'[o].state = "Running" /\ run'[o] # None
      /\ \A p \in Occurrences : p # o => run'[p] = run[p]
      /\ run[o] # None
  BY <1>1, <1>2, <1>3, JournalAssumption DEF JournalTypeOK
<1>6. RowsBehindCursor'
  BY <1>3 DEF JournalInv, RowsBehindCursor
<1>7. RunsBound'
  BY <1>3, <1>5 DEF JournalInv, RunsBound, InState
<1>8. RunAgrees'
  BY <1>3, <1>5 DEF JournalInv, RunAgrees, InState
<1>9. OneActive'
  BY <1>3 DEF JournalInv, OneActive, Of, InState
<1>10. \A p \in Occurrences : Uncalled(p)' => Uncalled(p)
  BY <1>5 DEF Uncalled
<1> QED BY <1>4, <1>5, <1>6, <1>7, <1>8, <1>9, <1>10 DEF JournalStep, JournalInv

\* Runs that end free their automations: what was queued behind them is due.
LEMMA SettleStep ==
  ASSUME JournalTypeOK, JournalInv, JournalTypeOK', UNCHANGED cursor,
         NEW S \in SUBSET Occurrences, \A o \in S : InState(o, {"RunLinked"}),
         \A o \in S : /\ occurrence'[o] # None /\ run'[o] # None
                      /\ occurrence'[o].state \in Completions
                      /\ run'[o].state = RunOutcome(occurrence'[o].state),
         \A o \in Occurrences \ S :
           /\ run'[o] = run[o]
           /\ IF /\ \E p \in S : Automation(p) = Automation(o)
                 /\ InState(o, {"QueuedOverlap"})
                THEN occurrence'[o] # None /\ occurrence'[o].state = "Pending"
                ELSE occurrence'[o] = occurrence[o]
  PROVE  JournalStep
<1>1. RowsBehindCursor'
  BY DEF JournalInv, RowsBehindCursor, InState
<1>2. RunsBound'
  BY DEF JournalInv, RunsBound, InState, BoundStates
<1>3. RunAgrees'
  <2> SUFFICES ASSUME NEW o \in Occurrences, run'[o] # None
               PROVE  IF InState(o, {"RunLinked"})'
                        THEN run'[o].state \in {"Queued", "Running"}
                        ELSE run'[o].state = RunOutcome(occurrence'[o].state)
    BY DEF RunAgrees, RunOutcome
  <2>1. CASE o \in S
    BY <2>1 DEF InState
  <2>2. CASE o \notin S
    <3>1. run[o] # None /\ run'[o] = run[o]
      BY <2>2
    <3>2. InState(o, BoundStates)
      BY <3>1 DEF JournalInv, RunsBound
    <3>3. occurrence'[o] = occurrence[o]
      BY <2>2, <3>2 DEF InState, BoundStates
    <3> QED BY <3>1, <3>3 DEF JournalInv, RunAgrees, InState, RunOutcome
  <2> QED BY <2>1, <2>2
<1>4. OneActive'
  <2> SUFFICES ASSUME NEW a \in Automations
               PROVE  /\ \A o, p \in Of(a) :
                           InState(o, ActiveStates)' /\ InState(p, ActiveStates)' => o = p
                      /\ \A o, p \in Of(a) :
                           InState(o, {"QueuedOverlap"})' /\ InState(p, {"QueuedOverlap"})' => o = p
                      /\ (\E o \in Of(a) : InState(o, {"QueuedOverlap"})')
                           => \E o \in Of(a) : InState(o, ActiveStates)'
    BY DEF OneActive
  <2>1. /\ \A o, p \in Of(a) :
             InState(o, ActiveStates) /\ InState(p, ActiveStates) => o = p
        /\ \A o, p \in Of(a) :
             InState(o, {"QueuedOverlap"}) /\ InState(p, {"QueuedOverlap"}) => o = p
        /\ (\E o \in Of(a) : InState(o, {"QueuedOverlap"}))
             => \E o \in Of(a) : InState(o, ActiveStates)
    BY DEF JournalInv, OneActive
  <2>2. \A o \in Of(a) : o \in Occurrences /\ Automation(o) = a
    BY DEF Of
  <2>3. CASE \E p \in S : Automation(p) = a
    <3>1. PICK p \in S : Automation(p) = a
      BY <2>3
    <3>2. p \in Of(a) /\ InState(p, ActiveStates)
      BY <3>1 DEF Of, InState
    <3>3. \A o \in Of(a) : InState(o, ActiveStates)' => InState(o, {"QueuedOverlap"})
      BY <2>1, <2>2, <3>1, <3>2 DEF InState
    <3>4. \A o \in Of(a) : ~InState(o, {"QueuedOverlap"})'
      BY <2>2, <3>1 DEF InState
    <3> QED BY <2>1, <3>3, <3>4
  <2>4. CASE ~\E p \in S : Automation(p) = a
    <3>1. \A o \in Of(a) : occurrence'[o] = occurrence[o]
      BY <2>2, <2>4
    <3> QED BY <2>1, <3>1 DEF InState
  <2> QED BY <2>3, <2>4
<1>5. \A o \in Occurrences : Uncalled(o)' => Uncalled(o)
  BY DEF Uncalled, RunOutcome
<1> QED BY <1>1, <1>2, <1>3, <1>4, <1>5 DEF JournalStep, JournalInv

\* complete_occurrence_run settles one row with its run and promotes the queued one.
LEMMA CompleteStep ==
  ASSUME JournalTypeOK, JournalInv, NEW o \in Occurrences, NEW now \in Nat,
         NEW completion \in Completions,
         InState(o, {"RunLinked"}), CompleteRun(o, completion, now)
  PROVE  JournalStep
<1> DEFINE outcome == RunOutcome(completion)
           new == RunMoved(run[o], outcome, now)
           row == Finished(occurrence[o], completion, now)
           rows == [occurrence EXCEPT ![o] = row]
<1>1. run[o] \in Runs /\ occurrence[o] \in Rows
  BY DEF JournalTypeOK, JournalInv, RunsBound, InState, BoundStates
<1>2. outcome \in RunStates
  BY DEF RunOutcome
<1>3. new \in Runs /\ new.state = outcome
  <2> HIDE DEF outcome, RunStates
  <2> QED BY <1>1, <1>2, RunMovedType
<1>4. row \in Rows /\ row.state = completion
  <2>1. completion \in OccurrenceStates
    OBVIOUS
  <2>2. row.state = completion
    BY <1>1 DEF Finished, Rows
  <2> HIDE DEF OccurrenceStates
  <2> QED BY <1>1, <2>1, <2>2, FinishedType
<1>5. /\ run' = [run EXCEPT ![o] = new]
      /\ occurrence' = Promoted(rows, {Automation(o)}, now)
      /\ UNCHANGED <<lease, definition, projectActive, cursor>>
  BY DEF CompleteRun
<1> HIDE DEF new, row
<1>6. rows \in [Occurrences -> Rows \cup {None}]
  BY <1>4 DEF JournalTypeOK
<1>7. JournalTypeOK'
  BY Zenon, <1>3, <1>5, <1>6, PromotedType DEF JournalTypeOK
<1>8. /\ rows[o] = row /\ \A p \in Occurrences : p # o => rows[p] = occurrence[p]
      /\ run'[o] = new /\ \A p \in Occurrences : p # o => run'[p] = run[p]
  BY <1>5 DEF JournalTypeOK
<1> HIDE DEF rows
<1>9. \A p \in Occurrences :
        occurrence'[p] = IF /\ Automation(p) = Automation(o) /\ rows[p] # None
                            /\ rows[p].state = "QueuedOverlap"
                           THEN [rows[p] EXCEPT !.state = "Pending",
                                   !.revision = @ + 1, !.updatedAt = now]
                           ELSE rows[p]
  BY Zenon, <1>5 DEF Promoted
<1>10. occurrence'[o] = row
  BY Zenon, <1>4, <1>8, <1>9
<1>11. \A p \in Occurrences \ {o} :
         IF Automation(o) = Automation(p) /\ InState(p, {"QueuedOverlap"})
           THEN occurrence'[p] # None /\ occurrence'[p].state = "Pending"
           ELSE occurrence'[p] = occurrence[p]
  <2> SUFFICES ASSUME NEW p \in Occurrences \ {o}
               PROVE  IF Automation(o) = Automation(p) /\ InState(p, {"QueuedOverlap"})
                        THEN occurrence'[p] # None /\ occurrence'[p].state = "Pending"
                        ELSE occurrence'[p] = occurrence[p]
    OBVIOUS
  <2>1. rows[p] = occurrence[p]
    BY <1>8
  <2>2. CASE Automation(o) = Automation(p) /\ InState(p, {"QueuedOverlap"})
    <3>1. occurrence[p] \in Rows
      BY <2>2 DEF JournalTypeOK, InState
    <3>2. occurrence'[p] = [occurrence[p] EXCEPT !.state = "Pending",
                              !.revision = @ + 1, !.updatedAt = now]
      BY Zenon, <1>9, <2>1, <2>2 DEF InState
    <3>3. occurrence'[p] \in Rows
      BY Zenon, <3>1, <3>2, PromotedRowType
    <3>4. occurrence'[p].state = "Pending"
      BY <3>1, <3>2 DEF Rows
    <3> QED BY <2>2, <3>3, <3>4, JournalAssumption
  <2>3. CASE ~(Automation(o) = Automation(p) /\ InState(p, {"QueuedOverlap"}))
    BY Zenon, <1>9, <2>1, <2>3 DEF InState
  <2> QED BY <2>2, <2>3
<1>12. /\ occurrence'[o] # None /\ run'[o] # None
       /\ occurrence'[o].state \in Completions
       /\ run'[o].state = RunOutcome(occurrence'[o].state)
  BY <1>3, <1>4, <1>8, <1>10, JournalAssumption
<1> DEFINE S == {o}
<1>13. /\ S \in SUBSET Occurrences /\ \A p \in S : InState(p, {"RunLinked"})
       /\ \A p \in S : /\ occurrence'[p] # None /\ run'[p] # None
                        /\ occurrence'[p].state \in Completions
                        /\ run'[p].state = RunOutcome(occurrence'[p].state)
  BY <1>12
<1>14. \A p \in Occurrences \ S :
         /\ run'[p] = run[p]
         /\ IF /\ \E q \in S : Automation(q) = Automation(p)
               /\ InState(p, {"QueuedOverlap"})
              THEN occurrence'[p] # None /\ occurrence'[p].state = "Pending"
              ELSE occurrence'[p] = occurrence[p]
  BY <1>8, <1>11
<1> HIDE DEF S, Completions
<1> QED BY Zenon, <1>5, <1>7, <1>13, <1>14, SettleStep

\* recover_claims settles the stranded rows with their runs, each automation once.
LEMMA RecoverStep ==
  ASSUME JournalTypeOK, JournalInv, NEW now \in Nat,
         NEW batch \in SUBSET Occurrences, \A o \in batch : InState(o, {"RunLinked"}),
         RecoverClaims(batch, now)
  PROVE  JournalStep
<1> DEFINE S == Stranded(batch)
           row(o) == Finished(occurrence[o], OccurrenceOutcome(run[o].state), now)
           rows == [o \in Occurrences |-> IF o \in S THEN row(o) ELSE occurrence[o]]
           freed == {Automation(o) : o \in S}
<1>1. S \in SUBSET Occurrences /\ \A o \in S : InState(o, {"RunLinked"})
  BY DEF Stranded
<1>2. \A o \in S : /\ run[o] \in Runs /\ occurrence[o] \in Rows
                   /\ run[o].state = "Running"
  <2> SUFFICES ASSUME NEW o \in S
               PROVE  run[o] \in Runs /\ occurrence[o] \in Rows /\ run[o].state = "Running"
    OBVIOUS
  <2>1. o \in Occurrences /\ InState(o, {"RunLinked"}) /\ o \notin Resumable
    BY <1>1 DEF Stranded
  <2>2. run[o] # None
    BY <2>1 DEF JournalInv, RunsBound, InState, BoundStates
  <2>3. run[o].state \in {"Queued", "Running"}
    BY <2>1, <2>2 DEF JournalInv, RunAgrees
  <2>4. run[o].state # "Queued"
    BY <2>1 DEF Resumable
  <2> QED BY <2>1, <2>2, <2>3, <2>4 DEF JournalTypeOK, InState
<1>3. \A o \in S : /\ ReviewedRun(run[o], now) \in Runs
                   /\ ReviewedRun(run[o], now).state = "InterruptedNeedsReview"
                   /\ row(o) \in Rows /\ row(o).state = "InterruptedNeedsReview"
  <2> SUFFICES ASSUME NEW o \in S
               PROVE  /\ ReviewedRun(run[o], now) \in Runs
                      /\ ReviewedRun(run[o], now).state = "InterruptedNeedsReview"
                      /\ row(o) \in Rows /\ row(o).state = "InterruptedNeedsReview"
    OBVIOUS
  <2>1. ReviewedRun(run[o], now) = RunMoved(run[o], "InterruptedNeedsReview", now)
    BY <1>2 DEF ReviewedRun, RunIsTerminal
  <2>2. OccurrenceOutcome(run[o].state) = "InterruptedNeedsReview"
    BY <1>2 DEF OccurrenceOutcome, RunIsTerminal
  <2>3. row(o) = Finished(occurrence[o], "InterruptedNeedsReview", now)
    BY <2>2
  <2>4. row(o) \in Rows
    BY <1>2, <2>3, FinishedType
  <2>5. row(o).state = "InterruptedNeedsReview"
    BY Zenon, <1>2, <2>3 DEF Finished, Rows
  <2>6. /\ RunMoved(run[o], "InterruptedNeedsReview", now) \in Runs
        /\ RunMoved(run[o], "InterruptedNeedsReview", now).state
             = "InterruptedNeedsReview"
    <3>1. run[o] \in Runs /\ "InterruptedNeedsReview" \in RunStates
      BY <1>2
    <3> HIDE DEF RunStates
    <3> QED BY <3>1, RunMovedType
  <2> QED BY <2>1, <2>4, <2>5, <2>6
<1>4. /\ run' = [o \in Occurrences |-> IF o \in S THEN ReviewedRun(run[o], now) ELSE run[o]]
      /\ occurrence' = Promoted(rows, freed, now)
      /\ UNCHANGED <<lease, definition, projectActive, cursor>>
  BY DEF RecoverClaims
<1> HIDE DEF S, row
<1>5. rows \in [Occurrences -> Rows \cup {None}]
  BY <1>3 DEF JournalTypeOK
<1>6. JournalTypeOK'
  BY <1>3, <1>4, <1>5, PromotedType DEF JournalTypeOK
<1>7. \A o \in Occurrences : rows[o] = IF o \in S THEN row(o) ELSE occurrence[o]
  OBVIOUS
<1> HIDE DEF rows
<1>8. \A p \in Occurrences :
        occurrence'[p] = IF /\ Automation(p) \in freed /\ rows[p] # None
                            /\ rows[p].state = "QueuedOverlap"
                           THEN [rows[p] EXCEPT !.state = "Pending",
                                   !.revision = @ + 1, !.updatedAt = now]
                           ELSE rows[p]
  BY Zenon, <1>4 DEF Promoted
<1>9. \A o \in S : /\ occurrence'[o] # None /\ run'[o] # None
                   /\ occurrence'[o].state \in Completions
                   /\ run'[o].state = RunOutcome(occurrence'[o].state)
  <2> SUFFICES ASSUME NEW o \in S
               PROVE  /\ occurrence'[o] # None /\ run'[o] # None
                      /\ occurrence'[o].state \in Completions
                      /\ run'[o].state = RunOutcome(occurrence'[o].state)
    OBVIOUS
  <2>1. rows[o] = row(o) /\ row(o).state = "InterruptedNeedsReview" /\ row(o) \in Rows
    BY <1>1, <1>3, <1>7
  <2>2. occurrence'[o] = row(o)
    BY Zenon, <1>1, <1>8, <2>1
  <2>3. run'[o] = ReviewedRun(run[o], now)
    BY <1>1, <1>4
  <2> QED BY <1>3, <2>1, <2>2, <2>3, JournalAssumption DEF RunOutcome
<1>10. \A o \in Occurrences \ S :
         /\ run'[o] = run[o]
         /\ IF /\ \E p \in S : Automation(p) = Automation(o)
               /\ InState(o, {"QueuedOverlap"})
              THEN occurrence'[o] # None /\ occurrence'[o].state = "Pending"
              ELSE occurrence'[o] = occurrence[o]
  <2> SUFFICES ASSUME NEW o \in Occurrences \ S
               PROVE  IF /\ \E p \in S : Automation(p) = Automation(o)
                         /\ InState(o, {"QueuedOverlap"})
                        THEN occurrence'[o] # None /\ occurrence'[o].state = "Pending"
                        ELSE occurrence'[o] = occurrence[o]
    BY <1>4
  <2>1. rows[o] = occurrence[o]
    BY <1>7
  <2>2. CASE Automation(o) \in freed /\ InState(o, {"QueuedOverlap"})
    <3>1. occurrence[o] \in Rows
      BY <2>2 DEF JournalTypeOK, InState
    <3>2. occurrence'[o] = [occurrence[o] EXCEPT !.state = "Pending",
                              !.revision = @ + 1, !.updatedAt = now]
      BY Zenon, <1>8, <2>1, <2>2 DEF InState
    <3>3. occurrence'[o] \in Rows
      BY Zenon, <3>1, <3>2, PromotedRowType
    <3>4. occurrence'[o].state = "Pending"
      BY <3>1, <3>2 DEF Rows
    <3> QED BY <2>2, <3>3, <3>4, JournalAssumption
  <2>3. CASE ~(Automation(o) \in freed /\ InState(o, {"QueuedOverlap"}))
    BY Zenon, <1>8, <2>1, <2>3 DEF InState
  <2> QED BY <2>2, <2>3
<1> HIDE DEF Completions
<1> QED BY Zenon, <1>1, <1>4, <1>6, <1>9, <1>10, SettleStep

\* An evaluation inserts fresh rows only, at most one of them active and one
\* queued, and neither when there already is one.
LEMMA AdvanceStep ==
  ASSUME JournalTypeOK, JournalInv, NEW a \in Automations, cursor[a] # None,
         NEW through \in Nat, cursor[a].through <= through,
         NEW since \in Nat, NEW now \in Nat,
         AdvanceCursor(a, through, Proposed(a, cursor[a].through, through, since), now)
  PROVE  JournalStep
<1> DEFINE after == cursor[a].through
           proposals == Proposed(a, after, through, since)
           rows == Inserted(a, proposals, now)
           rev == cursor[a].revision + 1
           new == [through |-> through, revision |-> rev, updatedAt |-> now]
<1>1. cursor[a] \in Cursors /\ after \in Nat /\ rev \in Nat
  BY DEF JournalTypeOK, Cursors
<1>2. /\ proposals \in SUBSET Proposals
      /\ \A p \in proposals : after < p.slot /\ p.slot <= through /\ p.slot \in Slots(a)
      /\ \A p, q \in proposals : p.slot = q.slot => p = q
  BY <1>1, ProposedShape
<1>3. /\ cursor' = [cursor EXCEPT ![a] = new] /\ occurrence' = rows
      /\ UNCHANGED <<lease, definition, projectActive, run>>
  BY DEF AdvanceCursor
<1>4. new \in Cursors /\ new.through = through
  BY <1>1 DEF Cursors
<1> HIDE DEF after, proposals, rev, new
<1>5. /\ rows \in [Occurrences -> Rows \cup {None}]
      /\ \A o \in Occurrences :
           IF Automation(o) = a /\ \E p \in proposals : p.slot = Slot(o)
             THEN \E p \in proposals :
                    /\ p.slot = Slot(o) /\ rows[o] \in Rows
                    /\ rows[o].state = Adjudicated(a, proposals, p)
             ELSE rows[o] = occurrence[o]
  BY <1>2, InsertedRows
<1> HIDE DEF rows
<1>6. JournalTypeOK'
  BY <1>3, <1>4, <1>5 DEF JournalTypeOK
<1> DEFINE Fresh(o) == /\ Automation(o) = a /\ after < Slot(o)
                       /\ occurrence[o] = None
<1>7. \A o \in Occurrences : Automation(o) = a /\ occurrence[o] # None => Slot(o) <= after
  BY DEF JournalInv, RowsBehindCursor, after
<1>8. \A o \in Occurrences :
        \/ occurrence'[o] = occurrence[o]
        \/ Fresh(o) /\ \E p \in proposals :
             /\ p.slot = Slot(o) /\ occurrence'[o] # None
             /\ occurrence'[o].state = Adjudicated(a, proposals, p)
  <2> SUFFICES ASSUME NEW o \in Occurrences, occurrence'[o] # occurrence[o]
               PROVE  Fresh(o) /\ \E p \in proposals :
                        /\ p.slot = Slot(o) /\ occurrence'[o] # None
                        /\ occurrence'[o].state = Adjudicated(a, proposals, p)
    OBVIOUS
  <2>1. PICK p \in proposals : /\ p.slot = Slot(o) /\ rows[o] \in Rows
                               /\ rows[o].state = Adjudicated(a, proposals, p)
    BY <1>3, <1>5
  <2>2. Automation(o) = a
    BY <1>3, <1>5
  <2>3. after < Slot(o) /\ Slot(o) \in Nat
    BY <1>2, <2>1, OccurrenceParts
  <2>4. occurrence[o] = None
    BY <1>1, <1>7, <2>2, <2>3
  <2> QED BY <1>3, <2>1, <2>2, <2>3, <2>4, JournalAssumption
<1>9. RowsBehindCursor'
  <2> SUFFICES ASSUME NEW o \in Occurrences, occurrence'[o] # None
               PROVE  cursor'[Automation(o)] # None
                      /\ Slot(o) <= cursor'[Automation(o)].through
    BY DEF RowsBehindCursor
  <2>0. Automation(o) \in Automations /\ Slot(o) \in Nat
    BY OccurrenceParts
  <2>1. CASE Automation(o) = a
    <3>1. cursor'[a] = new /\ new # None
      BY <1>3, <1>4, JournalAssumption DEF JournalTypeOK
    <3>2. Slot(o) <= through
      <4>1. CASE occurrence'[o] = occurrence[o]
        BY <1>1, <1>7, <2>0, <2>1, <4>1 DEF after
      <4>2. CASE occurrence'[o] # occurrence[o]
        BY <1>2, <1>8, <4>2
      <4> QED BY <4>1, <4>2
    <3> QED BY <1>4, <2>1, <3>1, <3>2
  <2>2. CASE Automation(o) # a
    BY <1>3, <1>8, <2>0, <2>2 DEF JournalInv, RowsBehindCursor, JournalTypeOK
  <2> QED BY <2>1, <2>2
<1>10. \A o \in Occurrences : Fresh(o) => ~InState(o, BoundStates) /\ run[o] = None
  BY DEF InState, JournalInv, RunsBound
<1>11. \A o \in Occurrences : InState(o, BoundStates)' <=> InState(o, BoundStates)
  <2> SUFFICES ASSUME NEW o \in Occurrences, occurrence'[o] # occurrence[o]
               PROVE  ~InState(o, BoundStates)' /\ ~InState(o, BoundStates)
    BY DEF InState
  <2>1. occurrence'[o].state \in {"Pending", "QueuedOverlap", "SkippedOverlap",
                                  "SkippedMissed", "SkippedInvalidLocalTime"}
    BY <1>2, <1>8, AdjudicatedStates
  <2> QED BY <1>8, <1>10, <2>1 DEF InState, BoundStates
<1>12. RunsBound'
  BY <1>3, <1>11 DEF JournalInv, RunsBound
<1>13. RunAgrees'
  <2> SUFFICES ASSUME NEW o \in Occurrences, run'[o] # None
               PROVE  occurrence'[o] = occurrence[o] /\ run'[o] = run[o]
    BY DEF JournalInv, RunAgrees, InState
  <2> QED BY <1>3, <1>8, <1>10
<1>14. OneActive'
  <2> SUFFICES ASSUME NEW b \in Automations
               PROVE  /\ \A o, q \in Of(b) :
                           InState(o, ActiveStates)' /\ InState(q, ActiveStates)' => o = q
                      /\ \A o, q \in Of(b) :
                           InState(o, {"QueuedOverlap"})' /\ InState(q, {"QueuedOverlap"})' => o = q
                      /\ (\E o \in Of(b) : InState(o, {"QueuedOverlap"})')
                           => \E o \in Of(b) : InState(o, ActiveStates)'
    BY DEF OneActive
  <2>1. /\ \A o, q \in Of(b) :
             InState(o, ActiveStates) /\ InState(q, ActiveStates) => o = q
        /\ \A o, q \in Of(b) :
             InState(o, {"QueuedOverlap"}) /\ InState(q, {"QueuedOverlap"}) => o = q
        /\ (\E o \in Of(b) : InState(o, {"QueuedOverlap"}))
             => \E o \in Of(b) : InState(o, ActiveStates)
    BY DEF JournalInv, OneActive
  <2>2. \A o \in Of(b) : o \in Occurrences /\ Automation(o) = b
    BY DEF Of
  <2>3. CASE b # a
    <3>1. \A o \in Of(b) : occurrence'[o] = occurrence[o]
      BY <1>8, <2>2, <2>3
    <3> QED BY <2>1, <3>1 DEF InState
  <2>4. CASE b = a
    <3> DEFINE stored == Stored(a, ActiveStates)
               held   == Stored(a, {"QueuedOverlap"})
               ahead(p) == Ahead(proposals, p)
    <3>1. \A o \in Of(b) : o = <<a, Slot(o)>> /\ Slot(o) \in Nat
      BY <2>2, <2>4, OccurrenceParts
    <3>2. /\ \A o \in Of(b) : InState(o, ActiveStates) => Slot(o) \in stored
          /\ \A o \in Of(b) : InState(o, {"QueuedOverlap"}) => Slot(o) \in held
          /\ \A s \in stored : \E o \in Of(b) : InState(o, ActiveStates) /\ Slot(o) = s
      BY <2>4 DEF Stored
    <3>3. \A o \in Of(b) : occurrence'[o] # occurrence[o] /\ InState(o, ActiveStates)' =>
            \E p \in proposals : /\ p.slot = Slot(o) /\ p.state = "Pending"
                                 /\ stored = {} /\ ahead(p) = {}
      <4> SUFFICES ASSUME NEW o \in Of(b), occurrence'[o] # occurrence[o],
                          InState(o, ActiveStates)'
                   PROVE  \E p \in proposals : /\ p.slot = Slot(o) /\ p.state = "Pending"
                                               /\ stored = {} /\ ahead(p) = {}
        OBVIOUS
      <4>1. PICK p \in proposals : /\ p.slot = Slot(o)
                                  /\ Adjudicated(a, proposals, p) \in ActiveStates
        BY <1>8, <2>2 DEF InState
      <4>2. p.state \in {"Pending", "SkippedMissed", "SkippedInvalidLocalTime"}
        BY <1>2 DEF Proposals
      <4> QED BY <4>1, <4>2, AdjudicatedCases
    <3>4. \A o \in Of(b) : occurrence'[o] # occurrence[o] /\ InState(o, {"QueuedOverlap"})' =>
            \E p \in proposals : /\ p.slot = Slot(o) /\ p.state = "Pending"
                                 /\ held = {}
                                 /\ \E s \in stored \cup ahead(p) : stored \cup ahead(p) = {s}
      <4> SUFFICES ASSUME NEW o \in Of(b), occurrence'[o] # occurrence[o],
                          InState(o, {"QueuedOverlap"})'
                   PROVE  \E p \in proposals :
                            /\ p.slot = Slot(o) /\ p.state = "Pending" /\ held = {}
                            /\ \E s \in stored \cup ahead(p) : stored \cup ahead(p) = {s}
        OBVIOUS
      <4>1. PICK p \in proposals : /\ p.slot = Slot(o)
                                  /\ Adjudicated(a, proposals, p) = "QueuedOverlap"
        BY <1>8, <2>2 DEF InState
      <4>2. p.state \in {"Pending", "SkippedMissed", "SkippedInvalidLocalTime"}
        BY <1>2 DEF Proposals
      <4> QED BY <4>1, <4>2, AdjudicatedCases
    <3>5. \A p, q \in proposals :
            /\ p.slot \in Nat /\ q.slot \in Nat
            /\ q.slot \in ahead(p) <=> q.state = "Pending" /\ q.slot < p.slot
      <4>1. \A p \in proposals : p.slot \in Nat
        BY <1>2 DEF Proposals
      <4> QED BY <1>2, <4>1 DEF Ahead
    <3>6. \A p, q \in proposals : p.slot <= q.slot => ahead(p) \subseteq ahead(q)
      <4>1. \A p \in proposals : p.slot \in Nat
        BY <1>2 DEF Proposals
      <4> QED BY <4>1 DEF Ahead
    <3>7. \A p \in proposals : \A s \in ahead(p) :
            \E r \in proposals : r.slot = s /\ r.state = "Pending" /\ s < p.slot
      BY DEF Ahead
    <3>8. \A s \in stored : s \in Nat /\ s <= after
      BY <1>7, <2>2, <2>4, <3>1, <3>2 DEF InState
    <3> HIDE DEF stored, held, ahead
    <3>9. \A o, q \in Of(b) :
            InState(o, ActiveStates)' /\ InState(q, ActiveStates)' => o = q
      <4> SUFFICES ASSUME NEW o \in Of(b), NEW q \in Of(b), Slot(o) < Slot(q),
                          InState(o, ActiveStates)', InState(q, ActiveStates)'
                   PROVE  FALSE
        BY <2>1, <3>1
      <4>1. CASE occurrence'[o] = occurrence[o] /\ occurrence'[q] = occurrence[q]
        BY <2>1, <3>1, <4>1 DEF InState
      <4>2. CASE occurrence'[o] = occurrence[o] /\ occurrence'[q] # occurrence[q]
        BY <3>2, <3>3, <4>2 DEF InState
      <4>3. CASE occurrence'[o] # occurrence[o] /\ occurrence'[q] = occurrence[q]
        BY <3>2, <3>3, <4>3 DEF InState
      <4>4. CASE occurrence'[o] # occurrence[o] /\ occurrence'[q] # occurrence[q]
        <5>1. PICK p \in proposals : p.slot = Slot(o) /\ p.state = "Pending"
          BY <3>3, <4>4
        <5>2. PICK r \in proposals : r.slot = Slot(q) /\ ahead(r) = {}
          BY <3>3, <4>4
        <5> QED BY <3>5, <5>1, <5>2
      <4> QED BY <4>1, <4>2, <4>3, <4>4
    <3>10. \A o, q \in Of(b) :
             InState(o, {"QueuedOverlap"})' /\ InState(q, {"QueuedOverlap"})' => o = q
      <4> SUFFICES ASSUME NEW o \in Of(b), NEW q \in Of(b), Slot(o) < Slot(q),
                          InState(o, {"QueuedOverlap"})', InState(q, {"QueuedOverlap"})'
                   PROVE  FALSE
        BY <2>1, <3>1
      <4>1. CASE occurrence'[o] = occurrence[o] /\ occurrence'[q] = occurrence[q]
        BY <2>1, <3>1, <4>1 DEF InState
      <4>2. CASE occurrence'[o] = occurrence[o] /\ occurrence'[q] # occurrence[q]
        BY <3>2, <3>4, <4>2 DEF InState
      <4>3. CASE occurrence'[o] # occurrence[o] /\ occurrence'[q] = occurrence[q]
        BY <3>2, <3>4, <4>3 DEF InState
      <4>4. CASE occurrence'[o] # occurrence[o] /\ occurrence'[q] # occurrence[q]
        <5>1. PICK p \in proposals :
                /\ p.slot = Slot(o) /\ p.state = "Pending"
                /\ \E s \in stored \cup ahead(p) : stored \cup ahead(p) = {s}
          BY <3>4, <4>4
        <5>2. PICK r \in proposals :
                /\ r.slot = Slot(q)
                /\ \E s \in stored \cup ahead(r) : stored \cup ahead(r) = {s}
          BY <3>4, <4>4
        <5>3. PICK s \in stored \cup ahead(p) : stored \cup ahead(p) = {s}
          BY <5>1
        <5>4. s < p.slot
          <6>1. CASE s \in stored
            BY <1>1, <1>2, <3>5, <3>8, <6>1
          <6>2. CASE s \in ahead(p)
            BY <3>7, <6>2
          <6> QED BY <5>3, <6>1, <6>2
        <5>5. s \in stored \cup ahead(r) /\ p.slot \in ahead(r)
          BY <3>5, <3>6, <5>1, <5>2, <5>3
        <5>6. s = p.slot
          BY <5>2, <5>5
        <5> QED BY <3>5, <5>4, <5>6
      <4> QED BY <4>1, <4>2, <4>3, <4>4
    <3>11. ASSUME NEW o \in Of(b), InState(o, {"QueuedOverlap"})'
           PROVE  \E q \in Of(b) : InState(q, ActiveStates)'
      <4>1. \A q \in Of(b) : InState(q, ActiveStates) => InState(q, ActiveStates)'
        BY <1>8, <2>2 DEF InState
      <4>2. CASE occurrence'[o] = occurrence[o]
        BY <2>1, <3>11, <4>1, <4>2 DEF InState
      <4>3. CASE occurrence'[o] # occurrence[o] /\ stored # {}
        BY <3>2, <4>1, <4>3
      <4>4. CASE occurrence'[o] # occurrence[o] /\ stored = {}
        <5>1. PICK p \in proposals : \E s \in ahead(p) : ahead(p) = {s}
          BY <3>4, <3>11, <4>4
        <5>2. PICK r \in proposals : r.state = "Pending" /\ r.slot < p.slot
                                    /\ ahead(p) = {r.slot}
          BY <3>7, <5>1
        <5>3. ahead(r) = {}
          <6>1. ahead(r) \subseteq {r.slot}
            BY <3>5, <3>6, <5>2
          <6>2. r.slot \notin ahead(r)
            BY <3>5
          <6> QED BY <6>1, <6>2
        <5>4. Adjudicated(a, proposals, r) = "Pending"
          BY <4>4, <5>2, <5>3 DEF Adjudicated, stored, ahead
        <5> DEFINE q == <<a, r.slot>>
        <5>5. q \in Of(b) /\ Slot(q) = r.slot /\ Automation(q) = a
          BY <1>2, <2>4 DEF Of, Occurrences, Automation, Slot
        <5>6. PICK t \in proposals : /\ t.slot = Slot(q) /\ rows[q] \in Rows
                                    /\ rows[q].state = Adjudicated(a, proposals, t)
          BY <1>5, <2>2, <5>5
        <5>7. t = r
          BY <1>2, <5>5, <5>6
        <5>8. occurrence'[q] \in Rows /\ occurrence'[q].state = "Pending"
          BY <1>3, <5>4, <5>6, <5>7
        <5>9. InState(q, ActiveStates)'
          BY <5>8, JournalAssumption DEF InState
        <5> QED BY <5>5, <5>9
      <4> QED BY <4>2, <4>3, <4>4
    <3> QED BY <3>9, <3>10, <3>11
  <2> QED BY <2>3, <2>4
<1>15. \A o \in Occurrences : Uncalled(o)' => Uncalled(o)
  BY <1>3 DEF Uncalled
<1> QED BY <1>6, <1>9, <1>12, <1>13, <1>14, <1>15 DEF JournalStep, JournalInv

-----------------------------------------------------------------------------
(* Types of what the task carries *)

\* The points at which a run is being dispatched
InDispatch == {"dispatch", "guest", "complete"}

\* A daemon that does not run
LEMMA DownType == Down \in Tasks /\ Down.pc = "down"
<1>1. /\ "down" \in Steps /\ 0 \in Owners \cup {0} /\ FALSE \in BOOLEAN
      /\ {} \in SUBSET Snapshots /\ None \in Snapshots \cup {None}
      /\ None \in Completions \cup {None} /\ 0 \in Nat
      /\ {} \in SUBSET Seen /\ {} \in SUBSET Automations
  BY DEF Steps
<1> HIDE DEF Steps, Owners, Completions
<1>2. Down \in Tasks
  BY <1>1, Zenon DEF Down, Tasks
<1> QED BY <1>2 DEF Down

\* A task that enters a step with nothing but its identity
LEMMA EnterType ==
  ASSUME task \in Tasks, NEW pc \in Steps
  PROVE  Enter(pc) \in Tasks /\ Enter(pc).pc = pc
<1> DEFINE owner == task.owner
           stopping == task.stopping
<1>1. owner \in Owners \cup {0} /\ stopping \in BOOLEAN
  BY Zenon DEF Tasks
<1>2. Enter(pc) = [Down EXCEPT !.pc = pc, !.owner = owner, !.stopping = stopping]
  BY DEF Enter
<1> HIDE DEF Steps, Owners, Completions, owner, stopping
<1>3. [Down EXCEPT !.pc = pc, !.owner = owner, !.stopping = stopping] \in Tasks
  BY <1>1, DownType, Zenon DEF Tasks
<1>4. [Down EXCEPT !.pc = pc, !.owner = owner, !.stopping = stopping].pc = pc
  BY <1>1, DownType, SMT DEF Tasks
<1> QED BY <1>2, <1>3, <1>4

\* The generation after an acquisition or a renewal is a lease.
LEMMA LeaseType ==
  ASSUME lease \in Leases \cup {None}, NEW owner \in Nat, NEW now \in Nat
  PROVE  /\ LeaseAfter(owner, now) \in Leases
         /\ LeaseAfter(owner, now).fence \in Nat
         /\ ContinuityStartedAt(owner, now) \in Nat
<1> DEFINE expiry == now + TTL
           next == lease.fence + 1
<1>1. expiry \in Nat /\ (lease # None => next \in Nat)
  BY JournalAssumption DEF Leases
<1>2. LeaseAfter(owner, now) =
        CASE lease = None ->
               [owner |-> owner, fence |-> 1, acquiredAt |-> now,
                renewedAt |-> now, expiresAt |-> expiry]
          [] Renews(owner, now) ->
               [lease EXCEPT !.renewedAt = now, !.expiresAt = expiry]
          [] OTHER ->
               [owner |-> owner, fence |-> next, acquiredAt |-> now,
                renewedAt |-> now, expiresAt |-> expiry]
  BY DEF LeaseAfter
<1> HIDE DEF expiry, next
<1>3. CASE lease = None
  BY <1>1, <1>2, <1>3 DEF Renews, Leases, ContinuityStartedAt
<1>4. CASE Renews(owner, now)
  BY Zenon, <1>1, <1>2, <1>4 DEF Renews, Leases, ContinuityStartedAt
<1>5. CASE lease # None /\ ~Renews(owner, now)
  BY <1>1, <1>2, <1>5 DEF Leases, ContinuityStartedAt
<1> QED BY <1>3, <1>4, <1>5

\* A task that enters a step with the lease it has just taken
LEMMA HoldingType ==
  ASSUME task \in Tasks, lease \in Leases \cup {None}, NEW pc \in Steps,
         NEW now \in Nat
  PROVE  Holding(pc, now) \in Tasks /\ Holding(pc, now).pc = pc
<1> DEFINE e == Enter(pc)
           fence == LeaseAfter(task.owner, now).fence
           since == ContinuityStartedAt(task.owner, now)
<1>1. task.owner \in Nat
  <2>1. task.owner \in Owners \cup {0}
    BY Zenon DEF Tasks
  <2> QED BY <2>1
<1>2. fence \in Nat /\ since \in Nat
  BY Zenon, <1>1, LeaseType
<1>3. e \in Tasks /\ e.pc = pc
  BY EnterType
<1>4. Holding(pc, now) = [e EXCEPT !.fence = fence, !.now = now, !.since = since]
  BY DEF Holding
<1> HIDE DEF Steps, Owners, Completions, e, fence, since
<1>5. [e EXCEPT !.fence = fence, !.now = now, !.since = since] \in Tasks
  BY <1>2, <1>3, Zenon DEF Tasks
<1>6. [e EXCEPT !.fence = fence, !.now = now, !.since = since].pc = pc
  BY <1>2, <1>3, SMT DEF Tasks
<1> QED BY <1>4, <1>5, <1>6

\* A task between two runs of a dispatch
LEMMA DispatchingType ==
  ASSUME task \in Tasks, NEW bound \in SUBSET Snapshots
  PROVE  Dispatching(bound) \in Tasks /\ Dispatching(bound).pc = "begin"
<1> DEFINE e == Enter("begin")
           second == task.second
<1>1. second \in BOOLEAN
  BY Zenon DEF Tasks
<1>2. e \in Tasks /\ e.pc = "begin"
  <2>1. "begin" \in Steps BY DEF Steps
  <2> QED BY <2>1, EnterType
<1>3. Dispatching(bound) = [e EXCEPT !.second = second, !.bound = bound]
  BY DEF Dispatching
<1> HIDE DEF Steps, Owners, Completions, e, second
<1>4. [e EXCEPT !.second = second, !.bound = bound] \in Tasks
  BY <1>1, <1>2, Zenon DEF Tasks
<1>5. [e EXCEPT !.second = second, !.bound = bound].pc = "begin"
  BY <1>1, <1>2, SMT DEF Tasks
<1> QED BY <1>3, <1>4, <1>5

\* A task that has begun a run
LEMMA BegunType ==
  ASSUME task \in Tasks, NEW b \in task.bound
  PROVE  /\ b \in Snapshots /\ Begun(b) \in Tasks
         /\ Begun(b).pc = "dispatch" /\ Begun(b).current = b
<1> DEFINE d == Dispatching(task.bound \ {b})
<1>1. b \in Snapshots /\ (task.bound \ {b}) \in SUBSET Snapshots
  BY DEF Tasks
<1>2. d \in Tasks
  BY <1>1, DispatchingType
<1>3. "dispatch" \in Steps
  BY DEF Steps
<1>4. Begun(b) = [d EXCEPT !.pc = "dispatch", !.current = b]
  BY DEF Begun
<1> HIDE DEF Steps, Owners, Completions, d
<1>5. [d EXCEPT !.pc = "dispatch", !.current = b] \in Tasks
  BY <1>1, <1>2, <1>3, Zenon DEF Tasks
<1>6. /\ [d EXCEPT !.pc = "dispatch", !.current = b].pc = "dispatch"
      /\ [d EXCEPT !.pc = "dispatch", !.current = b].current = b
  BY <1>2, SMT DEF Tasks
<1> QED BY <1>1, <1>4, <1>5, <1>6

\* A task whose dispatch has ended, or whose pass over the definitions has
LEMMA AfterType ==
  ASSUME task \in Tasks
  PROVE  /\ AfterDispatch \in Tasks /\ AfterDispatch.pc \in {"sleep", "tick"}
         /\ SecondDispatch \in Tasks /\ SecondDispatch.pc = "list"
<1>1. "sleep" \in Steps /\ "tick" \in Steps /\ "list" \in Steps
  BY DEF Steps
<1>2. AfterDispatch \in Tasks /\ AfterDispatch.pc \in {"sleep", "tick"}
  BY <1>1, EnterType DEF AfterDispatch
<1> DEFINE e == Enter("list")
<1>3. e \in Tasks /\ e.pc = "list"
  BY <1>1, EnterType
<1>4. SecondDispatch = [e EXCEPT !.second = TRUE]
  BY DEF SecondDispatch
<1> HIDE DEF Steps, Owners, Completions, e
<1>5. [e EXCEPT !.second = TRUE] \in Tasks
  <2>1. TRUE \in BOOLEAN OBVIOUS
  <2> QED BY <1>3, <2>1, Zenon DEF Tasks
<1>6. [e EXCEPT !.second = TRUE].pc = "list"
  BY <1>3, SMT DEF Tasks
<1> QED BY <1>2, <1>4, <1>5, <1>6

\* A task that knows how its run ended
LEMMA FinishingType ==
  ASSUME task \in Tasks, NEW completion \in Completions
  PROVE  /\ Finishing(completion) \in Tasks
         /\ Finishing(completion).pc = "complete"
         /\ Finishing(completion).completion = completion
         /\ Finishing(completion).current = task.current
<1>1. "complete" \in Steps
  BY DEF Steps
<1> HIDE DEF Steps, Owners, Completions
<1>2. [task EXCEPT !.pc = "complete", !.completion = completion] \in Tasks
  BY <1>1, Zenon DEF Tasks
<1>3. LET t == [task EXCEPT !.pc = "complete", !.completion = completion]
      IN  t.pc = "complete" /\ t.completion = completion /\ t.current = task.current
  BY SMT DEF Tasks
<1> QED BY <1>2, <1>3 DEF Finishing

\* A task that has dealt with one definition of its page
LEMMA EvaluatedType ==
  ASSUME task \in Tasks, NEW seen, NEW initialized \in BOOLEAN,
         NEW materialized \in BOOLEAN
  PROVE  /\ Evaluated(seen, initialized, materialized) \in Tasks
         /\ Evaluated(seen, initialized, materialized).pc = task.pc
<1> DEFINE left == task.seen \ {seen}
           i == task.initialized \/ initialized
           m == task.materialized \/ materialized
<1>1. left \in SUBSET Seen
  BY DEF Tasks
<1>2. i \in BOOLEAN /\ m \in BOOLEAN
  BY Zenon
<1>3. Evaluated(seen, initialized, materialized)
        = [task EXCEPT !.seen = left, !.initialized = i, !.materialized = m]
  BY Zenon DEF Evaluated
<1> HIDE DEF Steps, Owners, Completions, left, i, m
<1>4. [task EXCEPT !.seen = left, !.initialized = i, !.materialized = m] \in Tasks
  BY <1>1, <1>2, Zenon DEF Tasks
<1>5. [task EXCEPT !.seen = left, !.initialized = i, !.materialized = m].pc = task.pc
  BY <1>1, <1>2, SMT DEF Tasks
<1> QED BY <1>3, <1>4, <1>5

-----------------------------------------------------------------------------
(* The invariant *)

\* An occurrence whose run is still queued has never reached the guest, and the
\* one about to be sent has left Queued and was not sent before.
CallsFollowRun ==
  /\ \A o \in Occurrences : Uncalled(o) => guestCalls[o] = 0
  /\ task.pc = "dispatch" =>
       ~Uncalled(task.current.id) /\ guestCalls[task.current.id] = 0

\* A dispatch knows its run, and a completion its outcome.
TaskReady ==
  /\ task.pc \in InDispatch => task.current \in Snapshots
  /\ task.pc = "complete" => task.completion \in Completions

SchedulerInv ==
  TypeOK /\ JournalInv /\ TaskReady /\ CallsFollowRun /\ GuestCalledOnce

\* A step that neither begins nor sends a run, nor learns its outcome
IdleStep ==
  /\ JournalStep
  /\ clock' \in Nat /\ UNCHANGED guestCalls
  /\ task' \in Tasks
  /\ \/ task'.pc \notin InDispatch
     \/ /\ task'.pc = task.pc /\ task'.current = task.current
        /\ task'.completion = task.completion

\* Such a step keeps the invariant.
LEMMA IdleKeepsInv ==
  ASSUME SchedulerInv, IdleStep
  PROVE  SchedulerInv'
<1>1. TypeOK' /\ JournalInv'
  BY DEF SchedulerInv, IdleStep, JournalStep, TypeOK
<1>2. TaskReady'
  BY DEF SchedulerInv, IdleStep, TaskReady, InDispatch
<1>3. GuestCalledOnce'
  BY DEF SchedulerInv, IdleStep, GuestCalledOnce
<1>4. ASSUME NEW o \in Occurrences, Uncalled(o)'
      PROVE  guestCalls'[o] = 0
  BY <1>4 DEF SchedulerInv, IdleStep, JournalStep, CallsFollowRun
<1>5. ASSUME task'.pc = "dispatch"
      PROVE  ~Uncalled(task.current.id)' /\ guestCalls'[task'.current.id] = 0
  <2>1. task.pc = "dispatch" /\ task'.current = task.current
    BY <1>5 DEF IdleStep, InDispatch
  <2>2. task.current.id \in Occurrences
    BY <2>1 DEF SchedulerInv, TaskReady, InDispatch, Snapshots
  <2>3. ~Uncalled(task.current.id) /\ guestCalls[task.current.id] = 0
    BY <2>1 DEF SchedulerInv, CallsFollowRun
  <2> QED BY <2>1, <2>2, <2>3 DEF IdleStep, JournalStep, Uncalled
<1> QED BY <1>1, <1>2, <1>3, <1>4, <1>5 DEF SchedulerInv, CallsFollowRun, Uncalled

-----------------------------------------------------------------------------
(* The steps *)

\* What the invariant says of the task's own numbers and sets
LEMMA TaskParts ==
  ASSUME task \in Tasks
  PROVE  /\ task.owner \in Nat /\ task.now \in Nat /\ task.since \in Nat
         /\ task.bound \in SUBSET Snapshots /\ task.wanted \in SUBSET Snapshots
         /\ task.seen \in SUBSET Seen /\ task.owners \in SUBSET Automations
         /\ task.stopping \in BOOLEAN /\ task.first \in BOOLEAN
<1>1. task.owner \in Owners \cup {0}
  BY Zenon DEF Tasks
<1>2. /\ task.now \in Nat /\ task.since \in Nat
      /\ task.bound \in SUBSET Snapshots /\ task.wanted \in SUBSET Snapshots
      /\ task.seen \in SUBSET Seen /\ task.owners \in SUBSET Automations
      /\ task.stopping \in BOOLEAN /\ task.first \in BOOLEAN
  BY Zenon DEF Tasks
<1> QED BY <1>1, <1>2

\* A step that leaves the journal alone and takes the task to a step outside a
\* dispatch
LEMMA LeavesJournal ==
  ASSUME SchedulerInv, UNCHANGED journalVars, Outside,
         task' \in Tasks, task'.pc \notin InDispatch
  PROVE  IdleStep
<1>1. JournalStep
  BY QuietStep DEF SchedulerInv, TypeOK, journalVars, JournalTypeOK
<1> QED BY <1>1 DEF IdleStep, Outside, SchedulerInv, TypeOK

\* A transaction after which the task goes on, or takes its error path
LEMMA Answered ==
  ASSUME SchedulerInv, JournalStep, Outside, NEW ok \in Tasks, NEW failed \in Tasks,
         ok.pc \notin InDispatch, failed.pc \notin InDispatch, Answers(ok, failed)
  PROVE  IdleStep
  BY DEF IdleStep, Outside, SchedulerInv, TypeOK, Answers

\* Taking or renewing the lease changes nothing else.
LEMMA SetLeaseStep ==
  ASSUME SchedulerInv, NEW now \in Nat, SetLease(now)
  PROVE  JournalStep
<1>1. lease' \in Leases
  BY Zenon, LeaseType, TaskParts DEF SetLease, SchedulerInv, TypeOK, JournalTypeOK
<1> QED BY <1>1, QuietStep DEF SetLease, SchedulerInv, TypeOK, JournalTypeOK

\* Steps that only move the task: start, loop, sleep and the ends of passes
LEMMA EnterSteps ==
  ASSUME SchedulerInv,
         Boot \/ StartScheduler \/ LoopReady \/ LoopNotReady \/ LoopStops \/ Sleep
           \/ DispatchEnds \/ TickEnds \/ ClaimsEnd
  PROVE  IdleStep
<1>1. task \in Tasks
  BY DEF SchedulerInv, TypeOK
<1>2. \A pc \in Steps : Enter(pc) \in Tasks /\ Enter(pc).pc = pc
  BY <1>1, EnterType
<1>3. {"loop", "disabled", "list", "sleep", "retick", "claiming"} \subseteq Steps
  BY DEF Steps
<1>4. CASE Boot
  <2>1. PICK owner \in Owners : task' = [Down EXCEPT !.pc = "starting", !.owner = owner]
    BY Zenon, <1>4 DEF Boot
  <2>2. "starting" \in Steps /\ owner \in Owners \cup {0}
    BY DEF Steps
  <2>3. [Down EXCEPT !.pc = "starting", !.owner = owner] \in Tasks
    <3> HIDE DEF Steps, Owners, Completions
    <3> QED BY <2>2, DownType, Zenon DEF Tasks
  <2>4. task'.pc = "starting"
    <3> HIDE DEF Steps, Owners, Completions
    <3> QED BY <2>1, <2>2, DownType, SMT DEF Tasks
  <2> QED BY <1>4, <2>1, <2>3, <2>4, LeavesJournal DEF Boot, InDispatch
<1>5. CASE StartScheduler
  BY <1>2, <1>3, <1>5, LeavesJournal DEF StartScheduler, InDispatch
<1>6. CASE LoopReady
  BY <1>2, <1>3, <1>6, LeavesJournal DEF LoopReady, InDispatch
<1>7. CASE LoopNotReady
  BY <1>2, <1>3, <1>7, LeavesJournal DEF LoopNotReady, InDispatch
<1>8. CASE LoopStops
  BY <1>8, DownType, LeavesJournal DEF LoopStops, InDispatch
<1>9. CASE Sleep
  BY <1>2, <1>3, <1>9, LeavesJournal DEF Sleep, InDispatch
<1>10. CASE DispatchEnds
  BY <1>1, <1>10, AfterType, LeavesJournal DEF DispatchEnds, InDispatch
<1>11. CASE TickEnds
  <2>1. task'.pc \in {"retick", "claiming"} /\ task' \in Tasks
    BY <1>2, <1>3, <1>11 DEF TickEnds
  <2> QED BY <1>11, <2>1, LeavesJournal DEF TickEnds, InDispatch
<1>12. CASE ClaimsEnd
  BY <1>1, <1>12, AfterType, LeavesJournal DEF ClaimsEnd, InDispatch
<1> QED BY <1>4, <1>5, <1>6, <1>7, <1>8, <1>9, <1>10, <1>11, <1>12

\* Steps that acquire or renew the lease (acquire_lease)
LEMMA LeaseSteps ==
  ASSUME SchedulerInv, RecoveryLease \/ TickLease \/ ClaimLease
  PROVE  IdleStep
<1>1. task \in Tasks /\ lease \in Leases \cup {None} /\ clock \in Nat
  BY DEF SchedulerInv, TypeOK, JournalTypeOK
<1>2. {"recovering", "candidates", "owners", "disabled"} \subseteq Steps
  BY DEF Steps
<1>3. \A pc \in Steps : Enter(pc) \in Tasks /\ Enter(pc).pc = pc
  BY <1>1, EnterType
<1>4. \A pc \in Steps : Holding(pc, clock) \in Tasks /\ Holding(pc, clock).pc = pc
  BY <1>1, HoldingType
<1>5. SecondDispatch \in Tasks /\ SecondDispatch.pc = "list"
  BY <1>1, AfterType
<1>6. CASE RecoveryLease
  <2>1. CASE Acquisition(task.owner, clock) = "Acquired"
    <3>1. JournalStep /\ Answers(Holding("recovering", clock), Enter("disabled")) /\ Outside
      BY <1>1, <1>6, <2>1, SetLeaseStep DEF RecoveryLease
    <3> QED BY <1>2, <1>3, <1>4, <3>1, Answered DEF InDispatch
  <2>2. CASE Acquisition(task.owner, clock) # "Acquired"
    BY <1>2, <1>3, <1>6, <2>2, LeavesJournal DEF RecoveryLease, InDispatch
  <2> QED BY <2>1, <2>2
<1>7. CASE TickLease
  <2> DEFINE h == Holding("candidates", clock)
             first == task.pc = "tick"
             ok == [h EXCEPT !.first = first]
  <2>1. first \in BOOLEAN
    OBVIOUS
  <2>2. h \in Tasks /\ h.pc = "candidates"
    BY <1>2, <1>4
  <2>3. TickLease => IF Acquisition(task.owner, clock) = "Acquired"
                       THEN SetLease(clock) /\ Answers(ok, SecondDispatch) /\ Outside
                       ELSE task' = SecondDispatch /\ UNCHANGED journalVars /\ Outside
    BY DEF TickLease
  <2> HIDE DEF h, first
  <2>4. ok \in Tasks
    <3> HIDE DEF Steps, Owners, Completions
    <3> QED BY <2>1, <2>2, Zenon DEF Tasks
  <2>5. ok.pc = "candidates"
    <3> HIDE DEF Steps, Owners, Completions
    <3> QED BY <2>1, <2>2, SMT DEF Tasks
  <2> HIDE DEF ok
  <2>6. CASE Acquisition(task.owner, clock) = "Acquired"
    <3>1. JournalStep /\ Answers(ok, SecondDispatch) /\ Outside
      BY <1>1, <1>7, <2>3, <2>6, SetLeaseStep
    <3> QED BY <1>5, <2>4, <2>5, <3>1, Answered DEF InDispatch
  <2>7. CASE Acquisition(task.owner, clock) # "Acquired"
    BY <1>5, <1>7, <2>3, <2>7, LeavesJournal DEF InDispatch
  <2> QED BY <2>6, <2>7
<1>8. CASE ClaimLease
  <2>1. CASE Acquisition(task.owner, clock) = "Acquired"
    <3>1. JournalStep /\ Answers(Holding("owners", clock), SecondDispatch) /\ Outside
      BY <1>1, <1>8, <2>1, SetLeaseStep DEF ClaimLease
    <3> QED BY <1>2, <1>4, <1>5, <3>1, Answered DEF InDispatch
  <2>2. CASE Acquisition(task.owner, clock) # "Acquired"
    BY <1>5, <1>8, <2>2, LeavesJournal DEF ClaimLease, InDispatch
  <2> QED BY <2>1, <2>2
<1> QED BY <1>6, <1>7, <1>8

\* Steps that read a page of the journal into the task
LEMMA ListSteps ==
  ASSUME SchedulerInv, ListResumable \/ ListCandidates \/ ListOwners \/ ListPending
  PROVE  IdleStep
<1>1. task \in Tasks /\ JournalTypeOK
  BY DEF SchedulerInv, TypeOK
<1>2. \A a \in FirstPage : a \in Automations
  BY DEF FirstPage, Candidates
<1>3. CASE ListResumable
  <2>1. \A o \in Resumable : /\ o \in Occurrences /\ occurrence[o].revision \in Nat
                             /\ run[o].revision \in Nat
    <3>1. \A o \in Resumable : o \in Occurrences /\ InState(o, {"RunLinked"})
      BY DEF Resumable
    <3>2. \A o \in Resumable : run[o] # None
      BY <3>1 DEF SchedulerInv, JournalInv, RunsBound, BoundStates, InState
    <3> QED BY <1>1, <3>1, <3>2 DEF JournalTypeOK, InState, Rows, Runs
  <2>2. PICK listed \in SUBSET Resumable :
          task' = Dispatching({[id |-> o, revision |-> occurrence[o].revision,
                                runRevision |-> run[o].revision] : o \in listed})
    BY Zenon, <1>3 DEF ListResumable
  <2> DEFINE bound == {[id |-> o, revision |-> occurrence[o].revision,
                        runRevision |-> run[o].revision] : o \in listed}
  <2>3. bound \in SUBSET Snapshots
    <3>1. \A o \in Resumable :
            [id |-> o, revision |-> occurrence[o].revision,
             runRevision |-> run[o].revision] \in Snapshots
      BY <2>1 DEF Snapshots
    <3> QED BY <3>1
  <2> HIDE DEF bound
  <2>4. task' \in Tasks /\ task'.pc = "begin"
    BY <1>1, <2>2, <2>3, DispatchingType DEF bound
  <2> QED BY <1>3, <2>4, LeavesJournal DEF ListResumable, InDispatch
<1>4. CASE ListCandidates
  <2> DEFINE seen == {[id |-> a, revision |-> definition[a].revision,
                       updatedAt |-> definition[a].updatedAt,
                       cursor |-> cursor[a]] : a \in FirstPage}
  <2>1. seen \in SUBSET Seen
    <3>1. \A a \in FirstPage : /\ definition[a].revision \in Nat
                               /\ definition[a].updatedAt \in Nat
                               /\ cursor[a] \in Cursors \cup {None}
      BY <1>1, <1>2 DEF JournalTypeOK, Definitions
    <3> QED BY <1>2, <3>1 DEF Seen
  <2>2. task' = [task EXCEPT !.pc = "evaluate", !.seen = seen]
    BY <1>4 DEF ListCandidates
  <2>3. "evaluate" \in Steps
    BY DEF Steps
  <2> HIDE DEF seen
  <2>4. task' \in Tasks
    <3> HIDE DEF Steps, Owners, Completions
    <3> QED BY <1>1, <2>1, <2>2, <2>3, Zenon DEF Tasks
  <2>5. task'.pc = "evaluate"
    <3> HIDE DEF Steps, Owners, Completions
    <3> QED BY <1>1, <2>2, SMT DEF Tasks
  <2> QED BY <1>4, <2>4, <2>5, LeavesJournal DEF ListCandidates, InDispatch
<1>5. CASE ListOwners
  <2>1. FirstPage \in SUBSET Automations /\ "pending" \in Steps
    BY <1>2 DEF Steps
  <2>2. task' = [task EXCEPT !.pc = "pending", !.owners = FirstPage]
    BY <1>5 DEF ListOwners
  <2>3. task' \in Tasks
    <3> HIDE DEF Steps, Owners, Completions
    <3> QED BY <1>1, <2>1, <2>2, Zenon DEF Tasks
  <2>4. task'.pc = "pending"
    <3> HIDE DEF Steps, Owners, Completions
    <3> QED BY <1>1, <2>2, SMT DEF Tasks
  <2> QED BY <1>5, <2>3, <2>4, LeavesJournal DEF ListOwners, InDispatch
<1>6. CASE ListPending
  <2>1. PICK a \in task.owners :
          task' = [task EXCEPT
                     !.owners = @ \ {a},
                     !.wanted = {[id |-> o, revision |-> occurrence[o].revision,
                                  runRevision |-> 0] :
                                   o \in {p \in Listed(a) : InState(p, {"Pending"})}}]
    BY Zenon, <1>6 DEF ListPending
  <2> DEFINE left == task.owners \ {a}
             wanted == {[id |-> o, revision |-> occurrence[o].revision,
                         runRevision |-> 0] :
                          o \in {p \in Listed(a) : InState(p, {"Pending"})}}
  <2>2. left \in SUBSET Automations
    BY <1>1, TaskParts
  <2>3. wanted \in SUBSET Snapshots
    <3>1. \A o \in Listed(a) : o \in Occurrences
      BY DEF Listed, Of
    <3>2. \A o \in Listed(a) : InState(o, {"Pending"}) => occurrence[o].revision \in Nat
      BY <1>1, <3>1 DEF JournalTypeOK, InState, Rows
    <3>3. \A o \in Listed(a) : InState(o, {"Pending"}) =>
            [id |-> o, revision |-> occurrence[o].revision, runRevision |-> 0] \in Snapshots
      BY <3>1, <3>2 DEF Snapshots
    <3> QED BY <3>3
  <2>4. task' = [task EXCEPT !.owners = left, !.wanted = wanted]
    BY <2>1
  <2> HIDE DEF left, wanted
  <2>5. task' \in Tasks
    <3> HIDE DEF Steps, Owners, Completions
    <3> QED BY <1>1, <2>2, <2>3, <2>4, Zenon DEF Tasks
  <2>6. task'.pc = "pending"
    <3>1. task.pc = "pending"
      BY Zenon, <1>6 DEF ListPending
    <3> HIDE DEF Steps, Owners, Completions
    <3> QED BY <1>1, <2>4, <3>1, SMT DEF Tasks
  <2> QED BY Zenon, <1>6, <2>5, <2>6, LeavesJournal DEF ListPending, InDispatch
<1> QED BY <1>3, <1>4, <1>5, <1>6

\* The recovery pass at startup (recover_expired_claims)
LEMMA RecoverSteps ==
  ASSUME SchedulerInv, Recover
  PROVE  IdleStep
<1>1. task \in Tasks /\ task.now \in Nat /\ JournalTypeOK /\ JournalInv
  BY TaskParts DEF SchedulerInv, TypeOK
<1>2. \A pc \in {"recovered", "disabled"} : Enter(pc) \in Tasks /\ Enter(pc).pc = pc
  <2>1. {"recovered", "disabled"} \subseteq Steps
    BY DEF Steps
  <2> QED BY <1>1, <2>1, EnterType
<1>3. PICK batch \in Batches(task.now, RecoveryBatch) :
        IF RecoverAccepted(batch, task.now)
          THEN /\ RecoverClaims(batch, task.now)
               /\ Answers(Enter(IF batch = Expired(task.now) THEN "recovered"
                                                             ELSE "disabled"),
                          Enter("disabled"))
          ELSE /\ task' = Enter("disabled")
               /\ UNCHANGED <<journalVars, spent>>
  BY DEF Recover
<1>4. batch \in SUBSET Occurrences /\ \A o \in batch : InState(o, {"RunLinked"})
  BY DEF Batches, Expired
<1>5. Outside
  BY DEF Recover
<1>6. CASE RecoverAccepted(batch, task.now)
  <2>1. JournalStep
    BY <1>1, <1>3, <1>4, <1>6, RecoverStep
  <2> DEFINE next == IF batch = Expired(task.now) THEN "recovered" ELSE "disabled"
  <2>2. next \in {"recovered", "disabled"}
    OBVIOUS
  <2>3. Answers(Enter(next), Enter("disabled"))
    BY <1>3, <1>6
  <2> HIDE DEF next
  <2> QED BY <1>2, <1>5, <2>1, <2>2, <2>3, Answered DEF InDispatch
<1>7. CASE ~RecoverAccepted(batch, task.now)
  BY <1>2, <1>3, <1>5, <1>7, LeavesJournal DEF InDispatch
<1> QED BY <1>6, <1>7

\* Completing a dispatched run
LEMMA CompleteSteps ==
  ASSUME SchedulerInv, Complete
  PROVE  IdleStep
<1> DEFINE o == task.current.id
<1>1. task \in Tasks /\ clock \in Nat /\ JournalTypeOK /\ JournalInv
  BY DEF SchedulerInv, TypeOK
<1>2. o \in Occurrences /\ task.completion \in Completions
  BY DEF Complete, SchedulerInv, TaskReady, InDispatch, Snapshots
<1>3. AfterDispatch \in Tasks /\ AfterDispatch.pc \notin InDispatch
  BY <1>1, AfterType DEF InDispatch
<1>4. Dispatching(task.bound) \in Tasks /\ Dispatching(task.bound).pc \notin InDispatch
  BY <1>1, TaskParts, DispatchingType DEF InDispatch
<1>5. CASE CompleteAccepted(o, task.current.revision, task.completion, clock)
  <2>1. InState(o, {"RunLinked"}) /\ CompleteRun(o, task.completion, clock)
    BY <1>5 DEF Complete, CompleteAccepted
  <2>2. JournalStep
    <3> HIDE DEF o, Completions
    <3> QED BY <1>1, <1>2, <2>1, CompleteStep
  <2>3. Answers(Dispatching(task.bound), AfterDispatch) /\ Outside
    BY <1>5 DEF Complete
  <2> QED BY <1>3, <1>4, <2>2, <2>3, Answered
<1>6. CASE ~CompleteAccepted(o, task.current.revision, task.completion, clock)
  BY <1>3, <1>6, LeavesJournal DEF Complete
<1> QED BY <1>5, <1>6

\* Claiming a pending occurrence
LEMMA ClaimSteps ==
  ASSUME SchedulerInv, Claim
  PROVE  IdleStep
<1>1. task \in Tasks /\ task.now \in Nat /\ JournalTypeOK /\ JournalInv
  BY TaskParts DEF SchedulerInv, TypeOK
<1>2. PICK w \in task.wanted :
        LET rest == [task EXCEPT !.wanted = @ \ {w}] IN
        IF ClaimAccepted(w.id, w.revision, task.owner, task.fence, task.now)
          THEN ClaimAndBind(w.id, task.now) /\ Answers(rest, SecondDispatch)
          ELSE task' = rest /\ UNCHANGED <<journalVars, spent>>
  BY Zenon DEF Claim
<1>3. task.pc = "pending" /\ Outside
  BY DEF Claim
<1>4. w.id \in Occurrences
  BY <1>1, TaskParts DEF Snapshots
<1> DEFINE left == task.wanted \ {w}
           rest == [task EXCEPT !.wanted = left]
<1>5. left \in SUBSET Snapshots
  BY <1>1, TaskParts
<1>6. IF ClaimAccepted(w.id, w.revision, task.owner, task.fence, task.now)
        THEN ClaimAndBind(w.id, task.now) /\ Answers(rest, SecondDispatch)
        ELSE task' = rest /\ UNCHANGED <<journalVars, spent>>
  BY <1>2
<1> HIDE DEF left
<1>7. rest \in Tasks
  <2> HIDE DEF Steps, Owners, Completions
  <2> QED BY <1>1, <1>5, Zenon DEF Tasks
<1>8. rest.pc = "pending"
  <2> HIDE DEF Steps, Owners, Completions
  <2> QED BY <1>1, <1>3, SMT DEF Tasks
<1> HIDE DEF rest
<1>9. CASE ClaimAccepted(w.id, w.revision, task.owner, task.fence, task.now)
  <2>1. InState(w.id, {"Pending"})
    BY <1>9 DEF ClaimAccepted
  <2>2. JournalStep
    BY <1>1, <1>4, <1>6, <1>9, <2>1, ClaimStep
  <2> QED BY <1>1, <1>3, <1>6, <1>7, <1>8, <1>9, <2>2, AfterType, Answered
          DEF InDispatch
<1>10. CASE ~ClaimAccepted(w.id, w.revision, task.owner, task.fence, task.now)
  BY <1>3, <1>6, <1>7, <1>8, <1>10, LeavesJournal DEF InDispatch
<1> QED BY <1>9, <1>10

\* Evaluating one definition of the page (evaluate_candidate)
LEMMA EvaluateSteps ==
  ASSUME SchedulerInv, Evaluate
  PROVE  IdleStep
<1>1. task \in Tasks /\ JournalTypeOK /\ JournalInv
  BY DEF SchedulerInv, TypeOK
<1>2. task.now \in Nat /\ task.since \in Nat /\ task.seen \in SUBSET Seen
  BY <1>1, TaskParts
<1>3. PICK seen \in task.seen : EvaluateOne(seen)
  BY DEF Evaluate
<1>4. task.pc = "evaluate" /\ Outside
  BY DEF Evaluate
<1>5. seen.id \in Automations /\ seen.updatedAt \in Nat /\ seen.cursor \in Cursors \cup {None}
  BY <1>2 DEF Seen
<1>6. SecondDispatch \in Tasks /\ SecondDispatch.pc \notin InDispatch
  BY <1>1, AfterType DEF InDispatch
<1>7. \A i, m \in BOOLEAN : /\ Evaluated(seen, i, m) \in Tasks
                            /\ Evaluated(seen, i, m).pc \notin InDispatch
  BY <1>1, <1>4, EvaluatedType DEF InDispatch
<1>8. CASE seen.cursor = None
  <2>1. EvaluateNew(seen)
    BY <1>3, <1>8 DEF EvaluateOne
  <2> DEFINE accepted == /\ seen.updatedAt <= task.now
                         /\ EvaluationAccepted(seen.id, seen, task.owner, task.fence,
                                               task.now)
  <2>2. CASE accepted
    <3>1. cursor[seen.id] = None /\ InitializeCursor(seen.id, seen.updatedAt, task.now)
      BY <1>8, <2>1, <2>2 DEF EvaluateNew, EvaluationAccepted
    <3>2. JournalStep
      BY <1>1, <1>2, <1>5, <3>1, InitializeStep
    <3>3. Answers(Evaluated(seen, TRUE, FALSE), SecondDispatch)
      BY Zenon, <2>1, <2>2 DEF EvaluateNew
    <3> QED BY Zenon, <1>4, <1>6, <1>7, <3>2, <3>3, Answered
  <2>3. CASE ~accepted
    BY Zenon, <1>4, <1>6, <2>1, <2>3, LeavesJournal DEF EvaluateNew
  <2> QED BY <2>2, <2>3
<1>9. CASE seen.cursor # None /\ seen.cursor.through = task.now
  <2>1. task' = Evaluated(seen, FALSE, FALSE) /\ UNCHANGED journalVars
    BY <1>3, <1>9 DEF EvaluateOne
  <2>2. task' \in Tasks /\ task'.pc \notin InDispatch
    BY Zenon, <1>7, <2>1
  <2> QED BY <1>4, <2>1, <2>2, LeavesJournal
<1>10. CASE seen.cursor # None /\ seen.cursor.through # task.now
  <2> DEFINE after     == seen.cursor.through
             end       == after + Window
             through   == Min({end, task.now})
             proposals == Proposed(seen.id, after, through, task.since)
             accepted  == /\ after < task.now
                          /\ Cardinality(proposals) <= MaxDecisions
                          /\ EvaluationAccepted(seen.id, seen, task.owner, task.fence,
                                                task.now)
  <2>1. EvaluateWindow(seen)
    BY <1>3, <1>10 DEF EvaluateOne
  <2>2. IF accepted
          THEN /\ AdvanceCursor(seen.id, through, proposals, task.now)
               /\ Answers(Evaluated(seen, FALSE, proposals # {}), SecondDispatch)
          ELSE task' = SecondDispatch /\ UNCHANGED <<journalVars, spent>>
    BY Zenon, <2>1 DEF EvaluateWindow
  <2>3. CASE accepted
    <3>1. seen.cursor \in Cursors /\ cursor[seen.id] = seen.cursor
      BY <1>5, <1>10, <2>3 DEF EvaluationAccepted
    <3>2. after \in Nat /\ end \in Nat /\ after <= end /\ after <= task.now
      BY <1>2, <2>3, <3>1, JournalAssumption DEF Cursors
    <3>3. through \in Nat /\ after <= through
      <4> HIDE DEF after, end
      <4>1. through \in {end, task.now}
        BY <1>2, <3>2, MinOfTwo
      <4> HIDE DEF through
      <4> QED BY <1>2, <3>2, <4>1
    <3>4. AdvanceCursor(seen.id, through,
                        Proposed(seen.id, cursor[seen.id].through, through, task.since),
                        task.now)
      BY <2>2, <2>3, <3>1
    <3>5. cursor[seen.id] # None /\ cursor[seen.id].through <= through
      BY <1>10, <3>1, <3>3
    <3> HIDE DEF through
    <3>6. JournalStep
      BY <1>1, <1>2, <1>5, <3>3, <3>4, <3>5, AdvanceStep
    <3> DEFINE m == proposals # {}
    <3>7. m \in BOOLEAN
      OBVIOUS
    <3>8. Answers(Evaluated(seen, FALSE, m), SecondDispatch)
      BY Zenon, <2>2, <2>3 DEF through
    <3> HIDE DEF m
    <3>9. Evaluated(seen, FALSE, m) \in Tasks /\ Evaluated(seen, FALSE, m).pc \notin InDispatch
      BY Zenon, <1>7, <3>7
    <3> QED BY Zenon, <1>4, <1>6, <3>6, <3>8, <3>9, Answered
  <2>4. CASE ~accepted
    BY Zenon, <1>4, <1>6, <2>2, <2>4, LeavesJournal
  <2> QED BY <2>3, <2>4
<1> QED BY <1>8, <1>9, <1>10

\* Failing store calls, the clock, crashes, shutdown and edits
LEMMA EnvironmentSteps ==
  ASSUME SchedulerInv, Environment
  PROVE  IdleStep
<1>1. task \in Tasks /\ clock \in Nat /\ JournalTypeOK /\ JournalInv
  BY DEF SchedulerInv, TypeOK
<1>2. CASE StoreFails
  <2>1. Enter("disabled") \in Tasks /\ Enter("disabled").pc = "disabled"
    <3>1. "disabled" \in Steps BY DEF Steps
    <3> QED BY <1>1, <3>1, EnterType
  <2>2. ErrorContinuation \in Tasks /\ ErrorContinuation.pc \notin InDispatch
    BY <1>1, <2>1, AfterType DEF ErrorContinuation, InDispatch
  <2> QED BY <1>2, <2>2, LeavesJournal DEF StoreFails
<1>3. CASE Advance \/ Regress
  <2>1. clock' \in Nat
    BY <1>1, <1>3 DEF Advance, Regress
  <2>2. UNCHANGED <<journalVars, task, guestCalls>>
    BY <1>3 DEF Advance, Regress
  <2>3. JournalStep
    BY <1>1, <2>2, QuietStep DEF journalVars, JournalTypeOK
  <2> QED BY <1>1, <2>1, <2>2, <2>3 DEF IdleStep
<1>4. CASE Crash
  BY <1>4, DownType, LeavesJournal DEF Crash, InDispatch
<1>5. CASE Shutdown
  <2>1. CASE task' = Down
    BY Zenon, <1>5, <2>1, DownType, LeavesJournal DEF Shutdown, InDispatch
  <2>2. CASE task' = [task EXCEPT !.stopping = TRUE]
    <3>1. task' \in Tasks
      <4>1. TRUE \in BOOLEAN OBVIOUS
      <4> HIDE DEF Steps, Owners, Completions
      <4> QED BY <1>1, <2>2, <4>1, Zenon DEF Tasks
    <3>2. /\ task'.pc = task.pc /\ task'.current = task.current
          /\ task'.completion = task.completion
      <4> HIDE DEF Steps, Owners, Completions
      <4> QED BY <1>1, <2>2, SMT DEF Tasks
    <3>3. JournalStep
      BY <1>1, <1>5, QuietStep DEF Shutdown, journalVars, JournalTypeOK
    <3> QED BY <1>1, <1>5, <3>1, <3>2, <3>3 DEF IdleStep, Shutdown, Outside
  <2> QED BY <1>5, <2>1, <2>2 DEF Shutdown
<1>6. CASE ArchiveProject
  <2>1. JournalStep
    BY Zenon, <1>1, <1>6, QuietStep DEF ArchiveProject, JournalTypeOK
  <2> QED BY <1>1, <1>6, <2>1 DEF ArchiveProject, IdleStep, Outside
<1>7. ASSUME NEW a \in Automations, EditDefinition(a)
      PROVE  IdleStep
  <2>1. PICK enabled \in BOOLEAN :
          definition' = [definition EXCEPT ![a] =
                           [revision |-> @.revision + 1, enabled |-> enabled,
                            updatedAt |-> clock]]
    BY Zenon, <1>7 DEF EditDefinition
  <2> DEFINE rev == definition[a].revision + 1
             new == [revision |-> rev, enabled |-> enabled, updatedAt |-> clock]
  <2>2. rev \in Nat
    BY <1>1 DEF JournalTypeOK, Definitions
  <2>3. definition' = [definition EXCEPT ![a] = new]
    BY <2>1
  <2> HIDE DEF rev
  <2>4. new \in Definitions
    BY <1>1, <2>2, Zenon DEF Definitions
  <2> HIDE DEF new
  <2>5. definition' \in [Automations -> Definitions]
    BY <1>1, <2>3, <2>4 DEF JournalTypeOK
  <2>6. JournalStep
    BY <1>1, <1>7, <2>5, QuietStep DEF EditDefinition, JournalTypeOK
  <2> QED BY <1>1, <1>7, <2>6 DEF EditDefinition, IdleStep, Outside
<1> QED BY <1>2, <1>3, <1>4, <1>5, <1>6, <1>7 DEF Environment

\* Beginning a run: the only step that makes one ready to be sent, and it does so
\* while the run is durably Queued, hence never sent.
LEMMA BeginSteps ==
  ASSUME SchedulerInv, BeginNext
  PROVE  SchedulerInv'
<1>1. task \in Tasks /\ clock \in Nat /\ JournalTypeOK /\ JournalInv
  BY DEF SchedulerInv, TypeOK
<1>2. Outside
  BY DEF BeginNext
<1>3. PICK b \in task.bound : Begin(b)
  BY DEF BeginNext
<1>4. /\ b \in Snapshots /\ Begun(b) \in Tasks
      /\ Begun(b).pc = "dispatch" /\ Begun(b).current = b
  BY <1>1, BegunType
<1>5. b.id \in Occurrences
  BY <1>4 DEF Snapshots
<1>6. AfterDispatch \in Tasks /\ AfterDispatch.pc \notin InDispatch
  BY <1>1, AfterType DEF InDispatch
<1>7. CASE BeginAccepted(b.id, b.revision, b.runRevision, clock)
  <2>1. BeginRun(b.id, clock) /\ Answers(Begun(b), AfterDispatch)
    BY <1>3, <1>7 DEF Begin
  <2>2. InState(b.id, {"RunLinked"}) /\ Uncalled(b.id)
    BY <1>7 DEF BeginAccepted, Uncalled
  <2>3. JournalStep /\ run'[b.id] # None /\ run'[b.id].state = "Running"
    BY <1>1, <1>5, <2>1, <2>2, BeginStep
  <2>4. CASE task' = AfterDispatch
    <3>1. IdleStep
      BY <1>1, <1>2, <1>6, <2>3, <2>4 DEF IdleStep, Outside
    <3> QED BY <3>1, IdleKeepsInv
  <2>5. CASE task' = Begun(b)
    <3>1. TypeOK' /\ JournalInv'
      BY <1>1, <1>2, <1>4, <2>3, <2>5 DEF SchedulerInv, JournalStep, TypeOK, Outside
    <3>2. TaskReady'
      BY <1>4, <2>5 DEF TaskReady
    <3>3. GuestCalledOnce'
      BY <1>2 DEF SchedulerInv, GuestCalledOnce, Outside
    <3>4. \A o \in Occurrences : Uncalled(o)' => guestCalls'[o] = 0
      BY <1>2, <2>3 DEF SchedulerInv, CallsFollowRun, JournalStep, Outside
    <3>5. guestCalls'[b.id] = 0
      BY <1>2, <1>5, <2>2 DEF SchedulerInv, CallsFollowRun, Outside
    <3>6. ~Uncalled(b.id)'
      BY <2>3 DEF Uncalled
    <3>7. CallsFollowRun'
      BY <1>4, <2>5, <3>4, <3>5, <3>6 DEF CallsFollowRun, Uncalled
    <3> QED BY <3>1, <3>2, <3>3, <3>7 DEF SchedulerInv
  <2> QED BY <2>1, <2>4, <2>5 DEF Answers
<1>8. CASE ~BeginAccepted(b.id, b.revision, b.runRevision, clock)
  <2>1. task' = Dispatching(task.bound \ {b}) /\ UNCHANGED journalVars
    BY <1>3, <1>8 DEF Begin
  <2>2. task' \in Tasks /\ task'.pc = "begin"
    BY <1>1, <2>1, TaskParts, DispatchingType
  <2> QED BY <1>2, <2>1, <2>2, LeavesJournal, IdleKeepsInv DEF InDispatch
<1> QED BY <1>7, <1>8

\* Sending the run, and learning how it ended
LEMMA GuestSteps ==
  ASSUME SchedulerInv, CallGuest \/ CancelledBeforeGuest \/ GuestReturns
  PROVE  SchedulerInv'
<1>1. task \in Tasks /\ clock \in Nat /\ JournalTypeOK /\ JournalInv
  BY DEF SchedulerInv, TypeOK
<1>2. task.pc \in InDispatch /\ UNCHANGED journalVars /\ UNCHANGED clock
  BY DEF CallGuest, CancelledBeforeGuest, GuestReturns, InDispatch, Outside
<1>3. task.current \in Snapshots /\ task.current.id \in Occurrences
  BY <1>2 DEF SchedulerInv, TaskReady, Snapshots
<1>4. JournalTypeOK' /\ JournalInv' /\ \A o \in Occurrences : Uncalled(o)' => Uncalled(o)
  BY <1>1, <1>2, QuietStep DEF journalVars, JournalTypeOK, JournalStep
<1>5. CASE CallGuest
  <2> DEFINE o == task.current.id
             n == guestCalls[o] + 1
  <2>1. ~Uncalled(o) /\ guestCalls[o] = 0
    BY <1>5 DEF SchedulerInv, CallsFollowRun, CallGuest
  <2>2. n = 1
    BY <2>1
  <2>3. guestCalls' = [guestCalls EXCEPT ![o] = n]
    BY <1>5 DEF CallGuest
  <2> HIDE DEF n, o
  <2>4. o \in Occurrences
    BY <1>3 DEF o
  <2>5. guestCalls' = [guestCalls EXCEPT ![o] = 1]
    BY <2>2, <2>3
  <2>6. task' = [task EXCEPT !.pc = "guest"] /\ "guest" \in Steps
    BY <1>5 DEF CallGuest, Steps
  <2>7. task' \in Tasks
    <3> HIDE DEF Steps, Owners, Completions
    <3> QED BY <1>1, <2>6, Zenon DEF Tasks
  <2>8. task'.pc = "guest" /\ task'.current = task.current
    <3> HIDE DEF Steps, Owners, Completions
    <3> QED BY <1>1, <2>6, SMT DEF Tasks
  <2>9. TypeOK'
    BY Zenon, <1>1, <1>2, <1>4, <2>5, <2>7 DEF SchedulerInv, TypeOK
  <2>10. GuestCalledOnce'
    BY <2>4, <2>5 DEF SchedulerInv, TypeOK, GuestCalledOnce
  <2>11. \A p \in Occurrences : Uncalled(p)' => guestCalls'[p] = 0
    BY <1>4, <2>1, <2>5 DEF SchedulerInv, TypeOK, CallsFollowRun
  <2> QED BY <1>3, <1>4, <2>8, <2>9, <2>10, <2>11
      DEF SchedulerInv, TaskReady, CallsFollowRun
<1>6. CASE CancelledBeforeGuest \/ GuestReturns
  <2>1. PICK completion \in Completions : task' = Finishing(completion)
    BY <1>6 DEF CancelledBeforeGuest, GuestReturns
  <2>2. /\ task' \in Tasks /\ task'.pc = "complete"
        /\ task'.completion = completion /\ task'.current = task.current
    <3> HIDE DEF Completions
    <3> QED BY <1>1, <2>1, FinishingType
  <2>3. guestCalls' = guestCalls
    BY <1>6 DEF CancelledBeforeGuest, GuestReturns, Outside
  <2>4. TypeOK'
    BY <1>1, <1>2, <1>4, <2>2, <2>3 DEF SchedulerInv, TypeOK
  <2>5. GuestCalledOnce'
    BY <2>3 DEF SchedulerInv, GuestCalledOnce
  <2>6. \A p \in Occurrences : Uncalled(p)' => guestCalls'[p] = 0
    BY <1>4, <2>3 DEF SchedulerInv, CallsFollowRun
  <2> QED BY <1>3, <1>4, <2>2, <2>4, <2>5, <2>6
      DEF SchedulerInv, TaskReady, CallsFollowRun
<1> QED BY <1>5, <1>6

-----------------------------------------------------------------------------
(* Results *)

\* A new database with a stopped daemon satisfies the invariant.
LEMMA InitHolds == Init => SchedulerInv
<1> SUFFICES ASSUME Init PROVE SchedulerInv
  OBVIOUS
<1>1. task = Down /\ task \in Tasks /\ task.pc = "down"
  BY DownType DEF Init
<1>2. JournalTypeOK
  <2>1. definition \in [Automations -> Definitions]
    BY DEF Init, JournalInit, Definitions
  <2> QED BY <2>1 DEF Init, JournalInit, JournalTypeOK
<1>3. JournalInv
  <2>1. \A o \in Occurrences : occurrence[o] = None /\ run[o] = None
    BY DEF Init, JournalInit
  <2>2. RowsBehindCursor /\ RunsBound /\ RunAgrees
    BY <2>1 DEF RowsBehindCursor, RunsBound, RunAgrees, InState
  <2>3. OneActive
    BY <2>1 DEF OneActive, Of, InState
  <2> QED BY <2>2, <2>3 DEF JournalInv
<1> QED BY <1>1, <1>2, <1>3 DEF Init, SchedulerInv, TypeOK, TaskReady, InDispatch,
                                CallsFollowRun, GuestCalledOnce

\* SchedulerInv is inductive.
LEMMA NextKeepsInv == SchedulerInv /\ [Next]_vars => SchedulerInv'
<1> SUFFICES ASSUME SchedulerInv, [Next]_vars PROVE SchedulerInv'
  OBVIOUS
<1>1. CASE UNCHANGED vars
  <2>1. JournalStep
    BY <1>1, QuietStep DEF vars, journalVars, SchedulerInv, TypeOK, JournalTypeOK
  <2>2. IdleStep
    BY <1>1, <2>1 DEF vars, IdleStep, SchedulerInv, TypeOK
  <2> QED BY <2>2, IdleKeepsInv
<1>2. CASE BeginNext
  BY <1>2, BeginSteps
<1>3. CASE CallGuest \/ CancelledBeforeGuest \/ GuestReturns
  BY <1>3, GuestSteps
<1>4. CASE Boot \/ StartScheduler \/ LoopReady \/ LoopNotReady \/ LoopStops \/ Sleep
             \/ DispatchEnds \/ TickEnds \/ ClaimsEnd
  BY <1>4, EnterSteps, IdleKeepsInv
<1>5. CASE RecoveryLease \/ TickLease \/ ClaimLease
  BY <1>5, LeaseSteps, IdleKeepsInv
<1>6. CASE ListResumable \/ ListCandidates \/ ListOwners \/ ListPending
  BY <1>6, ListSteps, IdleKeepsInv
<1>7. CASE Recover
  BY <1>7, RecoverSteps, IdleKeepsInv
<1>8. CASE Complete
  BY <1>8, CompleteSteps, IdleKeepsInv
<1>9. CASE Evaluate
  BY <1>9, EvaluateSteps, IdleKeepsInv
<1>10. CASE Claim
  BY <1>10, ClaimSteps, IdleKeepsInv
<1>11. CASE Environment
  BY <1>11, EnvironmentSteps, IdleKeepsInv
<1> QED BY <1>1, <1>2, <1>3, <1>4, <1>5, <1>6, <1>7, <1>8, <1>9, <1>10, <1>11
        DEF Next, TaskStep

\* The inductive invariant holds in every state of every scheduler.
THEOREM SchedulerInvariant == Spec => []SchedulerInv
BY InitHolds, NextKeepsInv, PTL DEF Spec

\* Rows, runs, leases, cursors and the task keep their shapes.
THEOREM SchedulerTypes == Spec => []TypeOK
<1>1. SchedulerInv => TypeOK
  BY DEF SchedulerInv
<1> QED BY <1>1, SchedulerInvariant, PTL

\* dispatch_resumable sends an occurrence to the guest at most once, whatever
\* crashes, restarts, failing store calls and clock corrections happen.
THEOREM SentAtMostOnce == Spec => []GuestCalledOnce
<1>1. SchedulerInv => GuestCalledOnce
  BY DEF SchedulerInv
<1> QED BY <1>1, SchedulerInvariant, PTL

\* adjudicate_overlap and promote_queued keep an automation to one active and one
\* queued occurrence, and queue one only behind an active one.
THEOREM OverlapBounded == Spec => []OneActive
<1>1. SchedulerInv => OneActive
  BY DEF SchedulerInv, JournalInv
<1> QED BY <1>1, SchedulerInvariant, PTL

\* An occurrence and its run tell the same outcome after every transaction.
THEOREM OutcomesAgree == Spec => []RunAgrees
<1>1. SchedulerInv => RunAgrees
  BY DEF SchedulerInv, JournalInv
<1> QED BY <1>1, SchedulerInvariant, PTL
=============================================================================
