------------------------- MODULE AutomationAccounts -------------------------
(***************************************************************************)
(* What the scheduler owes its schedule, for every set of definitions,     *)
(* every calendar and policy, and every bound: each slot between the       *)
(* activation of a definition and its cursor is accounted for exactly      *)
(* once.                                                                   *)
(***************************************************************************)
EXTENDS AutomationSchedulerProofs

USE DEF OccurrenceStates, ActiveStates, RunStates, Completions, Owners

-----------------------------------------------------------------------------
(* Counting *)

\* A bounded set of numbers that is not empty has a greatest element.
LEMMA Greatest ==
  ASSUME NEW n \in Nat, NEW S \in SUBSET (0..n), S # {}
  PROVE  \E m \in S : \A s \in S : s <= m
<1> DEFINE R == OpToRel(<, Nat)
           T == {n - s : s \in S}
<1>1. IsWellFoundedOn(R, Nat)
  BY NatLessThanWellFounded
<1>2. T \subseteq Nat /\ T # {}
  <2>1. \A s \in S : n - s \in Nat
    OBVIOUS
  <2>2. PICK s \in S : TRUE
    OBVIOUS
  <2>3. n - s \in T
    OBVIOUS
  <2> QED BY <2>1, <2>3
<1>3. \A x, y \in Nat : y < x => <<y, x>> \in R
  BY DEF OpToRel
<1> HIDE DEF R
<1>4. PICK x \in T : \A y \in T : <<y, x>> \notin R
  <2> HIDE DEF T
  <2> QED BY <1>1, <1>2, WFMin
<1>5. PICK m \in S : x = n - m
  OBVIOUS
<1>6. ASSUME NEW s \in S  PROVE s <= m
  <2>1. n - s \in T /\ n - s \in Nat /\ x \in Nat
    BY <1>2
  <2>2. ~(n - s < x)
    BY <1>3, <1>4, <2>1
  <2> QED BY <1>5, <2>1, <2>2
<1> QED BY <1>6

\* Disjoint finite sets are counted together.
LEMMA CountDisjoint ==
  ASSUME NEW S, NEW T, IsFiniteSet(S), IsFiniteSet(T), S \cap T = {}
  PROVE  /\ IsFiniteSet(S \cup T)
         /\ Cardinality(S \cup T) = Cardinality(S) + Cardinality(T)
<1>1. /\ IsFiniteSet(S \cup T)
      /\ Cardinality(S \cup T) = Cardinality(S) + Cardinality(T) - Cardinality(S \cap T)
  BY FS_Union
<1>2. Cardinality(S \cap T) = 0
  BY FS_EmptySet
<1>3. Cardinality(S) \in Nat /\ Cardinality(T) \in Nat
  BY FS_CardinalityType
<1> QED BY <1>1, <1>2, <1>3

\* A bounded set of numbers is finite.
LEMMA BoundedFinite ==
  ASSUME NEW n \in Nat, NEW S \in SUBSET (0..n)
  PROVE  IsFiniteSet(S) /\ Cardinality(S) \in Nat
<1>1. IsFiniteSet(0..n)
  BY FS_Interval
<1>2. IsFiniteSet(S)
  BY Zenon, <1>1, FS_Subset
<1> QED BY <1>2, FS_CardinalityType

\* One row stands for as many slots as it counts.
LEMMA CountRow ==
  ASSUME NEW o, NEW n \in Nat
  PROVE  IsFiniteSet({o} \X (1..n)) /\ Cardinality({o} \X (1..n)) = n
<1>1. IsFiniteSet({o}) /\ Cardinality({o}) = 1
  BY FS_Singleton
<1>2. IsFiniteSet(1..n) /\ Cardinality(1..n) = n
  BY FS_Interval
<1>3. /\ IsFiniteSet({o} \X (1..n))
      /\ Cardinality({o} \X (1..n)) = Cardinality({o}) * Cardinality(1..n)
  BY <1>1, <1>2, FS_Product
<1> QED BY <1>1, <1>2, <1>3

\* Rows that count one slot each.
LEMMA CountRows ==
  ASSUME NEW a, NEW S, IsFiniteSet(S)
  PROVE  /\ IsFiniteSet(({a} \X S) \X {1})
         /\ Cardinality(({a} \X S) \X {1}) = Cardinality(S)
<1>1. /\ IsFiniteSet({a}) /\ Cardinality({a}) = 1
      /\ IsFiniteSet({1}) /\ Cardinality({1}) = 1 /\ Cardinality(S) \in Nat
  BY FS_Singleton, FS_CardinalityType
<1>2. /\ IsFiniteSet({a} \X S)
      /\ Cardinality({a} \X S) = Cardinality({a}) * Cardinality(S)
  BY <1>1, FS_Product
<1>3. /\ IsFiniteSet(({a} \X S) \X {1})
      /\ Cardinality(({a} \X S) \X {1}) = Cardinality({a} \X S) * Cardinality({1})
  BY <1>1, <1>2, FS_Product
<1> QED BY <1>1, <1>2, <1>3

-----------------------------------------------------------------------------
(* What an evaluation inserts *)

\* The row inserted for a proposal.
LEMMA InsertedRow ==
  ASSUME NEW a \in Automations, NEW proposals \in SUBSET Proposals, NEW now \in Nat,
         \A p, q \in proposals : p.slot = q.slot => p = q,
         NEW p \in proposals, NEW o \in Occurrences, Automation(o) = a, Slot(o) = p.slot
  PROVE  /\ Inserted(a, proposals, now)[o] \in Rows
         /\ Inserted(a, proposals, now)[o].count = p.count
         /\ Inserted(a, proposals, now)[o].updatedAt = now
         /\ Inserted(a, proposals, now)[o].state \notin BoundStates
         /\ Inserted(a, proposals, now)[o].state = "SkippedInvalidLocalTime"
              <=> p.state = "SkippedInvalidLocalTime"
<1> DEFINE q == CHOOSE r \in proposals : r.slot = Slot(o)
           row == NewRow(Adjudicated(a, proposals, p), p.count, now)
<1>1. q \in proposals /\ q.slot = Slot(o)
  OBVIOUS
<1>2. q = p
  <2> HIDE DEF q
  <2> QED BY <1>1
<1>3. Inserted(a, proposals, now)[o] = NewRow(Adjudicated(a, proposals, q), q.count, now)
  BY DEF Inserted
<1>4. Inserted(a, proposals, now)[o] = row
  BY Zenon, <1>2, <1>3
<1>5. p.state \in {"Pending", "SkippedMissed", "SkippedInvalidLocalTime"}
      /\ p.count \in Nat \ {0}
  BY DEF Proposals
<1>6. /\ Adjudicated(a, proposals, p) \in {"Pending", "QueuedOverlap", "SkippedOverlap",
                                            "SkippedMissed", "SkippedInvalidLocalTime"}
      /\ Adjudicated(a, proposals, p) = "SkippedInvalidLocalTime"
           <=> p.state = "SkippedInvalidLocalTime"
  BY <1>5 DEF Adjudicated
<1>7. row \in Rows /\ row.count = p.count /\ row.updatedAt = now
      /\ row.state = Adjudicated(a, proposals, p)
  <2> HIDE DEF q
  <2>1. Adjudicated(a, proposals, p) \in OccurrenceStates
    BY Zenon, AdjudicatedStates
  <2>2. \A state \in OccurrenceStates : \A count \in Nat \ {0} :
          /\ NewRow(state, count, now) \in Rows
          /\ NewRow(state, count, now).count = count
          /\ NewRow(state, count, now).updatedAt = now
          /\ NewRow(state, count, now).state = state
    BY NewRowType DEF NewRow
  <2> QED BY <1>5, <2>1, <2>2
<1> HIDE DEF row
<1> QED BY <1>4, <1>6, <1>7 DEF BoundStates

\* A window splits into the part before a moment and the part after it.
LEMMA SplitWindow ==
  ASSUME NEW S \in SUBSET Nat, NEW x \in Nat, NEW y \in Nat, NEW z \in Nat, x <= y, y <= z
  PROVE  /\ Within(S, x, z) = Within(S, x, y) \cup Within(S, y, z)
         /\ Within(S, x, y) \cap Within(S, y, z) = {}
         /\ Within(S, x, y) \in SUBSET (0..y)
         /\ Within(S, y, z) \in SUBSET (0..z)
<1>0. \A s \in S : s \in Nat
  OBVIOUS
<1>1. ASSUME NEW s \in S
      PROVE  /\ s \in Within(S, x, z) <=> s \in Within(S, x, y) \/ s \in Within(S, y, z)
             /\ ~(s \in Within(S, x, y) /\ s \in Within(S, y, z))
  BY <1>0 DEF Within
<1>2. Within(S, x, y) \subseteq S /\ Within(S, y, z) \subseteq S /\ Within(S, x, z) \subseteq S
  BY DEF Within
<1>3. Within(S, x, y) \in SUBSET (0..y) /\ Within(S, y, z) \in SUBSET (0..z)
  <2>1. \A s \in S : /\ s \in Within(S, x, y) => s \in 0..y
                     /\ s \in Within(S, y, z) => s \in 0..z
    BY <1>0 DEF Within
  <2> QED BY <1>2, <2>1
<1> QED BY <1>1, <1>2, <1>3

\* The due slots of a window before the continuous interval
Missed(a, after, through, since) == {s \in Within(Due[a], after, through) : s < since}

\* and those in it
Timely(a, after, through, since) ==
  Within(Due[a], after, through) \ Missed(a, after, through, since)

\* The proposals of a window: every gap, the last missed slot with the count of
\* them all, every other due slot.
LEMMA ProposalsOf ==
  ASSUME NEW a \in Automations, NEW after \in Nat, NEW through \in Nat, NEW since \in Nat
  PROVE  /\ \A s \in Within(Gaps[a], after, through) :
              \E p \in Proposed(a, after, through, since) :
                p.slot = s /\ p.state = "SkippedInvalidLocalTime"
         /\ \A s \in Missed(a, after, through, since) :
              (\A u \in Missed(a, after, through, since) : u <= s) =>
              \E p \in Proposed(a, after, through, since) :
                /\ p.slot = s /\ p.state # "SkippedInvalidLocalTime"
                /\ p.count = Cardinality(Missed(a, after, through, since))
         /\ \A s \in Timely(a, after, through, since) :
              \E p \in Proposed(a, after, through, since) :
                p.slot = s /\ p.state # "SkippedInvalidLocalTime" /\ p.count = 1
         /\ \A p \in Proposed(a, after, through, since) :
              IF p.state = "SkippedInvalidLocalTime"
                THEN p.slot \in Within(Gaps[a], after, through)
                ELSE \/ p.slot \in Timely(a, after, through, since)
                     \/ /\ p.slot \in Missed(a, after, through, since)
                        /\ \A u \in Missed(a, after, through, since) : u <= p.slot
<1> DEFINE gaps   == Within(Gaps[a], after, through)
           missed == Missed(a, after, through, since)
           current == Timely(a, after, through, since)
           latest == {t \in missed : \A u \in missed : u <= t}
           policy == IF MissedPolicy[a] = "Skip" THEN "SkippedMissed" ELSE "Pending"
           count  == Cardinality(missed)
           absent == {Proposal(s, "SkippedInvalidLocalTime", 1) : s \in gaps}
           lost   == {Proposal(s, policy, count) : s \in latest}
           due    == {Proposal(s, "Pending", 1) : s \in current}
<1>1. Proposed(a, after, through, since) = absent \cup lost \cup due
  BY DEF Proposed, Missed, Timely
<1>2. policy \in {"SkippedMissed", "Pending"}
  OBVIOUS
<1> HIDE DEF policy, count, gaps
<1>3. \A s, state, n : /\ Proposal(s, state, n).slot = s /\ Proposal(s, state, n).state = state
                       /\ Proposal(s, state, n).count = n
  BY DEF Proposal
<1>4. \A s \in gaps : \E p \in absent : p.slot = s /\ p.state = "SkippedInvalidLocalTime"
  <2> TAKE s \in gaps
  <2> WITNESS Proposal(s, "SkippedInvalidLocalTime", 1) \in absent
  <2> QED BY <1>3
<1>5. \A s \in latest : \E p \in lost : /\ p.slot = s /\ p.count = count
                                        /\ p.state # "SkippedInvalidLocalTime"
  <2> TAKE s \in latest
  <2> WITNESS Proposal(s, policy, count) \in lost
  <2> QED BY <1>2, <1>3
<1>6. \A s \in current : \E p \in due : /\ p.slot = s /\ p.count = 1
                                        /\ p.state # "SkippedInvalidLocalTime"
  <2> TAKE s \in current
  <2> WITNESS Proposal(s, "Pending", 1) \in due
  <2> QED BY <1>3
<1>7. /\ \A p \in absent : p.state = "SkippedInvalidLocalTime" /\ p.slot \in gaps
      /\ \A p \in lost : p.state # "SkippedInvalidLocalTime" /\ p.slot \in latest
      /\ \A p \in due : p.state # "SkippedInvalidLocalTime" /\ p.slot \in current
  BY <1>2, <1>3
<1> HIDE DEF absent, lost, due
<1> QED BY <1>1, <1>4, <1>5, <1>6, <1>7 DEF gaps, count

-----------------------------------------------------------------------------
(* The accounts of a definition *)

\* The due slots behind the cursor are counted by the due rows, the gaps behind
\* it are the gap rows.
Accounted(a) ==
  cursor[a] # None =>
    /\ definition[a].updatedAt <= cursor[a].through
    /\ IsFiniteSet(Shares(a))
    /\ Cardinality(Shares(a))
         = Cardinality(Within(Due[a], definition[a].updatedAt, cursor[a].through))
    /\ {Slot(o) : o \in GapRows(a)}
         = Within(Gaps[a], definition[a].updatedAt, cursor[a].through)

\* A row stays, with its count, and is a gap before and after.
RowsKept ==
  \A o \in Occurrences :
    /\ occurrence'[o] # None <=> occurrence[o] # None
    /\ occurrence[o] # None =>
         /\ occurrence'[o].count = occurrence[o].count
         /\ InState(o, {"SkippedInvalidLocalTime"})'
              <=> InState(o, {"SkippedInvalidLocalTime"})

\* The activation of a definition that was evaluated stays, and its cursor.
CursorsKept ==
  \A a \in Automations :
    /\ cursor'[a] = cursor[a]
    /\ cursor[a] # None => definition'[a].updatedAt = definition[a].updatedAt

\* The rows of a definition are named by its slots.
LEMMA RowsOf ==
  ASSUME NEW a \in Automations
  PROVE  /\ \A o \in Of(a) : o = <<a, Slot(o)>> /\ Slot(o) \in Slots(a) /\ o \in Occurrences
         /\ \A s \in Slots(a) : <<a, s>> \in Of(a) /\ Slot(<<a, s>>) = s
         /\ Slots(a) \subseteq Nat
<1>1. \A o \in Of(a) : o = <<a, Slot(o)>> /\ Slot(o) \in Slots(a) /\ o \in Occurrences
  BY OccurrenceParts DEF Of
<1>2. \A s \in Slots(a) : <<a, s>> \in Of(a) /\ Slot(<<a, s>>) = s
  BY DEF Of, Occurrences, Automation, Slot
<1>3. Slots(a) \subseteq Nat
  BY JournalAssumption DEF Slots
<1> QED BY <1>1, <1>2, <1>3

\* What a row counts and whether it is a gap decide the accounts.
LEMMA KeptRows ==
  ASSUME NEW a \in Automations,
         \A o \in Of(a) :
           /\ occurrence'[o] # None <=> occurrence[o] # None
           /\ occurrence[o] # None =>
                /\ occurrence'[o].count = occurrence[o].count
                /\ InState(o, {"SkippedInvalidLocalTime"})'
                     <=> InState(o, {"SkippedInvalidLocalTime"})
  PROVE  Shares(a)' = Shares(a) /\ GapRows(a)' = GapRows(a)
<1>1. \A o : InState(o, {"SkippedInvalidLocalTime"}) => occurrence[o] # None
  BY DEF InState
<1>2. \A o : InState(o, {"SkippedInvalidLocalTime"})' => occurrence'[o] # None
  BY DEF InState
<1>3. GapRows(a)' = GapRows(a)
  BY <1>1, <1>2 DEF GapRows
<1>4. DueRows(a)' = DueRows(a)
  BY <1>3 DEF DueRows
<1>5. \A o \in DueRows(a) : occurrence'[o].count = occurrence[o].count
  BY DEF DueRows
<1>6. Shares(a)' = Shares(a)
  BY Zenon, <1>4, <1>5 DEF Shares
<1> QED BY <1>3, <1>6

\* So a step that keeps rows, activations and cursors keeps the accounts.
LEMMA KeptAccounts ==
  ASSUME RowsKept, CursorsKept, NEW a \in Automations, Accounted(a)
  PROVE  Accounted(a)'
<1>1. Shares(a)' = Shares(a) /\ GapRows(a)' = GapRows(a)
  BY KeptRows, RowsOf DEF RowsKept
<1>2. cursor'[a] = cursor[a]
      /\ (cursor[a] # None => definition'[a].updatedAt = definition[a].updatedAt)
  BY DEF CursorsKept
<1> QED BY <1>1, <1>2 DEF Accounted, Within

\* claim_and_bind_occurrence changes neither the count of a row nor that it is due.
LEMMA BoundFields ==
  ASSUME NEW row \in Rows, NEW now \in Nat
  PROVE  /\ Bound(row, now).state = "RunLinked" /\ Bound(row, now).count = row.count
         /\ Bound(row, now).expiresAt = now + TTL /\ Bound(row, now).updatedAt = now
  BY DEF Bound, Rows

\* finish_linked sets the state and keeps the count.
LEMMA FinishedFields ==
  ASSUME NEW row \in Rows, NEW state, NEW now
  PROVE  /\ Finished(row, state, now).state = state
         /\ Finished(row, state, now).count = row.count
         /\ Finished(row, state, now).updatedAt = now
  BY DEF Finished, Rows

\* promote_queued leaves a row alone, or moves a queued one to pending.
LEMMA PromotedRow ==
  ASSUME NEW rows \in [Occurrences -> Rows \cup {None}], NEW freed, NEW now \in Nat,
         NEW o \in Occurrences
  PROVE  \/ Promoted(rows, freed, now)[o] = rows[o]
         \/ /\ rows[o] \in Rows /\ rows[o].state = "QueuedOverlap"
            /\ Promoted(rows, freed, now)[o] \in Rows
            /\ Promoted(rows, freed, now)[o].state = "Pending"
            /\ Promoted(rows, freed, now)[o].count = rows[o].count
            /\ Promoted(rows, freed, now)[o].updatedAt = now
<1> DEFINE next == [rows[o] EXCEPT !.state = "Pending", !.revision = @ + 1,
                                   !.updatedAt = now]
<1>1. CASE Automation(o) \in freed /\ rows[o] # None /\ rows[o].state = "QueuedOverlap"
  <2>1. rows[o] \in Rows
    BY <1>1
  <2>2. Promoted(rows, freed, now)[o] = next
    BY <1>1 DEF Promoted
  <2>3. next \in Rows
    BY <2>1, PromotedRowType
  <2>4. next.state = "Pending" /\ next.count = rows[o].count /\ next.updatedAt = now
    BY <2>1 DEF Rows
  <2> HIDE DEF next
  <2> QED BY <1>1, <2>1, <2>2, <2>3, <2>4
<1>2. CASE ~(Automation(o) \in freed /\ rows[o] # None /\ rows[o].state = "QueuedOverlap")
  BY <1>2 DEF Promoted
<1> QED BY <1>1, <1>2

\* Rows that were claimed are settled and the rows queued behind them promoted.
Settles(S, now) ==
  \A o \in Occurrences :
    IF o \in S
      THEN /\ occurrence[o] \in Rows /\ occurrence'[o] \in Rows
           /\ occurrence'[o].state \in Completions /\ occurrence'[o].updatedAt = now
           /\ occurrence'[o].count = occurrence[o].count
      ELSE \/ occurrence'[o] = occurrence[o]
           \/ /\ occurrence[o] \in Rows /\ occurrence[o].state = "QueuedOverlap"
              /\ occurrence'[o] \in Rows /\ occurrence'[o].state = "Pending"
              /\ occurrence'[o].count = occurrence[o].count
              /\ occurrence'[o].updatedAt = now

\* Settling rows does not change what they count.
LEMMA SettledRows ==
  ASSUME NEW S, NEW now, Settles(S, now), \A o \in S : InState(o, {"RunLinked"})
  PROVE  RowsKept
<1> SUFFICES ASSUME NEW o \in Occurrences
             PROVE  /\ occurrence'[o] # None <=> occurrence[o] # None
                    /\ occurrence[o] # None =>
                         /\ occurrence'[o].count = occurrence[o].count
                         /\ InState(o, {"SkippedInvalidLocalTime"})'
                              <=> InState(o, {"SkippedInvalidLocalTime"})
  BY DEF RowsKept
<1>1. None \notin Rows
  BY JournalAssumption
<1>2. CASE o \in S
  BY <1>1, <1>2 DEF Settles, InState
<1>3. CASE o \notin S
  BY <1>1, <1>3 DEF Settles, InState
<1> QED BY <1>2, <1>3

\* A transaction that finishes the rows of S and promotes what they freed.
LEMMA FinishSettles ==
  ASSUME JournalTypeOK, NEW S \in SUBSET Occurrences, NEW now \in Nat, NEW freed,
         \A o \in S : InState(o, {"RunLinked"}),
         NEW outcome \in Completions,
         NEW rows,
         rows = [o \in Occurrences |-> IF o \in S THEN Finished(occurrence[o], outcome, now)
                                                  ELSE occurrence[o]],
         occurrence' = Promoted(rows, freed, now)
  PROVE  Settles(S, now)
<1>1. \A o \in S : occurrence[o] \in Rows
  BY DEF JournalTypeOK, InState
<1>2. \A o \in S : /\ rows[o] \in Rows /\ rows[o].state \in Completions
                   /\ rows[o].count = occurrence[o].count /\ rows[o].updatedAt = now
  <2> SUFFICES ASSUME NEW o \in S
               PROVE  /\ Finished(occurrence[o], outcome, now) \in Rows
                      /\ Finished(occurrence[o], outcome, now).state \in Completions
                      /\ Finished(occurrence[o], outcome, now).count = occurrence[o].count
                      /\ Finished(occurrence[o], outcome, now).updatedAt = now
    OBVIOUS
  <2>1. outcome \in Completions /\ outcome \in OccurrenceStates
    OBVIOUS
  <2>2. Finished(occurrence[o], outcome, now) \in Rows
    <3> HIDE DEF OccurrenceStates, Completions
    <3> QED BY <1>1, <2>1, FinishedType
  <2> QED BY <1>1, <2>1, <2>2, FinishedFields
<1>3. \A o \in Occurrences \ S : rows[o] = occurrence[o]
  OBVIOUS
<1>4. rows \in [Occurrences -> Rows \cup {None}]
  BY <1>2 DEF JournalTypeOK
<1>5. SUFFICES ASSUME NEW o \in Occurrences
               PROVE  IF o \in S
      THEN /\ occurrence[o] \in Rows /\ occurrence'[o] \in Rows
           /\ occurrence'[o].state \in Completions /\ occurrence'[o].updatedAt = now
           /\ occurrence'[o].count = occurrence[o].count
      ELSE \/ occurrence'[o] = occurrence[o]
           \/ /\ occurrence[o] \in Rows /\ occurrence[o].state = "QueuedOverlap"
              /\ occurrence'[o] \in Rows /\ occurrence'[o].state = "Pending"
              /\ occurrence'[o].count = occurrence[o].count
              /\ occurrence'[o].updatedAt = now
  BY DEF Settles
<1>6. \/ occurrence'[o] = rows[o]
      \/ /\ rows[o] \in Rows /\ rows[o].state = "QueuedOverlap"
         /\ occurrence'[o] \in Rows /\ occurrence'[o].state = "Pending"
         /\ occurrence'[o].count = rows[o].count /\ occurrence'[o].updatedAt = now
  BY <1>4, PromotedRow
<1>7. CASE o \in S
  BY <1>1, <1>2, <1>6, <1>7
<1>8. CASE o \notin S
  BY <1>3, <1>6, <1>8
<1> QED BY <1>7, <1>8

\* complete_occurrence_run settles one row.
LEMMA CompleteSettles ==
  ASSUME JournalTypeOK, JournalInv, NEW o \in Occurrences, NEW now \in Nat,
         NEW completion \in Completions,
         InState(o, {"RunLinked"}), CompleteRun(o, completion, now)
  PROVE  Settles({o}, now)
<1> DEFINE rows == [p \in Occurrences |-> IF p \in {o} THEN Finished(occurrence[p], completion, now)
                                                       ELSE occurrence[p]]
<1>1. [occurrence EXCEPT ![o] = Finished(@, completion, now)] = rows
  BY DEF JournalTypeOK
<1>2. occurrence' = Promoted(rows, {Automation(o)}, now)
  BY Zenon, <1>1 DEF CompleteRun
<1> QED BY <1>2, FinishSettles

\* recover_claims settles the rows whose runs were sent.
LEMMA RecoverSettles ==
  ASSUME JournalTypeOK, JournalInv, NEW now \in Nat,
         NEW batch \in SUBSET Occurrences, \A o \in batch : InState(o, {"RunLinked"}),
         RecoverClaims(batch, now)
  PROVE  /\ Settles(Stranded(batch), now)
         /\ \A o \in Stranded(batch) :
              /\ o \in Occurrences /\ InState(o, {"RunLinked"})
              /\ run[o] \in Runs /\ run[o].state = "Running"
<1> DEFINE S == Stranded(batch)
           rows == [o \in Occurrences |->
                      IF o \in S THEN Finished(occurrence[o], "InterruptedNeedsReview", now)
                                 ELSE occurrence[o]]
           freed == {Automation(o) : o \in S}
<1>1. S \in SUBSET Occurrences /\ \A o \in S : InState(o, {"RunLinked"})
  BY DEF Stranded
<1>2. ASSUME NEW o \in S  PROVE run[o] \in Runs /\ run[o].state = "Running"
  <2>1. o \in Occurrences /\ InState(o, {"RunLinked"}) /\ o \notin Resumable
    BY <1>1 DEF Stranded
  <2>2. run[o] # None
    BY <2>1 DEF JournalInv, RunsBound, InState, BoundStates
  <2>3. run[o].state \in {"Queued", "Running"}
    BY <2>1, <2>2 DEF JournalInv, RunAgrees
  <2>4. run[o].state # "Queued"
    BY <2>1 DEF Resumable
  <2> QED BY <2>1, <2>2, <2>3, <2>4 DEF JournalTypeOK
<1>3. \A o \in S : OccurrenceOutcome(run[o].state) = "InterruptedNeedsReview"
  BY <1>2 DEF OccurrenceOutcome, RunIsTerminal
<1>4. occurrence' = Promoted(rows, freed, now)
  <2>1. [o \in Occurrences |->
           IF o \in S THEN Finished(occurrence[o], OccurrenceOutcome(run[o].state), now)
                      ELSE occurrence[o]] = rows
    BY Zenon, <1>3
  <2> QED BY <2>1 DEF RecoverClaims
<1>5. Settles(S, now)
  <2> HIDE DEF S, freed
  <2> QED BY <1>1, <1>4, FinishSettles
<1> QED BY <1>1, <1>2, <1>5

\* claim_and_bind_occurrence moves a pending row, and no count.
LEMMA ClaimKeepsRows ==
  ASSUME JournalTypeOK, NEW o \in Occurrences, NEW now \in Nat,
         InState(o, {"Pending"}), ClaimAndBind(o, now)
  PROVE  RowsKept
<1>1. occurrence[o] \in Rows /\ occurrence[o].state = "Pending"
  BY DEF InState, JournalTypeOK
<1>2. /\ occurrence'[o] = Bound(occurrence[o], now)
      /\ \A p \in Occurrences : p # o => occurrence'[p] = occurrence[p]
  BY DEF ClaimAndBind, JournalTypeOK
<1>3. occurrence'[o] \in Rows /\ occurrence'[o].state = "RunLinked"
      /\ occurrence'[o].count = occurrence[o].count
  BY <1>1, <1>2, BoundType, BoundFields
<1>4. None \notin Rows
  BY JournalAssumption
<1> QED BY <1>1, <1>2, <1>3, <1>4 DEF RowsKept, InState

\* The first evaluation starts the accounts of a definition at its activation.
LEMMA InitializeAccounts ==
  ASSUME JournalTypeOK, JournalInv, NEW a \in Automations, cursor[a] = None,
         NEW now \in Nat, InitializeCursor(a, definition[a].updatedAt, now),
         \A b \in Automations : Accounted(b)
  PROVE  \A b \in Automations : Accounted(b)'
<1> SUFFICES ASSUME NEW b \in Automations  PROVE Accounted(b)'
  OBVIOUS
<1> DEFINE at == definition[a].updatedAt
<1>1. /\ UNCHANGED <<definition, occurrence>>
      /\ cursor' = [cursor EXCEPT ![a] = [through |-> at, revision |-> 0, updatedAt |-> now]]
  BY DEF InitializeCursor
<1>2. Shares(b)' = Shares(b) /\ GapRows(b)' = GapRows(b)
  BY <1>1, KeptRows DEF InState
<1>3. CASE b # a
  <2>1. cursor'[b] = cursor[b]
    BY <1>1, <1>3 DEF JournalTypeOK
  <2> QED BY <1>1, <1>2, <2>1 DEF Accounted, Within
<1>4. CASE b = a
  <2>1. cursor'[a].through = at /\ at \in Nat
    BY <1>1 DEF JournalTypeOK, Definitions
  <2>2. \A o \in Of(a) : occurrence[o] = None
    BY DEF JournalInv, RowsBehindCursor, Of
  <2>3. DueRows(a) = {} /\ GapRows(a) = {}
    BY <2>2 DEF DueRows, GapRows, InState
  <2>4. Shares(a) = {}
    BY <2>3 DEF Shares
  <2>5. Within(Due[a], at, at) = {} /\ Within(Gaps[a], at, at) = {}
    BY <2>1, JournalAssumption DEF Within
  <2>6. Shares(a)' = {} /\ GapRows(a)' = {}
    BY Zenon, <1>2, <1>4, <2>3, <2>4
  <2>7. definition'[a].updatedAt = at /\ at <= at
    BY <1>1, <2>1
  <2>8. {Slot(o) : o \in GapRows(a)'} = {}
    BY <2>6
  <2>9. IsFiniteSet({})
    BY FS_EmptySet
  <2> HIDE DEF at
  <2> QED BY <1>4, <2>1, <2>5, <2>6, <2>7, <2>8, <2>9 DEF Accounted
<1> QED BY <1>3, <1>4

\* New due rows add their counts to the shares.
LEMMA GrownShares ==
  ASSUME NEW a \in Automations, NEW Q, Q \cap DueRows(a) = {},
         DueRows(a)' = DueRows(a) \cup Q,
         \A o \in DueRows(a) : occurrence'[o].count = occurrence[o].count,
         NEW new, new = UNION {{o} \X (1..occurrence'[o].count) : o \in Q}
  PROVE  Shares(a)' = Shares(a) \cup new /\ Shares(a) \cap new = {}
<1>1. Shares(a)' = UNION {{o} \X (1..occurrence'[o].count) : o \in DueRows(a) \cup Q}
  BY Zenon DEF Shares
<1>2. Shares(a) = UNION {{o} \X (1..occurrence'[o].count) : o \in DueRows(a)}
  BY Zenon DEF Shares
<1> DEFINE part(o) == {o} \X (1..occurrence'[o].count)
<1>3. \A o, q : o # q => part(o) \cap part(q) = {}
  OBVIOUS
<1> HIDE DEF part
<1>4. Shares(a)' = UNION {part(o) : o \in DueRows(a) \cup Q}
  BY <1>1 DEF part
<1>5. Shares(a) = UNION {part(o) : o \in DueRows(a)}
  BY <1>2 DEF part
<1>6. new = UNION {part(o) : o \in Q}
  BY DEF part
<1>7. Shares(a)' = Shares(a) \cup new
  BY Zenon, <1>4, <1>5, <1>6
<1>8. Shares(a) \cap new = {}
  BY <1>3, <1>5, <1>6
<1> QED BY <1>7, <1>8

\* The rows an evaluation adds for due slots: the last missed one and the timely ones
NewDue(a, missed, m, current) ==
  {<<a, s>> : s \in current} \cup (IF missed = {} THEN {} ELSE {<<a, m>>})

\* The shares of rows with these counts
SharesOf(Q, count) == UNION {{o} \X (1..count[o]) : o \in Q}

\* What new due rows count: one row for the missed slots, one for each other.
LEMMA CountNew ==
  ASSUME NEW a, NEW missed, NEW current, IsFiniteSet(missed), IsFiniteSet(current),
         missed \cap current = {}, NEW m, missed # {} => m \in missed,
         NEW count,
         missed # {} => count[<<a, m>>] = Cardinality(missed),
         \A s \in current : count[<<a, s>>] = 1
  PROVE  /\ IsFiniteSet(SharesOf(NewDue(a, missed, m, current), count))
         /\ Cardinality(SharesOf(NewDue(a, missed, m, current), count))
              = Cardinality(missed) + Cardinality(current)
<1> DEFINE new == SharesOf(NewDue(a, missed, m, current), count)
<1> DEFINE ones == ({a} \X current) \X {1}
           n    == Cardinality(missed)
           row  == {<<a, m>>} \X (1..n)
<1>1. n \in Nat /\ Cardinality(current) \in Nat
  BY FS_CardinalityType
<1>2. IsFiniteSet(ones) /\ Cardinality(ones) = Cardinality(current)
  BY CountRows
<1>3. UNION {{o} \X (1..count[o]) : o \in {<<a, s>> : s \in current}} = ones
  <2>1. \A s \in current : {<<a, s>>} \X (1..count[<<a, s>>]) = {<<a, s>>} \X {1}
    BY 1..1 = {1}
  <2>2. UNION {{<<a, s>>} \X {1} : s \in current} = ones
    OBVIOUS
  <2>3. UNION {{<<a, s>>} \X (1..count[<<a, s>>]) : s \in current}
          = UNION {{<<a, s>>} \X {1} : s \in current}
    BY Zenon, <2>1
  <2>4. UNION {{o} \X (1..count[o]) : o \in {<<a, s>> : s \in current}}
          = UNION {{<<a, s>>} \X (1..count[<<a, s>>]) : s \in current}
    BY Zenon
  <2> QED BY <2>2, <2>3, <2>4
<1>4. CASE missed = {}
  <2>1. new = ones
    BY <1>3, <1>4 DEF SharesOf, NewDue
  <2>2. n = 0
    BY <1>4, FS_EmptySet
  <2> HIDE DEF ones, new
  <2>3. IsFiniteSet(new)
    BY Zenon, <1>2, <2>1
  <2>4. Cardinality(new) = Cardinality(current)
    BY Zenon, <1>2, <2>1
  <2>5. Cardinality(new) = Cardinality(missed) + Cardinality(current)
    BY <1>1, <2>2, <2>4
  <2> QED BY <2>3, <2>5 DEF new
<1>5. CASE missed # {}
  <2>1. new = ones \cup row
    BY <1>3, <1>5 DEF SharesOf, NewDue
  <2>2. IsFiniteSet(row) /\ Cardinality(row) = n
    BY <1>1, CountRow
  <2>3. ones \cap row = {}
    BY <1>5
  <2> HIDE DEF ones, row, n, new
  <2>4. IsFiniteSet(ones \cup row)
        /\ Cardinality(ones \cup row) = Cardinality(ones) + Cardinality(row)
    BY <1>2, <2>2, <2>3, CountDisjoint
  <2>5. IsFiniteSet(new)
    BY Zenon, <2>1, <2>4
  <2>6. Cardinality(new) = Cardinality(current) + n
    BY Zenon, <1>2, <2>1, <2>2, <2>4
  <2>7. Cardinality(new) = Cardinality(missed) + Cardinality(current)
    BY <1>1, <2>6 DEF n
  <2> QED BY <2>5, <2>7 DEF new
<1> QED BY <1>4, <1>5

\* An evaluation accounts for every slot of its window, once.
LEMMA AdvanceAccounts ==
  ASSUME JournalTypeOK, JournalInv, NEW a \in Automations, cursor[a] # None,
         NEW through \in Nat, cursor[a].through <= through,
         NEW since \in Nat, NEW now \in Nat,
         AdvanceCursor(a, through, Proposed(a, cursor[a].through, through, since), now),
         Accounted(a)
  PROVE  Accounted(a)'
<1> DEFINE after == cursor[a].through
           at == definition[a].updatedAt
           proposals == Proposed(a, after, through, since)
           due == Within(Due[a], after, through)
           gaps == Within(Gaps[a], after, through)
           missed == Missed(a, after, through, since)
           current == Timely(a, after, through, since)
<1>1. after \in Nat /\ at \in Nat /\ at <= after /\ after <= through
  BY DEF JournalTypeOK, Cursors, Definitions, Accounted
<1>2. Due[a] \subseteq Nat /\ Gaps[a] \subseteq Nat /\ Due[a] \cap Gaps[a] = {}
      /\ Slots(a) = Due[a] \cup Gaps[a]
  BY JournalAssumption DEF Slots
<1>3. /\ proposals \in SUBSET Proposals
      /\ \A p \in proposals : after < p.slot /\ p.slot <= through /\ p.slot \in Slots(a)
      /\ \A p, q \in proposals : p.slot = q.slot => p = q
  BY <1>1, ProposedShape
<1>4. /\ cursor'[a].through = through /\ cursor'[a] # None
      /\ occurrence' = Inserted(a, proposals, now) /\ definition' = definition
  <2>1. [through |-> through, revision |-> cursor[a].revision + 1, updatedAt |-> now] \in Cursors
    BY DEF JournalTypeOK, Cursors
  <2> QED BY <2>1, JournalAssumption DEF AdvanceCursor, JournalTypeOK
<1>5. /\ due \in SUBSET (0..through) /\ gaps \in SUBSET (0..through)
      /\ missed \in SUBSET (0..through) /\ current \in SUBSET (0..through)
      /\ due \subseteq Slots(a) /\ gaps \subseteq Slots(a) /\ due \cap gaps = {}
  BY <1>2 DEF Within, Missed, Timely
<1>6. /\ IsFiniteSet(due) /\ IsFiniteSet(missed) /\ IsFiniteSet(current)
  BY <1>5, BoundedFinite
<1>7. PICK m : missed # {} => m \in missed /\ \A s \in missed : s <= m
  BY <1>5, Greatest
<1>8. missed \cap current = {} /\ missed \cup current = due
  BY DEF Missed, Timely
<1>9. /\ \A s \in gaps : \E p \in proposals :
           p.slot = s /\ p.state = "SkippedInvalidLocalTime"
      /\ \A s \in missed : (\A u \in missed : u <= s) => \E p \in proposals :
           /\ p.slot = s /\ p.state # "SkippedInvalidLocalTime"
           /\ p.count = Cardinality(missed)
      /\ \A s \in current : \E p \in proposals :
           p.slot = s /\ p.state # "SkippedInvalidLocalTime" /\ p.count = 1
      /\ \A p \in proposals :
           IF p.state = "SkippedInvalidLocalTime" THEN p.slot \in gaps
           ELSE \/ p.slot \in current
                \/ p.slot \in missed /\ \A u \in missed : u <= p.slot
  <2> HIDE DEF after
  <2> QED BY Zenon, <1>1, ProposalsOf
<1> DEFINE Gap(o) == occurrence'[o].state = "SkippedInvalidLocalTime"
<1>10. /\ occurrence' \in [Occurrences -> Rows \cup {None}]
       /\ \A o \in Of(a) : (\A p \in proposals : p.slot # Slot(o)) =>
            occurrence'[o] = occurrence[o]
  <2> HIDE DEF proposals
  <2> QED BY <1>3, <1>4, InsertedRows DEF Of
<1>11. \A p \in proposals : \A o \in Of(a) : Slot(o) = p.slot =>
         /\ occurrence'[o] \in Rows /\ occurrence'[o].count = p.count
         /\ Gap(o) <=> p.state = "SkippedInvalidLocalTime"
  <2> HIDE DEF proposals
  <2> QED BY <1>3, <1>4, InsertedRow DEF Of
<1>12. \A o \in Of(a) : occurrence[o] # None => Slot(o) <= after
  BY DEF JournalInv, RowsBehindCursor, Of, after
<1>13. \A o \in Of(a) : o = <<a, Slot(o)>> /\ Slot(o) \in Slots(a) /\ Slot(o) \in Nat
  BY RowsOf
<1>14. \A s \in Slots(a) : <<a, s>> \in Of(a) /\ Slot(<<a, s>>) = s
  BY RowsOf
<1>15. None \notin Rows
  BY JournalAssumption
<1> HIDE DEF proposals, Gap
<1>16. \A o \in Of(a) : Slot(o) <= after => occurrence'[o] = occurrence[o]
  BY <1>1, <1>3, <1>10, <1>13
<1>17. \A o \in Of(a) : ~(Slot(o) <= after) => occurrence[o] = None
  BY <1>12
<1>18. \A s \in due \cup gaps : s \in Slots(a) /\ s \in Nat /\ ~(s <= after)
  BY <1>1, <1>2, <1>5 DEF Within
<1> HIDE DEF due, gaps, missed, current, after, at
<1>19. {Slot(o) : o \in GapRows(a)'} = {Slot(o) : o \in GapRows(a)} \cup gaps
  <2>1. ASSUME NEW o \in Of(a), Slot(o) <= after
        PROVE  o \in GapRows(a)' <=> o \in GapRows(a)
    BY <1>16, <2>1 DEF GapRows, InState
  <2>2. ASSUME NEW o \in Of(a), ~(Slot(o) <= after)
        PROVE  o \in GapRows(a)' <=> Slot(o) \in gaps
    <3>1. CASE \E p \in proposals : p.slot = Slot(o)
      <4>1. PICK p \in proposals : p.slot = Slot(o)
        BY <3>1
      <4>2. o \in GapRows(a)' <=> p.state = "SkippedInvalidLocalTime"
        BY <1>11, <1>15, <4>1 DEF GapRows, InState, Gap
      <4>3. p.state = "SkippedInvalidLocalTime" => Slot(o) \in gaps
        BY <1>9, <4>1
      <4>4. Slot(o) \in gaps => p.state = "SkippedInvalidLocalTime"
        BY <1>3, <1>9, <4>1
      <4> QED BY <4>2, <4>3, <4>4
    <3>2. CASE \A p \in proposals : p.slot # Slot(o)
      BY <1>9, <1>10, <1>17, <2>2, <3>2 DEF GapRows, InState
    <3> QED BY <3>1, <3>2
  <2>3. \A o \in GapRows(a) : o \in Of(a) /\ Slot(o) <= after
    BY <1>12 DEF GapRows, InState
  <2>4. \A o \in GapRows(a)' : o \in Of(a)
    BY DEF GapRows
  <2>5. \A s \in gaps : <<a, s>> \in Of(a) /\ Slot(<<a, s>>) = s /\ ~(s <= after)
    BY <1>14, <1>18
  <2> QED BY <2>1, <2>2, <2>3, <2>4, <2>5
<1>22. Due[a] \in SUBSET Nat /\ Gaps[a] \in SUBSET Nat
  BY <1>2
<1>20. Within(Gaps[a], at, through) = Within(Gaps[a], at, after) \cup gaps
  BY <1>1, <1>22, SplitWindow DEF gaps
<1>21. /\ Within(Due[a], at, through) = Within(Due[a], at, after) \cup due
       /\ Within(Due[a], at, after) \cap due = {}
       /\ Within(Due[a], at, after) \in SUBSET (0..after)
  <2>1. Within(Due[a], at, through) = Within(Due[a], at, after) \cup due
    BY <1>1, <1>22, SplitWindow DEF due
  <2>2. Within(Due[a], at, after) \cap due = {}
    BY <1>1, <1>22, SplitWindow DEF due
  <2>3. Within(Due[a], at, after) \in SUBSET (0..after)
    BY <1>1, <1>22, SplitWindow
  <2> QED BY <2>1, <2>2, <2>3
<1> DEFINE Q == NewDue(a, missed, m, current)
           count == [o \in Occurrences |-> occurrence'[o].count]
           new == SharesOf(Q, count)
<1>23. \A s \in due : <<a, s>> \in Of(a) /\ Slot(<<a, s>>) = s /\ ~(s <= after)
  BY <1>14, <1>18
<1>24. \A s \in due : s \notin gaps
  BY <1>5
<1>25. \A s \in current : s \in due
  BY <1>8
<1>26. \A s \in missed : s \in due
  BY <1>8
<1>27. Q \subseteq Of(a) /\ \A o \in Q : ~(Slot(o) <= after)
  BY <1>7, <1>23, <1>25, <1>26 DEF NewDue
<1>28. Q \cap DueRows(a) = {}
  BY <1>12, <1>27 DEF DueRows
<1>29. \A o \in DueRows(a) : o \in Of(a) /\ Slot(o) <= after
  BY <1>12 DEF DueRows
<1>30. \A o \in DueRows(a) : occurrence'[o].count = occurrence[o].count
  BY <1>16, <1>29
<1>31. \A s \in current : count[<<a, s>>] = 1 /\ <<a, s>> \in DueRows(a)'
  <2> SUFFICES ASSUME NEW s \in current
               PROVE  count[<<a, s>>] = 1 /\ <<a, s>> \in DueRows(a)'
    OBVIOUS
  <2>1. PICK p \in proposals :
          p.slot = s /\ p.state # "SkippedInvalidLocalTime" /\ p.count = 1
    BY <1>9
  <2>2. PICK o \in Of(a) : o = <<a, s>> /\ Slot(o) = s
    BY <1>23, <1>25
  <2>3. occurrence'[o] \in Rows /\ occurrence'[o].count = 1 /\ ~Gap(o)
    BY <1>11, <2>1, <2>2
  <2>4. o \in DueRows(a)'
    BY <1>15, <2>3 DEF DueRows, GapRows, InState, Gap
  <2> QED BY <2>2, <2>3, <2>4 DEF Of
<1>32. missed # {} => count[<<a, m>>] = Cardinality(missed) /\ <<a, m>> \in DueRows(a)'
  <2> SUFFICES ASSUME missed # {}
               PROVE  count[<<a, m>>] = Cardinality(missed) /\ <<a, m>> \in DueRows(a)'
    OBVIOUS
  <2>1. PICK p \in proposals : /\ p.slot = m /\ p.state # "SkippedInvalidLocalTime"
                               /\ p.count = Cardinality(missed)
    BY <1>7, <1>9
  <2>2. PICK o \in Of(a) : o = <<a, m>> /\ Slot(o) = m
    BY <1>7, <1>23, <1>26
  <2>3. occurrence'[o] \in Rows /\ occurrence'[o].count = Cardinality(missed) /\ ~Gap(o)
    BY <1>11, <2>1, <2>2
  <2>4. o \in DueRows(a)'
    BY <1>15, <2>3 DEF DueRows, GapRows, InState, Gap
  <2> QED BY <2>2, <2>3, <2>4 DEF Of
<1>33. ASSUME NEW o \in Of(a), ~(Slot(o) <= after), o \in DueRows(a)'
       PROVE  o \in Q
  <2>1. PICK p \in proposals : p.slot = Slot(o)
    BY <1>10, <1>17, <1>33 DEF DueRows
  <2>2. p.state # "SkippedInvalidLocalTime"
    BY <1>11, <1>15, <1>33, <2>1 DEF DueRows, GapRows, InState, Gap
  <2>3. \/ Slot(o) \in current
        \/ Slot(o) \in missed /\ \A u \in missed : u <= Slot(o)
    BY <1>9, <2>1, <2>2
  <2>4. Slot(o) \in missed /\ (\A u \in missed : u <= Slot(o)) => Slot(o) = m
    <3>1. \A u \in missed : u \in Nat
      BY <1>18, <1>26
    <3> QED BY <1>7, <3>1
  <2> QED BY <1>13, <2>3, <2>4 DEF NewDue
<1>34. \A o \in Of(a) : Slot(o) <= after => (o \in DueRows(a)' <=> o \in DueRows(a))
  BY <1>16 DEF DueRows, GapRows, InState
<1>35. DueRows(a)' = DueRows(a) \cup Q
  <2>1. \A o \in DueRows(a)' : o \in Of(a)
    BY DEF DueRows
  <2>2. \A o \in Q : o \in DueRows(a)'
    BY <1>31, <1>32 DEF NewDue
  <2> HIDE DEF Q
  <2> QED BY <1>29, <1>33, <1>34, <2>1, <2>2
<1>36. new = UNION {{o} \X (1..occurrence'[o].count) : o \in Q}
  <2>1. \A o \in Q : count[o] = occurrence'[o].count
    BY <1>27 DEF Of
  <2> HIDE DEF Q, count
  <2> QED BY Zenon, <2>1 DEF SharesOf
<1>37. IsFiniteSet(new) /\ Cardinality(new) = Cardinality(missed) + Cardinality(current)
  <2>1. /\ missed # {} => m \in missed
        /\ missed # {} => count[<<a, m>>] = Cardinality(missed)
        /\ \A s \in current : count[<<a, s>>] = 1
    BY <1>7, <1>31, <1>32
  <2> HIDE DEF count
  <2>2. /\ IsFiniteSet(missed) /\ IsFiniteSet(current)
        /\ missed \cap current = {}
    BY Zenon, <1>6, <1>8
  <2>3. /\ IsFiniteSet(SharesOf(NewDue(a, missed, m, current), count))
        /\ Cardinality(SharesOf(NewDue(a, missed, m, current), count))
             = Cardinality(missed) + Cardinality(current)
    BY SMTT(60), <2>1, <2>2, CountNew
  <2> QED BY Zenon, <2>3
<1> HIDE DEF new, Q, count
<1>38. Shares(a)' = Shares(a) \cup new /\ Shares(a) \cap new = {}
  BY <1>28, <1>30, <1>35, <1>36, GrownShares
<1>39. Cardinality(due) = Cardinality(missed) + Cardinality(current)
  BY <1>6, <1>8, CountDisjoint
<1> DEFINE before == Within(Due[a], at, after)
<1>40. IsFiniteSet(before) /\ Cardinality(before) \in Nat
  BY Zenon, <1>1, <1>21, BoundedFinite
<1>41. /\ IsFiniteSet(Shares(a)) /\ Cardinality(Shares(a)) = Cardinality(before)
       /\ {Slot(o) : o \in GapRows(a)} = Within(Gaps[a], at, after)
  BY Zenon DEF Accounted, at, after
<1> HIDE DEF before
<1>42. IsFiniteSet(Shares(a)')
       /\ Cardinality(Shares(a)') = Cardinality(Shares(a)) + Cardinality(new)
  BY <1>37, <1>38, <1>41, CountDisjoint
<1>43. Cardinality(Within(Due[a], at, through)) = Cardinality(before) + Cardinality(due)
  BY <1>6, <1>21, <1>40, CountDisjoint DEF before
<1>44. Cardinality(Shares(a)') = Cardinality(Within(Due[a], at, through))
  BY <1>37, <1>39, <1>41, <1>42, <1>43
<1>45. {Slot(o) : o \in GapRows(a)'} = Within(Gaps[a], at, through)
  BY <1>19, <1>20, <1>41
<1>46. definition'[a].updatedAt = at /\ cursor'[a].through = through /\ at <= through
  BY <1>1, <1>4 DEF at
<1> QED BY <1>42, <1>44, <1>45, <1>46 DEF Accounted

-----------------------------------------------------------------------------
(* The task *)

\* What a new state of the task keeps and forgets
Fresh(t, pc) == t.pc = pc /\ t.owner = task.owner /\ t.now = 0 /\ t.seen = {}

\* A task that is not there
LEMMA DownFields == Down.pc = "down" /\ Down.now = 0 /\ Down.seen = {}
  BY DEF Down

\* A task that starts a pass or a dispatch has read nothing yet.
LEMMA EnterFields ==
  ASSUME NEW pc
  PROVE  Fresh(Enter(pc), pc)
  BY DEF Enter, Down, Fresh

\* So has one that ends a dispatch,
LEMMA AfterFields ==
  /\ Fresh(AfterDispatch, IF task.second \/ task.stopping THEN "sleep" ELSE "tick")
  /\ Fresh(SecondDispatch, "list")
<1>1. Fresh(AfterDispatch, IF task.second \/ task.stopping THEN "sleep" ELSE "tick")
  BY EnterFields DEF AfterDispatch
<1>2. Fresh(SecondDispatch, "list")
  BY DEF SecondDispatch, Enter, Down, Fresh
<1> QED BY <1>1, <1>2

\* goes through one,
LEMMA DispatchFields ==
  ASSUME NEW bound, NEW b
  PROVE  /\ Fresh(Dispatching(bound), "begin")
         /\ Fresh(Begun(b), "dispatch") /\ Begun(b).current = b
<1>1. Fresh(Dispatching(bound), "begin")
  BY DEF Dispatching, Enter, Down, Fresh
<1>2. Fresh(Begun(b), "dispatch") /\ Begun(b).current = b
  BY DEF Begun, Dispatching, Enter, Down, Fresh
<1> QED BY <1>1, <1>2

\* or has just taken the lease.
LEMMA HoldingFields ==
  ASSUME NEW pc, NEW now
  PROVE  /\ Holding(pc, now).pc = pc /\ Holding(pc, now).owner = task.owner
         /\ Holding(pc, now).now = now /\ Holding(pc, now).seen = {}
  BY DEF Holding, Enter, Down

\* A tick also remembers whether it is the first.
LEMMA TickFields ==
  ASSUME NEW t, NEW pc, NEW now, NEW first,
         t = [Holding(pc, now) EXCEPT !.first = first]
  PROVE  t.pc = pc /\ t.owner = task.owner /\ t.now = now /\ t.seen = {}
  BY DEF Holding, Enter, Down

\* What a step within a pass keeps
Goes(t, pc) ==
  /\ t.pc = pc /\ t.owner = task.owner /\ t.now = task.now /\ t.current = task.current

\* A step within a pass changes only what it names.
LEMMA WithinFields ==
  ASSUME task \in Tasks
  PROVE  /\ \A pc : /\ Goes([task EXCEPT !.pc = pc], pc)
                    /\ [task EXCEPT !.pc = pc].seen = task.seen
         /\ \A x : /\ Goes([task EXCEPT !.wanted = x], task.pc)
                   /\ [task EXCEPT !.wanted = x].seen = task.seen
         /\ \A x : /\ Goes([task EXCEPT !.stopping = x], task.pc)
                   /\ [task EXCEPT !.stopping = x].seen = task.seen
         /\ \A pc, x : /\ Goes([task EXCEPT !.pc = pc, !.completion = x], pc)
                       /\ [task EXCEPT !.pc = pc, !.completion = x].seen = task.seen
         /\ \A pc, x : /\ Goes([task EXCEPT !.pc = pc, !.owners = x], pc)
                       /\ [task EXCEPT !.pc = pc, !.owners = x].seen = task.seen
         /\ \A pc, x : /\ Goes([task EXCEPT !.pc = pc, !.seen = x], pc)
                       /\ [task EXCEPT !.pc = pc, !.seen = x].seen = x
         /\ \A x, y : /\ Goes([task EXCEPT !.owners = x, !.wanted = y], task.pc)
                      /\ [task EXCEPT !.owners = x, !.wanted = y].seen = task.seen
         /\ \A x, y, z :
              LET t == [task EXCEPT !.seen = x, !.initialized = y, !.materialized = z]
              IN  Goes(t, task.pc) /\ t.seen = x
<1> HIDE DEF Steps, Owners, Completions
<1> QED BY DEF Tasks, Goes

\* A pass works at the time of its lease, and on definitions it has read.
Remembers == task'.now \in {0, task.now, clock} /\ task'.seen \subseteq task.seen

\* A task that starts afresh remembers nothing.
LEMMA FreshRemembers ==
  ASSUME NEW pc, Fresh(task', pc)
  PROVE  Remembers
  BY DEF Fresh, Remembers

\* dispatch_resumable keeps the time of its pass and reads no definition.
LEMMA DispatchRemembers ==
  ASSUME task \in Tasks,
         ListResumable \/ DispatchEnds \/ BeginNext \/ CancelledBeforeGuest
           \/ CallGuest \/ GuestReturns \/ Complete
  PROVE  Remembers
<1>1. CASE ListResumable
  BY <1>1, DispatchFields, FreshRemembers DEF ListResumable
<1>2. CASE DispatchEnds
  BY <1>2, AfterFields, FreshRemembers DEF DispatchEnds
<1>3. CASE BeginNext
  <2>1. PICK b \in task.bound : Begin(b)
    BY <1>3 DEF BeginNext
  <2>2. task' = Begun(b) \/ task' = AfterDispatch \/ task' = Dispatching(task.bound \ {b})
    BY <2>1 DEF Begin, Answers
  <2> QED BY <2>2, DispatchFields, AfterFields, FreshRemembers
<1>4. CASE CancelledBeforeGuest
  BY <1>4, WithinFields DEF CancelledBeforeGuest, Finishing, Goes, Remembers
<1>5. CASE CallGuest
  BY <1>5, WithinFields DEF CallGuest, Goes, Remembers
<1>6. CASE GuestReturns
  BY <1>6, WithinFields DEF GuestReturns, Finishing, Goes, Remembers
<1>7. CASE Complete
  <2>1. task' = Dispatching(task.bound) \/ task' = AfterDispatch
    BY <1>7 DEF Complete, Answers
  <2> QED BY <2>1, DispatchFields, AfterFields, FreshRemembers
<1> QED BY <1>1, <1>2, <1>3, <1>4, <1>5, <1>6, <1>7

\* Startup and the loop take their time from the clock.
LEMMA LoopRemembers ==
  ASSUME task \in Tasks,
         Boot \/ RecoveryLease \/ Recover \/ StartScheduler
           \/ LoopReady \/ LoopNotReady \/ LoopStops \/ Sleep
  PROVE  Remembers
<1>1. CASE Boot
  <2>1. PICK owner : task' = [Down EXCEPT !.pc = "starting", !.owner = owner]
    BY <1>1 DEF Boot
  <2> QED BY <2>1 DEF Down, Remembers
<1>2. CASE RecoveryLease
  <2>1. task' = Holding("recovering", clock) \/ task' = Enter("disabled")
    BY <1>2 DEF RecoveryLease, Answers
  <2>2. CASE task' = Holding("recovering", clock)
    BY <2>2, HoldingFields DEF Remembers
  <2>3. CASE task' = Enter("disabled")
    BY <2>3, EnterFields, FreshRemembers
  <2> QED BY <2>1, <2>2, <2>3
<1>3. CASE Recover
  <2>1. \E pc : task' = Enter(pc)
    BY <1>3 DEF Recover, Answers
  <2> QED BY <2>1, EnterFields, FreshRemembers
<1>4. CASE StartScheduler \/ LoopReady \/ LoopNotReady \/ Sleep
  <2>1. \E pc : task' = Enter(pc)
    BY <1>4 DEF StartScheduler, LoopReady, LoopNotReady, Sleep
  <2> QED BY <2>1, EnterFields, FreshRemembers
<1>5. CASE LoopStops
  BY <1>5, DownFields DEF LoopStops, Remembers
<1> QED BY <1>1, <1>2, <1>3, <1>4, <1>5

\* execute_due uses up what it has read of the definitions.
LEMMA PassRemembers ==
  ASSUME task \in Tasks,
         TickLease \/ Evaluate \/ TickEnds \/ ClaimLease \/ ListOwners \/ ListPending
           \/ ClaimsEnd \/ Claim
  PROVE  Remembers
<1>1. CASE TickLease
  <2>1. \/ \E first : task' = [Holding("candidates", clock) EXCEPT !.first = first]
        \/ task' = SecondDispatch
    BY Zenon, <1>1 DEF TickLease, Answers
  <2>2. CASE task' = SecondDispatch
    BY <2>2, AfterFields, FreshRemembers
  <2>3. CASE task' # SecondDispatch
    <3>1. PICK first : task' = [Holding("candidates", clock) EXCEPT !.first = first]
      BY <2>1, <2>3
    <3>2. task'.now = clock /\ task'.seen = {}
      BY Zenon, <3>1, TickFields
    <3> QED BY <3>2 DEF Remembers
  <2> QED BY <2>2, <2>3
<1>2. CASE Evaluate
  <2>1. PICK seen \in task.seen : EvaluateOne(seen)
    BY <1>2 DEF Evaluate
  <2>2. \/ \E x, y : task' = Evaluated(seen, x, y)
        \/ task' = SecondDispatch
    BY <2>1 DEF EvaluateOne, EvaluateNew, EvaluateWindow, Answers
  <2>3. \A x, y : /\ Evaluated(seen, x, y).seen = task.seen \ {seen}
                  /\ Evaluated(seen, x, y).now = task.now
    BY WithinFields DEF Evaluated, Goes
  <2> QED BY <2>2, <2>3, AfterFields DEF Fresh, Remembers
<1>3. CASE TickEnds
  <2>1. \E pc : task' = Enter(pc)
    BY <1>3 DEF TickEnds
  <2> QED BY <2>1, EnterFields, FreshRemembers
<1>4. CASE ClaimLease
  <2>1. task' = Holding("owners", clock) \/ task' = SecondDispatch
    BY <1>4 DEF ClaimLease, Answers
  <2>2. CASE task' = Holding("owners", clock)
    BY <2>2, HoldingFields DEF Remembers
  <2>3. CASE task' = SecondDispatch
    BY <2>3, AfterFields, FreshRemembers
  <2> QED BY <2>1, <2>2, <2>3
<1>5. CASE ListOwners
  BY <1>5, WithinFields DEF ListOwners, Goes, Remembers
<1>6. CASE ListPending
  <2>1. PICK a \in task.owners : \E w : task' = [task EXCEPT !.owners = @ \ {a}, !.wanted = w]
    BY <1>6 DEF ListPending
  <2> QED BY <2>1, WithinFields DEF Goes, Remembers
<1>7. CASE ClaimsEnd
  BY <1>7, AfterFields, FreshRemembers DEF ClaimsEnd
<1>8. CASE Claim
  <2>1. \/ \E w : task' = [task EXCEPT !.wanted = @ \ {w}]
        \/ task' = SecondDispatch
    BY <1>8 DEF Claim, Answers
  <2>2. CASE task' = SecondDispatch
    BY <2>2, AfterFields, FreshRemembers
  <2>3. CASE task' # SecondDispatch
    <3>1. PICK x : task' = [task EXCEPT !.wanted = x]
      BY <2>1, <2>3
    <3> QED BY <3>1, WithinFields DEF Goes, Remembers
  <2> QED BY <2>2, <2>3
<1> QED BY <1>1, <1>2, <1>3, <1>4, <1>5, <1>6, <1>7, <1>8

\* Faults, crashes and edits give a pass nothing to remember.
LEMMA EnvironmentRemembers ==
  ASSUME task \in Tasks, Environment
  PROVE  Remembers
<1>1. CASE StoreFails
  <2>1. task' = Enter("disabled") \/ task' = AfterDispatch \/ task' = SecondDispatch
    BY <1>1 DEF StoreFails, ErrorContinuation
  <2> QED BY <2>1, EnterFields, AfterFields, FreshRemembers
<1>2. CASE Crash
  BY <1>2, DownFields DEF Crash, Remembers
<1>3. CASE Shutdown
  <2>1. task' = Down \/ \E x : task' = [task EXCEPT !.stopping = x]
    BY Zenon, <1>3 DEF Shutdown
  <2>2. CASE task' = Down
    BY <2>2, DownFields DEF Remembers
  <2>3. CASE task' # Down
    <3>1. PICK x : task' = [task EXCEPT !.stopping = x]
      BY <2>1, <2>3
    <3> QED BY <3>1, WithinFields DEF Goes, Remembers
  <2> QED BY <2>2, <2>3
<1>4. CASE Advance \/ Regress \/ ArchiveProject \/ \E a \in Automations : EditDefinition(a)
  <2>1. task' = task
    BY <1>4 DEF Advance, Regress, ArchiveProject, EditDefinition
  <2> QED BY <2>1 DEF Remembers
<1> QED BY <1>1, <1>2, <1>3, <1>4 DEF Environment

-----------------------------------------------------------------------------
(* Every slot is accounted for *)

\* What a pass read of a definition is what is stored, unless it was edited since.
SeenSound ==
  \A s \in task.seen :
    /\ s.revision <= definition[s.id].revision
    /\ s.revision = definition[s.id].revision => s.updatedAt = definition[s.id].updatedAt

AccountsInv == SeenSound /\ \A a \in Automations : Accounted(a)

\* A step that touches no row, definition or cursor
LEMMA QuietAccounts ==
  ASSUME UNCHANGED <<definition, cursor, occurrence>>
  PROVE  RowsKept /\ CursorsKept
  BY DEF RowsKept, CursorsKept, InState

\* Only recovery, completion, claims, evaluations and edits write rows, cursors or
\* definitions.
LEMMA QuietSteps ==
  ASSUME \/ Boot \/ StartScheduler \/ LoopReady \/ LoopNotReady \/ LoopStops \/ Sleep
         \/ RecoveryLease \/ TickLease \/ ClaimLease
         \/ ListResumable \/ DispatchEnds \/ BeginNext \/ CancelledBeforeGuest
         \/ CallGuest \/ GuestReturns
         \/ ListCandidates \/ TickEnds \/ ListOwners \/ ListPending \/ ClaimsEnd
         \/ StoreFails \/ Advance \/ Regress \/ Crash \/ Shutdown \/ ArchiveProject
  PROVE  UNCHANGED <<definition, cursor, occurrence>>
<1>1. CASE \/ Boot \/ StartScheduler \/ LoopReady \/ LoopNotReady \/ LoopStops \/ Sleep
  BY <1>1 DEF Boot, StartScheduler, LoopReady, LoopNotReady, LoopStops, Sleep, journalVars
<1>2. CASE RecoveryLease \/ TickLease \/ ClaimLease
  BY <1>2 DEF RecoveryLease, TickLease, ClaimLease, SetLease, journalVars
<1>3. CASE ListResumable \/ DispatchEnds \/ CancelledBeforeGuest \/ CallGuest \/ GuestReturns
  BY <1>3 DEF ListResumable, DispatchEnds, CancelledBeforeGuest, CallGuest, GuestReturns,
              journalVars
<1>4. CASE BeginNext
  BY <1>4 DEF BeginNext, Begin, BeginRun, journalVars
<1>5. CASE ListCandidates \/ TickEnds \/ ListOwners \/ ListPending \/ ClaimsEnd
  BY <1>5 DEF ListCandidates, TickEnds, ListOwners, ListPending, ClaimsEnd, journalVars
<1>6. CASE StoreFails \/ Advance \/ Regress \/ Crash \/ Shutdown \/ ArchiveProject
  BY <1>6 DEF StoreFails, Advance, Regress, Crash, Shutdown, ArchiveProject, journalVars
<1> QED BY <1>1, <1>2, <1>3, <1>4, <1>5, <1>6

\* Claims, completions and recovery keep what rows count.
LEMMA DispatchAccounts ==
  ASSUME SchedulerInv, Recover \/ Complete \/ Claim
  PROVE  RowsKept /\ CursorsKept /\ definition' = definition
<1>1. JournalTypeOK /\ JournalInv /\ task \in Tasks /\ clock \in Nat /\ task.now \in Nat
  BY TaskParts DEF SchedulerInv, TypeOK
<1>2. UNCHANGED <<definition, cursor>>
  BY DEF Recover, RecoverClaims, Complete, CompleteRun, Claim, ClaimAndBind, journalVars
<1>3. CursorsKept
  BY <1>2 DEF CursorsKept
<1>4. occurrence' = occurrence => RowsKept
  BY DEF RowsKept, InState
<1>5. CASE Recover
  <2>1. PICK batch \in Batches(task.now, RecoveryBatch) :
          RecoverClaims(batch, task.now) \/ UNCHANGED journalVars
    BY <1>5 DEF Recover
  <2>2. batch \in SUBSET Occurrences /\ \A o \in batch : InState(o, {"RunLinked"})
    BY DEF Batches, Expired
  <2>3. CASE RecoverClaims(batch, task.now)
    <3>1. /\ Settles(Stranded(batch), task.now)
          /\ \A o \in Stranded(batch) : InState(o, {"RunLinked"})
      BY <1>1, <2>2, <2>3, RecoverSettles
    <3>2. RowsKept
      BY <3>1, SettledRows
    <3> QED BY <1>2, <1>3, <3>2
  <2> QED BY <1>2, <1>3, <1>4, <2>1, <2>3 DEF journalVars
<1>6. CASE Complete
  <2>1. task.current.id \in Occurrences /\ task.completion \in Completions
    BY <1>6 DEF Complete, SchedulerInv, TaskReady, InDispatch, Snapshots
  <2>2. PICK o \in Occurrences : o = task.current.id
    BY <2>1
  <2>3. \/ UNCHANGED journalVars
        \/ InState(o, {"RunLinked"}) /\ CompleteRun(o, task.completion, clock)
    BY <1>6, <2>2 DEF Complete, CompleteAccepted
  <2>4. CASE InState(o, {"RunLinked"}) /\ CompleteRun(o, task.completion, clock)
    <3>1. Settles({o}, clock)
      <4> HIDE DEF Completions
      <4> QED BY <1>1, <2>1, <2>4, CompleteSettles
    <3> QED BY <1>2, <1>3, <2>4, <3>1, SettledRows
  <2> QED BY <1>2, <1>3, <1>4, <2>3, <2>4 DEF journalVars
<1>7. CASE Claim
  <2>1. PICK w \in task.wanted :
          \/ UNCHANGED journalVars
          \/ InState(w.id, {"Pending"}) /\ ClaimAndBind(w.id, task.now)
    BY <1>7 DEF Claim, ClaimAccepted
  <2>2. w.id \in Occurrences
    BY <1>1, TaskParts DEF Snapshots
  <2>3. CASE InState(w.id, {"Pending"}) /\ ClaimAndBind(w.id, task.now)
    BY <1>1, <1>2, <1>3, <2>2, <2>3, ClaimKeepsRows
  <2> QED BY <1>2, <1>3, <1>4, <2>1, <2>3 DEF journalVars
<1> QED BY <1>5, <1>6, <1>7

\* commit_evaluation accounts for what it evaluates: it rechecks the revision of
\* the definition and the cursor that the pass read.
LEMMA EvaluateAccounts ==
  ASSUME SchedulerInv, AccountsInv, Evaluate
  PROVE  definition' = definition /\ \A b \in Automations : Accounted(b)'
<1>1. /\ JournalTypeOK /\ JournalInv /\ task \in Tasks
      /\ task.now \in Nat /\ task.since \in Nat /\ task.seen \in SUBSET Seen
  BY TaskParts DEF SchedulerInv, TypeOK
<1>2. PICK seen \in task.seen : EvaluateOne(seen)
  BY DEF Evaluate
<1>3. seen \in Seen /\ seen.id \in Automations
  BY <1>1 DEF Seen
<1>4. CASE UNCHANGED journalVars
  BY <1>4, QuietAccounts, KeptAccounts DEF journalVars, AccountsInv
<1> DEFINE a == seen.id
           through == Min({seen.cursor.through + Window, task.now})
           proposals == Proposed(a, seen.cursor.through, through, task.since)
<1>5. CASE /\ EvaluationAccepted(a, seen, task.owner, task.fence, task.now)
           /\ seen.cursor = None /\ InitializeCursor(a, seen.updatedAt, task.now)
  <2>1. cursor[a] = None /\ seen.updatedAt = definition[a].updatedAt
    BY <1>5 DEF EvaluationAccepted, AccountsInv, SeenSound
  <2>2. InitializeCursor(a, definition[a].updatedAt, task.now)
    BY <1>5, <2>1
  <2>3. definition' = definition
    BY <1>5 DEF InitializeCursor
  <2> HIDE DEF a
  <2>4. a \in Automations
    BY <1>3 DEF a
  <2> QED BY <1>1, <2>1, <2>2, <2>3, <2>4, InitializeAccounts DEF AccountsInv
<1>6. CASE /\ EvaluationAccepted(a, seen, task.owner, task.fence, task.now)
           /\ seen.cursor # None /\ seen.cursor.through < task.now
           /\ AdvanceCursor(a, through, proposals, task.now)
  <2>1. cursor[a] # None /\ seen.cursor = cursor[a] /\ a \in Automations
    BY <1>3, <1>6 DEF EvaluationAccepted
  <2>2. cursor[a].through \in Nat /\ cursor[a].through + Window \in Nat
    <3>1. cursor[a] \in Cursors
      BY <1>1, <2>1 DEF JournalTypeOK
    <3>2. cursor[a].through \in Nat
      BY <3>1 DEF Cursors
    <3> QED BY <3>2, JournalAssumption
  <2>3. through \in Nat /\ cursor[a].through <= through
    <3>1. PICK x \in Nat : x = cursor[a].through + Window
      BY <2>2
    <3>2. through = Min({x, task.now})
      BY Zenon, <2>1, <3>1
    <3>3. cursor[a].through <= x
      BY <2>2, <3>1, JournalAssumption
    <3>4. cursor[a].through <= task.now
      <4>1. cursor[a].through < task.now
        BY Zenon, <1>6, <2>1
      <4> HIDE DEF a
      <4> QED BY <1>1, <2>2, <4>1
    <3> HIDE DEF a, through
    <3> QED BY <1>1, <2>2, <3>2, <3>3, <3>4, MinOfTwo
  <2>4. AdvanceCursor(a, through, Proposed(a, cursor[a].through, through, task.since), task.now)
    BY <1>6, <2>1
  <2> HIDE DEF a, through, proposals
  <2>5. Accounted(a)'
    <3>1. Accounted(a)
      BY <2>1 DEF AccountsInv
    <3> QED BY Zenon, <1>1, <2>1, <2>3, <2>4, <3>1, AdvanceAccounts
  <2>6. definition' = definition
    BY <2>4 DEF AdvanceCursor
  <2>7. ASSUME NEW b \in Automations, b # a  PROVE Accounted(b)'
    <3>1. cursor'[b] = cursor[b]
      BY <1>1, <2>4, <2>7 DEF AdvanceCursor, JournalTypeOK
    <3>2. \A o \in Of(b) : occurrence'[o] = occurrence[o]
      BY <2>4, <2>7 DEF AdvanceCursor, Inserted, Of
    <3>3. Shares(b)' = Shares(b) /\ GapRows(b)' = GapRows(b)
      BY <3>2, KeptRows DEF InState
    <3> QED BY <2>6, <3>1, <3>3 DEF Accounted, AccountsInv, Within
  <2> QED BY <2>5, <2>6, <2>7
<1>7. \/ UNCHANGED journalVars
      \/ /\ EvaluationAccepted(a, seen, task.owner, task.fence, task.now)
         /\ seen.cursor = None /\ InitializeCursor(a, seen.updatedAt, task.now)
      \/ /\ EvaluationAccepted(a, seen, task.owner, task.fence, task.now)
         /\ seen.cursor # None /\ seen.cursor.through < task.now
         /\ AdvanceCursor(a, through, proposals, task.now)
  <2>1. CASE seen.cursor = None
    BY <1>2, <2>1 DEF EvaluateOne, EvaluateNew
  <2>2. CASE seen.cursor # None /\ seen.cursor.through = task.now
    BY <1>2, <2>2 DEF EvaluateOne
  <2>3. CASE seen.cursor # None /\ seen.cursor.through # task.now
    BY <1>2, <2>3 DEF EvaluateOne, EvaluateWindow
  <2> QED BY <2>1, <2>2, <2>3
<1> HIDE DEF a, through, proposals
<1> QED BY <1>4, <1>5, <1>6, <1>7 DEF journalVars

\* A definition is edited only before its first evaluation (save_automation).
LEMMA EditAccounts ==
  ASSUME JournalTypeOK, NEW a \in Automations, EditDefinition(a)
  PROVE  /\ RowsKept /\ CursorsKept
         /\ \A b \in Automations : b # a => definition'[b] = definition[b]
         /\ definition'[a].revision = definition[a].revision + 1
<1>1. /\ cursor[a] = None /\ UNCHANGED <<cursor, occurrence>>
      /\ \E e : definition' = [definition EXCEPT ![a] =
                  [revision |-> @.revision + 1, enabled |-> e, updatedAt |-> clock]]
  BY DEF EditDefinition
<1>2. /\ \A b \in Automations : b # a => definition'[b] = definition[b]
      /\ definition'[a].revision = definition[a].revision + 1
  BY <1>1 DEF JournalTypeOK
<1>3. RowsKept
  BY <1>1 DEF RowsKept, InState
<1>4. CursorsKept
  BY <1>1, <1>2 DEF CursorsKept
<1> QED BY <1>2, <1>3, <1>4

\* What a pass has read stays sound: it shrinks, and an edit moves the revision.
LEMMA SeenStep ==
  ASSUME SchedulerInv, SeenSound, task'.seen \subseteq task.seen,
         \A b \in Automations :
           \/ definition'[b] = definition[b]
           \/ definition'[b].revision = definition[b].revision + 1
  PROVE  SeenSound'
<1> SUFFICES ASSUME NEW s \in task'.seen
             PROVE  /\ s.revision <= definition'[s.id].revision
                    /\ s.revision = definition'[s.id].revision =>
                         s.updatedAt = definition'[s.id].updatedAt
  BY DEF SeenSound
<1>1. s \in task.seen /\ s \in Seen
  BY TaskParts DEF SchedulerInv, TypeOK
<1>2. /\ s.id \in Automations /\ s.revision \in Nat /\ definition[s.id].revision \in Nat
  BY <1>1 DEF Seen, SchedulerInv, TypeOK, JournalTypeOK, Definitions
<1>3. /\ s.revision <= definition[s.id].revision
      /\ s.revision = definition[s.id].revision => s.updatedAt = definition[s.id].updatedAt
  BY <1>1 DEF SeenSound
<1>4. CASE definition'[s.id] = definition[s.id]
  BY <1>3, <1>4
<1>5. CASE definition'[s.id].revision = definition[s.id].revision + 1
  BY <1>2, <1>3, <1>5
<1> QED BY <1>2, <1>4, <1>5

\* list_automation_schedule_candidates reads what is stored.
LEMMA ListSeen ==
  ASSUME SchedulerInv, ListCandidates
  PROVE  SeenSound'
<1> DEFINE read(a) == [id |-> a, revision |-> definition[a].revision,
                       updatedAt |-> definition[a].updatedAt, cursor |-> cursor[a]]
<1>1. task \in Tasks /\ definition \in [Automations -> Definitions]
  BY DEF SchedulerInv, TypeOK, JournalTypeOK
<1>2. task'.seen = {read(a) : a \in FirstPage}
  <2>1. PICK x : x = {read(a) : a \in FirstPage}
    OBVIOUS
  <2>2. task' = [task EXCEPT !.pc = "evaluate", !.seen = x]
    BY <2>1 DEF ListCandidates
  <2>3. task'.seen = x
    BY <1>1, <2>2, WithinFields
  <2> QED BY Zenon, <2>1, <2>3
<1>3. definition' = definition
  BY DEF ListCandidates, journalVars
<1>4. ASSUME NEW a \in FirstPage
      PROVE  /\ read(a).revision <= definition[read(a).id].revision
             /\ read(a).updatedAt = definition[read(a).id].updatedAt
  <2>1. a \in Automations
    BY DEF FirstPage, Candidates
  <2>2. definition[a].revision \in Nat
    BY <1>1, <2>1 DEF Definitions
  <2> QED BY <2>2
<1> HIDE DEF read
<1> QED BY <1>2, <1>3, <1>4 DEF SeenSound

\* The accounts hold initially, when nothing was evaluated,
LEMMA AccountsInit == Init => AccountsInv
<1> SUFFICES ASSUME Init  PROVE AccountsInv
  OBVIOUS
<1>1. task.seen = {}
  BY DownFields DEF Init
<1>2. \A a \in Automations : cursor[a] = None
  BY DEF Init, JournalInit
<1> QED BY <1>1, <1>2 DEF AccountsInv, SeenSound, Accounted

\* and every step keeps them.
LEMMA AccountsStep == SchedulerInv /\ AccountsInv /\ [Next]_vars => AccountsInv'
<1> SUFFICES ASSUME SchedulerInv, AccountsInv, [Next]_vars  PROVE AccountsInv'
  OBVIOUS
<1>1. JournalTypeOK /\ task \in Tasks /\ SeenSound
  BY DEF SchedulerInv, TypeOK, AccountsInv
<1>2. CASE UNCHANGED vars
  <2>1. RowsKept /\ CursorsKept
    BY <1>2, QuietAccounts DEF vars, journalVars
  <2>2. SeenSound'
    BY <1>1, <1>2 DEF vars, journalVars, SeenSound
  <2> QED BY <2>1, <2>2, KeptAccounts DEF AccountsInv
<1>3. CASE ListCandidates
  <2>1. RowsKept /\ CursorsKept
    BY <1>3, QuietSteps, QuietAccounts
  <2> QED BY <1>3, <2>1, ListSeen, KeptAccounts DEF AccountsInv
<1>4. CASE Evaluate
  <2>1. Remembers
    BY <1>1, <1>4, PassRemembers
  <2> QED BY <1>1, <1>4, <2>1, EvaluateAccounts, SeenStep DEF AccountsInv, Remembers
<1>5. CASE Recover \/ Complete \/ Claim
  <2>1. Remembers
    BY <1>1, <1>5, PassRemembers, LoopRemembers, DispatchRemembers
  <2>2. RowsKept /\ CursorsKept /\ definition' = definition
    BY <1>5, DispatchAccounts
  <2> QED BY <1>1, <2>1, <2>2, SeenStep, KeptAccounts DEF AccountsInv, Remembers
<1>6. ASSUME NEW a \in Automations, EditDefinition(a)  PROVE AccountsInv'
  <2>1. Remembers
    BY <1>1, <1>6, EnvironmentRemembers DEF Environment
  <2>2. /\ RowsKept /\ CursorsKept
        /\ \A b \in Automations : \/ definition'[b] = definition[b]
                                  \/ definition'[b].revision = definition[b].revision + 1
    BY <1>1, <1>6, EditAccounts
  <2> QED BY <1>1, <2>1, <2>2, SeenStep, KeptAccounts DEF AccountsInv, Remembers
<1>7. CASE \/ Boot \/ StartScheduler \/ LoopReady \/ LoopNotReady \/ LoopStops \/ Sleep
           \/ RecoveryLease \/ TickLease \/ ClaimLease
           \/ ListResumable \/ DispatchEnds \/ BeginNext \/ CancelledBeforeGuest
           \/ CallGuest \/ GuestReturns
           \/ TickEnds \/ ListOwners \/ ListPending \/ ClaimsEnd
           \/ StoreFails \/ Advance \/ Regress \/ Crash \/ Shutdown \/ ArchiveProject
  <2>1. Remembers
    BY <1>1, <1>7, PassRemembers, LoopRemembers, DispatchRemembers, EnvironmentRemembers
       DEF Environment
  <2>2. UNCHANGED <<definition, cursor, occurrence>>
    BY <1>7, QuietSteps
  <2>3. RowsKept /\ CursorsKept
    BY <2>2, QuietAccounts
  <2> QED BY <1>1, <2>1, <2>2, <2>3, SeenStep, KeptAccounts DEF AccountsInv, Remembers
<1> QED BY <1>2, <1>3, <1>4, <1>5, <1>6, <1>7 DEF Next, TaskStep, Environment

\* The accounts are an invariant of the scheduler.
THEOREM AccountsHold == Spec => []AccountsInv
BY SchedulerInvariant, AccountsInit, AccountsStep, PTL DEF Spec

\* Every slot between the activation of a definition and its cursor is accounted for
\* exactly once by what materialize_decisions proposes and commit_evaluation stores.
THEOREM SlotsAlwaysAccounted == Spec => []SlotsAccounted
<1>1. AccountsInv => SlotsAccounted
  BY DEF AccountsInv, Accounted, SlotsAccounted, Within
<1> QED BY <1>1, AccountsHold, PTL
=============================================================================
