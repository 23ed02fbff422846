------------------------------ MODULE MCStores ------------------------------
(***************************************************************************)
(* The two implementations of the store ports, the encrypted database and  *)
(* the in-memory store, given the same calls: one domain at a time, chosen *)
(* initially.                                                              *)
(***************************************************************************)
EXTENDS Integers, FiniteSets, SequencesExt

CONSTANTS None, a1, a2, o1, x1, x2, q1, q2, p1, t1, k0, k1, k2, k3,
          w1, w2, c1, c2, r1, r2, r3,
          Domains     \* the ports of the run

VARIABLES domain,
          tables,   \* the encrypted database
          maps,     \* the in-memory store
          agreed    \* both answered the last call alike

vars == <<domain, tables, maps, agreed>>

-----------------------------------------------------------------------------
(* Ports and the calls made to each.                                       *)

\* A file of the first import belongs to the project only, of the second to
\* a thread of it too.
A == INSTANCE ArtifactJournal
       WITH Imports <- {a1, a2}, Opens <- {o1}, Removals <- {x1, x2},
            Prints <- {q1, q2}, Sizes <- 1..2,
            ProjectOf <- [a \in {a1, a2} |-> p1],
            OwnersOf <- [a \in {a1, a2} |-> IF a = a1 THEN {p1} ELSE {p1, t1}],
            MaxFile <- 2, MaxCount <- 2, MaxProject <- 2, MaxGlobal <- 2

\* Forks of forks at the limits of depth, children, family, aliases, inherited
\* outcomes and metadata, by both measures.
T == INSTANCE ThreadStore
       WITH Threads <- 1..4, Messages <- 1..12, Turns <- 1..2,
            MaxForkDepth <- 2, MaxChildren <- 1, MaxFamily <- 3, MaxAliases <- 1,
            MaxContext <- 3, MaxRetries <- 1, MaxOutcomes <- 1, MaxBytes <- 4,
            ThreadBytes <- [title \in 0..1 |-> 1], OutcomeBytes <- <<1, 2>>,
            StoredBytes <- <<1, 5>>

\* Install, update and roll back between two releases.
M == INSTANCE ManagedStore WITH Releases <- {1, 2}, Keys <- {k1, k2, k3}
ManagedCalls == M!Calls(3)

\* The host policy, the preferences and the commands that change the vault.
S == INSTANCE SettingsStore WITH Keys <- {k1, k2}
SettingsCalls == S!Calls({q1, q2}, 2)

\* One kind that may be dispatched again and one that may not.
P == INSTANCE PrivilegedJournal
       WITH Ids <- {1, 2}, Keys <- {k1, k2}, Prints <- {q1},
            Kinds <- {"RunnerHealth", "CatalogApply"}, MaxTime <- 2, MaxAttempt <- 1
PrivilegedCalls == P!Calls({1})

Slotted(slot, state, count) == [slot |-> slot, state |-> state, count |-> count]
Evaluated(key, through, observed, proposals) ==
  [key |-> key, through |-> through, observed |-> observed, proposals |-> proposals]

\* Two slots of one automation that runs missed slots once and queues one
\* overlap: evaluations in and out of order, of a slot, of two, of a missed
\* one, and ahead of the clock; two lease owners, two claims per occurrence.
Q == INSTANCE SchedulerStore
       WITH Automations <- {1}, Due <- <<{1, 2}>>, Gaps <- <<{}>>,
            MissedPolicy <- <<"RunOnce">>, OverlapPolicy <- <<"QueueOne">>,
            Keys <- {c1, c2}, Runs <- {r1, r2, r3}, TTL <- 2, MaxAttempts <- 2,
            LeaseTimes <- {0, 2}, ClaimTimes <- {2, 3}, RunTimes <- {3},
            RecoveryTimes <- {3, 4}, Owners <- {w1, w2},
            RunOf <- [c \in {c1, c2} |-> IF c = c1 THEN r1 ELSE r2], OtherRun <- r3,
            Evaluations <-
              {Evaluated(c1, 0, 0, <<>>),
               Evaluated(c2, 2, 2, <<Slotted(1, "Pending", 1), Slotted(2, "Pending", 1)>>),
               Evaluated(c2, 2, 2, <<Slotted(2, "Pending", 1), Slotted(1, "Pending", 1)>>),
               Evaluated(c2, 2, 2, <<Slotted(2, "Pending", 2)>>),
               Evaluated(c2, 2, 2, <<Slotted(1, "SkippedMissed", 1)>>),
               Evaluated(c1, 1, 2, <<Slotted(1, "Pending", 1)>>),
               Evaluated(c2, 1, 2, <<Slotted(2, "Pending", 1)>>),
               Evaluated(c2, 2, 0, <<>>)}

\* Two automations that skip, one of them with a slot in a gap of the local
\* clock.
G == INSTANCE SchedulerStore
       WITH Automations <- {1, 2}, Due <- <<{1, 2}, {}>>, Gaps <- <<{3}, {}>>,
            MissedPolicy <- <<"Skip", "Skip">>, OverlapPolicy <- <<"Skip", "Skip">>,
            Keys <- {c1, c2}, Runs <- {r1, r2, r3}, TTL <- 2, MaxAttempts <- 1,
            LeaseTimes <- {0, 3}, ClaimTimes <- {3}, RunTimes <- {3},
            RecoveryTimes <- {4}, Owners <- {w1},
            RunOf <- [c \in {c1, c2} |-> IF c = c1 THEN r1 ELSE r2], OtherRun <- r3,
            Evaluations <-
              {Evaluated(c1, 0, 0, <<>>),
               Evaluated(c2, 3, 3, <<Slotted(1, "Pending", 1), Slotted(2, "Pending", 1),
                                     Slotted(3, "SkippedInvalidLocalTime", 1)>>),
               Evaluated(c2, 2, 3, <<Slotted(2, "SkippedMissed", 2)>>),
               Evaluated(c2, 3, 3, <<Slotted(1, "Pending", 2)>>),
               Evaluated(c2, 3, 3, <<Slotted(1, "Pending", 1), Slotted(3, "Pending", 1)>>),
               Evaluated(c2, 1, 3, <<Slotted(1, "Pending", 1)>>)}

\* Runs, approvals and effects with their events and commands.
E == INSTANCE ExecutionTables
       WITH Runs <- {1, 2}, Approvals <- {1, 2}, Effects <- {1},
            Keys <- {k1, k2}, Times <- {1, 2}, MaxEvents <- 3

\* The workspace from nothing, from a thread with a message, and from an
\* automation.
W == INSTANCE WorkspaceStore
       WITH Projects <- {1, 2}, Threads <- {1, 2}, Messages <- 1..3, Automations <- {1, 2}
WorkspaceCalls == W!Calls({k1, k2}, {1, 2}, {1})
Made(table) ==
  [op |-> "create", table |-> table, id |-> 1, key |-> k0, text |-> 1, at |-> 1]
Setups ==
  {<<>>, <<Made("projects"), Made("threads"), Made("messages")>>,
   <<Made("projects"), Made("automations")>>}

-----------------------------------------------------------------------------

InitialStores ==
  CASE domain = "artifacts" -> {<<A!EmptyTables, A!EmptyMaps>>}
    [] domain = "threads" ->
         {<<T!WithThread(T!Empty, 0, 1), T!MapsOf(T!WithThread(T!Empty, 0, 1))>>}
    [] domain = "managed" -> {<<M!EmptyTables, M!EmptyTables>>}
    [] domain \in S!Settings -> {<<S!NoSettings, S!NoMemSettings(domain = "policy")>>}
    [] domain = "vault" -> {<<S!NoCommands, S!NoCommands>>}
    [] domain = "privileged" -> {<<P!EmptyTables, P!EmptyMaps>>}
    [] domain = "scheduler" -> {<<Q!EmptyTables, Q!EmptyMaps>>}
    [] domain = "skips" -> {<<G!EmptyTables, G!EmptyMaps>>}
    [] domain = "execution" -> {<<E!EmptyTables, E!EmptyTables>>}
    [] domain = "workspace" ->
         {<<FoldLeft(LAMBDA t, c : W!OnTables(t, c).tables, W!EmptyTables, setup),
            FoldLeft(LAMBDA m, c : W!OnMaps(m, c).tables, W!EmptyMaps, setup)>> :
            setup \in Setups}

Init ==
  /\ domain \in Domains
  /\ \E stores \in InitialStores : tables = stores[1] /\ maps = stores[2]
  /\ agreed = TRUE

\* One call, made to both stores.  A call that changes nothing and is
\* answered alike needs no step; bounded limits how far a run goes.
Both(x, y, same, bounded) ==
  /\ agreed' = (same /\ (x.tables = tables) = (y.tables = maps))
  /\ (x.tables # tables /\ bounded) \/ ~agreed'
  /\ tables' = x.tables
  /\ maps' = y.tables
  /\ UNCHANGED domain

Artifacts ==
  /\ domain = "artifacts"
  /\ \E c \in A!Calls : \E x \in {A!OnTables(tables, c)}, y \in {A!OnMaps(maps, c)} :
       Both(x, y, A!Same(x.answer, y.answer), TRUE)

Threads ==
  /\ domain = "threads"
  /\ \E c \in T!Calls(tables, {k1, k2}, q1, q2) :
       \E x \in {T!OnTables(tables, c)}, y \in {T!OnMaps(maps, c)} :
         Both(x, y, T!Alike(tables, c, x.answer, y.answer), TRUE)

Managed ==
  /\ domain = "managed"
  /\ \E c \in ManagedCalls : \E x \in {M!OnTables(tables, c)}, y \in {M!OnMaps(maps, c)} :
       Both(x, y, M!Same(x.answer, y.answer), M!RevisionOf(x.tables.lifecycle) <= 3)

Settings ==
  \E c \in SettingsCalls :
    /\ domain = c.setting
    /\ \E x \in {S!OnTables(tables, c)}, y \in {S!OnMaps(maps, c)} :
         Both(x, y, S!Same(x.answer, y.answer),
              domain = "vault" => Cardinality(DOMAIN x.tables) <= 2)

Privileged ==
  /\ domain = "privileged"
  /\ \E c \in PrivilegedCalls : \E x \in {P!OnTables(tables, c)}, y \in {P!OnMaps(maps, c)} :
       Both(x, y, P!Same(x.answer, y.answer), TRUE)

Scheduler ==
  /\ domain = "scheduler"
  /\ \E c \in Q!Calls : \E x \in {Q!OnTables(tables, c)}, y \in {Q!OnMaps(maps, c)} :
       Both(x, y, Q!Same(x.answer, y.answer), Q!Bounded(x.tables))

Skips ==
  /\ domain = "skips"
  /\ \E c \in G!Calls : \E x \in {G!OnTables(tables, c)}, y \in {G!OnMaps(maps, c)} :
       Both(x, y, G!Same(x.answer, y.answer), G!Bounded(x.tables))

Execution ==
  /\ domain = "execution"
  /\ \E c \in E!Calls : \E x \in {E!OnTables(tables, c)}, y \in {E!OnMaps(maps, c)} :
       Both(x, y, E!Same(x.answer, y.answer), E!Bounded(x.tables))

Workspace ==
  /\ domain = "workspace"
  /\ \E c \in WorkspaceCalls : \E x \in {W!OnTables(tables, c)}, y \in {W!OnMaps(maps, c)} :
       Both(x, y, W!Same(x.answer, y.answer),
            Cardinality({r \in x.tables.commands : r.key # k0}) <= 2)

Next ==
  \/ Artifacts \/ Threads \/ Managed \/ Settings
  \/ Privileged \/ Scheduler \/ Skips \/ Execution \/ Workspace

Spec == Init /\ [][Next]_vars

Symmetry == Permutations({k1, k2})

\* The artifact, conversation, managed-integration and settings stores of the
\* database and those in memory hold the same records and answer every call
\* alike, after any sequence of calls (the exceptions are named in the modules
\* instantiated); the lifecycle of the integration stays sound under any.
StoresAgree ==
  /\ agreed
  /\ domain = "artifacts" => A!Agree(tables, maps)
  /\ domain = "threads" => T!Agree(tables, maps)
  /\ domain = "managed" => tables = maps /\ M!LifecycleSound(tables)
  /\ domain \in S!Settings \cup {"vault"} => S!Agree(domain, tables, maps)

\* The privileged journal, the scheduler's journal, the execution records and
\* the workspace of the database and those in memory hold the same records and
\* answer every call alike, after any sequence of calls (the exceptions are
\* named in the modules instantiated). They stay sound under any such
\* sequence: rows load again, attempts are numbered without a gap and closed
\* in order, no authority or claim is used twice, an active occurrence is
\* alone, events are numbered without a gap.
JournalsAgree ==
  /\ agreed
  /\ domain = "privileged" => P!Agree(tables, maps) /\ P!JournalSound(tables)
  /\ domain = "scheduler" => Q!Agree(tables, maps) /\ Q!JournalSound(tables)
  /\ domain = "skips" => G!Agree(tables, maps) /\ G!JournalSound(tables)
  /\ domain = "execution" => tables = maps /\ E!EventsSound(tables)
  /\ domain = "workspace" => W!Agree(tables, maps)
=============================================================================
