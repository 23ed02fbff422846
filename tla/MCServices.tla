----------------------------- MODULE MCServices -----------------------------
(***************************************************************************)
(* Small instances of the services beside the conversations: one service   *)
(* at a time, chosen initially.  They share the variables v1..v9.          *)
(***************************************************************************)
EXTENDS Naturals, Sequences, FiniteSets, Absence

CONSTANTS k1, k2, h1, h2, q1, s1, s2, b1, b2, t1,
          Services    \* the services of the run

VARIABLES service, v1, v2, v3, v4, v5, v6, v7, v8, v9

vars == <<service, v1, v2, v3, v4, v5, v6, v7, v8, v9>>

-----------------------------------------------------------------------------
(* The workspace. *)

S == INSTANCE WorkspaceStore
       WITH Projects <- {1, 2}, Threads <- 1..3, Messages <- 1..3, Automations <- {1, 2}

Nothing == [scopes |-> {}, asks |-> 0, reports |-> 0, walks |-> 0, ticks |-> 0,
            setbacks |-> 0, turns |-> 0, cursors |-> 0, crashes |-> 0]

Made(scope, id) == [scope |-> scope, key |-> id, print |-> <<id>>]
Project(t) == S!CreateProject(t, 1, S!NewProject(1, 0), Made("create_project", 1)).tables
Thread(t, id, at) ==
  S!CreateThread(t, id, S!NewThread(1, 1, at), Made("create_thread", id)).tables
Message(t) == S!CreateMessage(t, 1, S!NewMessage(1, 1, 0), Made("create_message", 1)).tables
Automation(t) ==
  S!CreateAutomation(t, 1, S!NewAutomation(1, 1, TRUE, 0), Made("create_automation", 1)).tables

OneThread(t) == Thread(Project(t), 1, 0)

\* A client walks through three threads while they are touched and the clock
\* is set back; commands are replayed, beside each other and after a crash;
\* messages and turns in one thread; an automation, its history and its
\* cursor; the children of a project that is archived.
Paging == [tables |-> Thread(Thread(OneThread(S!EmptyTables), 2, 0), 3, 1), now |-> 1,
  left |-> [Nothing EXCEPT !.scopes = {"update_thread"}, !.asks = 1, !.walks = 1,
                           !.ticks = 1, !.setbacks = 1]]
Replays == [tables |-> Project(S!EmptyTables), now |-> 0,
  left |-> [Nothing EXCEPT !.scopes = {"create_project", "update_project"}, !.asks = 3,
                           !.crashes = 1]]
Conversing == [tables |-> Message(OneThread(S!EmptyTables)), now |-> 0,
  left |-> [Nothing EXCEPT
    !.scopes = {"create_message", "update_message", "delete_message", "archive_thread"},
    !.asks = 2, !.turns = 1]]
Scheduled == [tables |-> Automation(Project(S!EmptyTables)), now |-> 1,
  left |-> [Nothing EXCEPT
    !.scopes = {"create_automation", "update_automation", "archive_automation",
                "archive_project"},
    !.asks = 1, !.reports = 2, !.cursors = 1]]
Tree == [tables |-> OneThread(S!EmptyTables), now |-> 1,
  left |-> [Nothing EXCEPT
    !.scopes = {"create_thread", "archive_project", "update_thread", "create_message"},
    !.asks = 2]]

W == INSTANCE Workspace
       WITH Projects <- {1, 2}, Threads <- 1..3, Messages <- 1..3, Automations <- {1, 2},
            Handlers <- {h1, h2}, Keys <- {k1, k2}, Texts <- {1, 2},
            Scenarios <- [walk |-> Paging, replay |-> Replays, chat |-> Conversing,
                          slots |-> Scheduled, tree |-> Tree],
            tables <- v1, now <- v2, requests <- v3, pager <- v4, left <- v5

-----------------------------------------------------------------------------
(* Privileged operations: two refreshes interrupted by a crash, the clock   *)
(* set back once; a backlog larger than one recovery pass, interrupted      *)
(* again; one refresh that outlives its authority; nothing going wrong.     *)

Interrupted == [crashes |-> 1, setbacks |-> 0, refreshes |-> 2, time |-> 1]
Backlog == [crashes |-> 2, setbacks |-> 0, refreshes |-> 3, time |-> 0]
Expiring == [crashes |-> 1, setbacks |-> 1, refreshes |-> 1, time |-> 2]
Undisturbed == [crashes |-> 0, setbacks |-> 0, refreshes |-> 1, time |-> 0]

P == INSTANCE PrivilegedOperations
       WITH Ids <- {1, 2, 3}, Keys <- {k1, k2}, Prints <- {q1}, Kinds <- {"RunnerHealth"},
            Tasks <- {h1, h2}, MaxTime <- 2, MaxAttempt <- 1, Lifetime <- 1,
            RecoveryLimit <- 1,
            Scenarios <- {Interrupted, Backlog, Expiring, Undisturbed},
            journal <- v1, clock <- v2, tasks <- v3, facts <- v4, daemon <- v5,
            sent <- v6, spent <- v7

-----------------------------------------------------------------------------
(* Backups: two of them to one target, a file of another program, faults.   *)

B == INSTANCE Backups
       WITH Backups <- {b1, b2}, Targets <- {t1},
            Scenarios <- {[writes |-> 1, faults |-> 2, others |-> 1, stops |-> 0],
                          [writes |-> 1, faults |-> 0, others |-> 2, stops |-> 1]},
            live <- v1, files <- v2, staging <- v3, calls <- v4, seen <- v5, left <- v6

-----------------------------------------------------------------------------
(* The managed integration: two releases and one that is not whole.         *)

Files == {"manifest", "required", "extra"}
Bundle(release, files) ==
  [release |-> release, manifest |-> "signed", files |-> files, listed |-> Files]

M == INSTANCE ManagedIntegrations
       WITH Releases <- {1, 2}, Keys <- {k1, k2}, Handlers <- {h1, h2},
            Bundles <- [old |-> Bundle(1, Files), new |-> Bundle(2, Files),
                        torn |-> Bundle(2, {"manifest", "required"})],
            Scenarios <- {[asks |-> 3, stops |-> 1, replacements |-> 1, bundle |-> "old",
                           clock |-> 1, setbacks |-> 0],
                          [asks |-> 1, stops |-> 2, replacements |-> 0, bundle |-> "old",
                           clock |-> 2, setbacks |-> 1]},
            tables <- v1, disk <- v2, daemon <- v3, requests <- v4, now <- v5, left <- v6

-----------------------------------------------------------------------------
(* The API key: configured, enrolled, deleted and refreshed beside turns.   *)

Request(op, key, secret) == [op |-> op, key |-> key, secret |-> secret]
Turn == Request("turn", None, None)
Refresh == Request("refresh", None, None)

K == INSTANCE ApiKeyCredentials
       WITH Keys <- {k1, k2}, Secrets <- {s1, s2},
            Scenarios <-
              {[asks |-> 3, faults |-> 1, stops |-> 0,
                requests |-> {Request("configure", k1, s1), Request("configure", k2, s2),
                              Turn, Refresh}],
               [asks |-> 3, faults |-> 0, stops |-> 1,
                requests |-> {Request("enroll", k1, None), Turn}],
               [asks |-> 3, faults |-> 0, stops |-> 1,
                requests |-> {Request("configure", k1, s1), Request("delete", k1, None), Turn}]},
            vault <- v1, journal <- v2, gates <- v3, requests <- v4, seen <- v5, left <- v6

-----------------------------------------------------------------------------
(* The SuperGrok grant: enrollments cancelled and disconnected; turns that  *)
(* refresh it beside a disconnect or a new enrollment.                      *)

Asks(begin, cancel, disconnect, turn) ==
  [begin |-> begin, cancel |-> cancel, disconnect |-> disconnect, turn |-> turn]
Held == [tokens |-> 1, generation |-> 1, expires |-> 2]
Allowed(grant, flows, asks, faults, stops) ==
  [grant |-> grant, flows |-> flows, asks |-> asks, patience |-> 2, clock |-> 2,
   lifetime |-> 2, margin |-> IF grant = None THEN 0 ELSE 1, faults |-> faults, stops |-> stops]

G == INSTANCE SuperGrokGrants
       WITH Scenarios <- {Allowed(None, 2, Asks(2, 1, 1, 0), 0, 1),
                          Allowed(None, 1, Asks(1, 0, 1, 0), 1, 0),
                          Allowed(Held, 1, Asks(0, 0, 1, 2), 1, 0),
                          Allowed(Held, 1, Asks(1, 0, 0, 2), 0, 0),
                          Allowed(Held, 1, Asks(0, 0, 0, 1), 0, 1)},
            grant <- v1, runtime <- v2, flows <- v3, rail <- v4, gates <- v5,
            requests <- v6, now <- v7, seen <- v8, left <- v9

-----------------------------------------------------------------------------
(* The agent's runtime.  Two callers: a session and its first prompt, and a *)
(* cancellation; two prompts of one session; a shutdown beside a prompt     *)
(* whose agent exits; a permission beside a cancellation; a runtime for     *)
(* signing in; the wrong roots; sessions loaded into a guest.               *)

Says(op) == [op |-> op, session |-> 1, existing |-> FALSE, tools |-> op = "open"]
Loads == [Says("open") EXCEPT !.existing = TRUE, !.tools = FALSE]
Agreed(boundary, open, first, second) ==
  [boundary |-> boundary, rooted |-> boundary = "work", loads |-> TRUE, open |-> open,
   calls |-> [r \in Requests |-> IF r = h1 THEN first ELSE second],
   updates |-> 0, permissions |-> 0, faults |-> 0, exits |-> 0, drops |-> 0, handles |-> 0]

A == INSTANCE AgentRuntime
       WITH Sessions <- {1}, CommandCapacity <- 1, EventCapacity <- 1, HostCapacity <- 1,
            Scenarios <-
              {[Agreed("work", {}, <<Says("open"), Says("prompt")>>, <<Says("cancel")>>)
                  EXCEPT !.handles = 1],
               [Agreed("work", {1}, <<Says("prompt")>>, <<Says("prompt"), Says("cancel")>>)
                  EXCEPT !.updates = 1],
               [Agreed("work", {1}, <<Says("prompt")>>, <<Says("shutdown")>>)
                  EXCEPT !.updates = 1, !.drops = 1, !.exits = 1],
               [Agreed("work", {1}, <<Says("prompt")>>, <<Says("cancel")>>)
                  EXCEPT !.permissions = 1],
               [Agreed("control", {}, <<Says("authenticate"), Says("open")>>, <<>>)
                  EXCEPT !.faults = 1, !.handles = 1],
               [Agreed("control", {}, <<>>, <<>>) EXCEPT !.rooted = TRUE],
               [Agreed("guest", {}, <<Loads, Says("prompt")>>, <<>>) EXCEPT !.loads = FALSE],
               [Agreed("guest", {}, <<Loads, Says("prompt")>>, <<>>)
                  EXCEPT !.faults = 1, !.updates = 1]},
            process <- v1, actor <- v2, queue <- v3, calls <- v4, streams <- v5,
            tables <- v6, agent <- v7, permissions <- v8, left <- v9

-----------------------------------------------------------------------------
(* One response of the provider, in whatever chunks it arrives.             *)

X == INSTANCE ProviderStream
       WITH Scenarios <-
              {[types |-> {"created", "delta", "completed", "failed", "end marker"},
                events |-> 3, burst |-> 2, faults |-> 1],
               [types |-> {"delta", "other", "done completed", "error", "end marker"},
                events |-> 3, burst |-> 3, faults |-> 0],
               [types |-> {"annotation", "annotations", "incomplete", "done incomplete"},
                events |-> 2, burst |-> 2, faults |-> 1]},
            phase <- v1, chunk <- v2, decoder <- v3, terminal <- v4, items <- v5,
            sent <- v6, left <- v7

-----------------------------------------------------------------------------
(* The endpoint of the Host Tools: shut down or dropped while the agent      *)
(* initializes it and calls tools, over HTTP and over the socket.           *)

Sends(peer, head, method, id) == [peer |-> peer, head |-> head, method |-> method, id |-> id]
Fine(method) == Sends("known", "authorised", method, TRUE)
Serves(transport, conns, ending) ==
  [transport |-> transport, conns |-> conns, ending |-> ending,
   faults |-> 0, cancels |-> 0, expiries |-> 0]

E == INSTANCE ToolEndpoint
       WITH Scenarios <-
              {[Serves("http", <<Fine("initialize"), Fine("call"),
                                 Sends("known", "authorised", "call", FALSE)>>, "shutdown")
                  EXCEPT !.expiries = 1],
               [Serves("socket", <<Fine("initialize"), Fine("call")>>, "shutdown")
                  EXCEPT !.faults = 1, !.expiries = 1],
               [Serves("socket", <<Sends("other", "authorised", "call", TRUE),
                                   Sends("known", "malformed", "call", TRUE),
                                   Fine("initialize")>>, "drop")
                  EXCEPT !.cancels = 1],
               [Serves("http", <<Sends("known", "unauthorised", "call", TRUE),
                                 Sends("known", "malformed", "call", TRUE),
                                 Sends("known", "authorised", "plain", FALSE)>>, "shutdown")
                  EXCEPT !.expiries = 1]},
            loop <- v1, cancelled <- v2, conns <- v3, flag <- v4, owner <- v5, left <- v6

-----------------------------------------------------------------------------
(* The Host Tools: two writers of one file; a reader beside a writer and    *)
(* the user; a program with a child that is interrupted; refused paths.     *)

Tool(op, path, content, limit) == [op |-> op, path |-> path, content |-> content, limit |-> limit]
Old == <<"old">>
One == <<"x1", "x2">>
Two == <<"y1", "y2">>
Works(first, second) ==
  [roots |-> [a |-> "enrolled", b |-> "denied", c |-> "outside"],
   files |-> [a |-> 1, b |-> 2, c |-> 0], inodes |-> <<Old, Old>>, texts |-> {Old, One, Two},
   calls |-> [r \in Requests |-> IF r = h1 THEN first ELSE second],
   faults |-> 0, interrupts |-> 0, blocks |-> 0, forks |-> 0, edits |-> 0]

T == INSTANCE HostTools
       WITH Paths <- {"a", "b", "c"}, MaxRead <- 3, MaxWrite <- 2, MaxOutput <- 2,
            Scenarios <-
              {[Works(<<Tool("write", "a", One, 0)>>, <<Tool("write", "a", Two, 0)>>)
                  EXCEPT !.faults = 1, !.edits = 1],
               [Works(<<Tool("write", "a", One, 0)>>, <<Tool("read", "a", <<>>, 2)>>)
                  EXCEPT !.edits = 2],
               [Works(<<Tool("execute", "a", <<>>, 1)>>, <<>>)
                  EXCEPT !.faults = 1, !.interrupts = 1, !.blocks = 3, !.forks = 1],
               Works(<<Tool("read", "b", <<>>, 1), Tool("execute", "a", <<>>, 0),
                       Tool("read", "a", <<>>, 4)>>,
                     <<Tool("write", "c", Old, 0), Tool("write", "a", One \o Two, 0),
                       Tool("execute", "c", <<>>, 1)>>)},
            files <- v1, inodes <- v2, calls <- v3, programs <- v4, outputs <- v5, left <- v6

-----------------------------------------------------------------------------
(* The calendar: days of four ticks around the end of a month and of a week; *)
(* gaps of one or two ticks, also across midnight, and folds that do not    *)
(* take the clock back over a midnight it had passed.                       *)

Zones ==
  {[at |-> t, before |-> 4, after |-> 4 + g] : t \in 9..12, g \in {1, 2}} \cup
  {[at |-> t, before |-> 5, after |-> 4] : t \in {8, 11}} \cup
  {[at |-> t, before |-> 6, after |-> 4] : t \in {8, 10}}
Cadence(every, on) == [every |-> every, on |-> on]
Schedules == [cadence : {Cadence("day", 0), Cadence("weekday", 0), Cadence("week", 6),
                         Cadence("month", 31)}, time : {0, 1, 3}]
Windows ==
  [form : {"window"}, schedule : Schedules, zone : Zones, after : {1, 6, 8, 9, 10, 11, 13},
   through : {9, 11, 14, 17}, limit : {1, 4}]
Nexts == [form : {"next"}, schedule : Schedules, zone : Zones, after : {1, 6, 9, 11}]

Number(value, digits) == [value |-> value, digits |-> digits]
Written ==
  [form : {"canonical", "json", "cron"}, every : {"day", "weekday"}, on : {Number(0, 1)},
   hour : {Number(8, 1), Number(8, 2), Number(24, 2)},
   minute : {Number(9, 1), Number(9, 2), Number(60, 2)}, zone : {"same", "other", "unknown"}] \cup
  [form : {"canonical", "json", "cron"}, every : {"week", "month"},
   on : {Number(0, 1), Number(6, 1), Number(6, 2), Number(7, 1), Number(31, 2), Number(32, 2)},
   hour : {Number(8, 1), Number(8, 2)}, minute : {Number(9, 1), Number(9, 2)}, zone : {"same"}]

D == INSTANCE ScheduleCalendar
       WITH DayLength <- 4, LastTick <- 30, MaxWindow <- 3, MaxDecisions <- 8,
            Weekday <- [d \in 0..9 |-> (d + 4) % 7],
            MonthDay <- [d \in 0..9 |-> IF d < 2 THEN d + 30 ELSE d - 1],
            Questions <- Windows \cup Nexts, Texts <- Written,
            question <- v1, answer <- v2

-----------------------------------------------------------------------------
(* The model of new chats: two selections and a look at the catalogue, the  *)
(* catalogue changing in between.                                           *)

Model(id, aliases, kind) == [id |-> id, aliases |-> aliases, kind |-> kind]
Choice(model, expected, key) ==
  [op |-> "select", model |-> model, expected |-> expected, key |-> key]
Look == [op |-> "catalog"]
Listed == <<Model("m1", <<"latest">>, "text"), Model("m2", <<>>, "media")>>
Moved == <<Model("m1", <<>>, "text"), Model("m3", <<"latest">>, "text")>>
Unclear == <<Model("m1", <<"latest">>, "text"), Model("m3", <<"latest">>, "text")>>

C == INSTANCE ChatModels
       WITH Keys <- {k1, k2}, Default <- "latest",
            Scenarios <-
              {[requests |-> {Choice("latest", 0, k1), Choice("m1", 0, k2), Choice("m2", 0, k1)},
                catalogues |-> {Listed, Moved, Unclear}, asks |-> 3, faults |-> 1, stops |-> 1,
                ticks |-> 0, setbacks |-> 0, clock |-> 1],
               [requests |-> {Choice("latest", 0, k1), Choice("m1", 1, k2), Look},
                catalogues |-> {Listed, Moved}, asks |-> 3, faults |-> 0, stops |-> 0,
                ticks |-> 1, setbacks |-> 1, clock |-> 1]},
            setting <- v1, requests <- v2, now <- v3, seen <- v4, left <- v5

-----------------------------------------------------------------------------
(* The agent's home: nothing there yet; what others put there.              *)

Nowhere == [content |-> "none", links |-> 0]
Found(home, config, forbidden) ==
  [directories |-> [home |-> home, os |-> "absent"],
   files |-> [config |-> config, requirements |-> Nowhere], forbidden |-> forbidden,
   attempts |-> 3, faults |-> 1, kills |-> 1, others |-> 1, torn |-> FALSE]

O == INSTANCE GrokHome
       WITH Scenarios <-
              {Found("absent", Nowhere, FALSE), Found("open", Nowhere, TRUE),
               Found("link", Nowhere, FALSE),
               Found("private", [content |-> "other", links |-> 1], FALSE),
               Found("private", [content |-> "longer", links |-> 1], FALSE)},
            directories <- v1, files <- v2, lock <- v3, attempts <- v4, left <- v5

-----------------------------------------------------------------------------
Init ==
  /\ service \in Services
  /\ \/ service = "privileged" /\ P!Init /\ v8 = None /\ v9 = None
     \/ service = "workspace" /\ W!Init /\ v6 = None /\ v7 = None /\ v8 = None /\ v9 = None
     \/ service = "backups" /\ B!Init /\ v7 = None /\ v8 = None /\ v9 = None
     \/ service = "managed" /\ M!Init /\ v7 = None /\ v8 = None /\ v9 = None
     \/ service = "apikey" /\ K!Init /\ v7 = None /\ v8 = None /\ v9 = None
     \/ service = "supergrok" /\ G!Init
     \/ service = "agent" /\ A!Init
     \/ service = "provider" /\ X!Init /\ v8 = None /\ v9 = None
     \/ service = "endpoint" /\ E!Init /\ v7 = None /\ v8 = None /\ v9 = None
     \/ service = "tools" /\ T!Init /\ v7 = None /\ v8 = None /\ v9 = None
     \/ service = "models" /\ C!Init /\ v6 = None /\ v7 = None /\ v8 = None /\ v9 = None
     \/ service = "home" /\ O!Init /\ v6 = None /\ v7 = None /\ v8 = None /\ v9 = None
     \/ service = "calendar" /\ D!Init /\ v3 = None /\ v4 = None /\ v5 = None /\ v6 = None
        /\ v7 = None /\ v8 = None /\ v9 = None

Next ==
  /\ UNCHANGED service
  /\ \/ service = "privileged" /\ P!Next /\ UNCHANGED <<v8, v9>>
     \/ service = "workspace" /\ W!Next /\ UNCHANGED <<v6, v7, v8, v9>>
     \/ service = "backups" /\ B!Next /\ UNCHANGED <<v7, v8, v9>>
     \/ service = "managed" /\ M!Next /\ UNCHANGED <<v7, v8, v9>>
     \/ service = "apikey" /\ K!Next /\ UNCHANGED <<v7, v8, v9>>
     \/ service = "supergrok" /\ G!Next
     \/ service = "agent" /\ A!Next
     \/ service = "provider" /\ X!Next /\ UNCHANGED <<v8, v9>>
     \/ service = "endpoint" /\ E!Next /\ UNCHANGED <<v7, v8, v9>>
     \/ service = "tools" /\ T!Next /\ UNCHANGED <<v7, v8, v9>>
     \/ service = "models" /\ C!Next /\ UNCHANGED <<v6, v7, v8, v9>>
     \/ service = "home" /\ O!Next /\ UNCHANGED <<v6, v7, v8, v9>>
     \/ service = "calendar" /\ D!Next /\ UNCHANGED <<v3, v4, v5, v6, v7, v8, v9>>

\* The fair steps of the services: what each of two requests does next, what
\* a daemon that starts does next, and clocks.  (One condition serves several
\* services: only one of them runs.)
RequestStep(r) ==
  /\ UNCHANGED service
  /\ \/ service = "apikey" /\ K!Proceed(r) /\ UNCHANGED <<v7, v8, v9>>
     \/ service = "supergrok" /\ G!RequestStep(r)
     \/ service = "agent" /\ A!CallerStep(r)
     \/ service = "privileged" /\ r = h1 /\ P!StartRecovery /\ UNCHANGED <<v8, v9>>
     \/ service = "privileged" /\ r = h2 /\ P!RecoverNext /\ UNCHANGED <<v8, v9>>

StartStep ==
  /\ UNCHANGED service
  /\ \/ service = "managed" /\ M!Start(v6.bundle) /\ UNCHANGED <<v7, v8, v9>>
     \/ service = "privileged" /\ P!RecoveryDone /\ UNCHANGED <<v8, v9>>
     \/ service = "supergrok" /\ G!Tick
     \/ service = "agent" /\ A!ActorStep

FlowStep(g) ==
  /\ UNCHANGED service
  /\ \/ service = "supergrok" /\ g \in DOMAIN v3 /\ G!Advance(g)
     \/ service = "agent" /\ g = 1 /\ A!ReadStep
     \/ service = "agent" /\ g = 2 /\ A!ExitNoticed
     \/ service = "managed" /\ g = 1 /\ M!Recovery /\ UNCHANGED <<v7, v8, v9>>
     \/ service = "managed" /\ g = 2 /\ M!Tick /\ UNCHANGED <<v7, v8, v9>>

Fairness ==
  /\ WF_vars(StartStep)
  /\ \A r \in {h1, h2} : WF_vars(RequestStep(r))
  /\ \A g \in 1..2 : WF_vars(FlowStep(g))

Spec == Init /\ [][Next]_vars /\ Fairness

-----------------------------------------------------------------------------
(* Properties: each is that of the modules it names. *)

\* The guest is called at most once for a key, whatever refreshes share it and
\* whatever restarts come between (PrivilegedOperations).
CalledOncePerKey == service = "privileged" => P!CalledOncePerKey

\* What is visible of a backup was verified and is the database of one moment;
\* one that was refused or failed never shows; no file of another program is
\* replaced or removed (Backups).
BackupsSound == service = "backups" => B!BackupsSound


\* The readiness marker is set only for a key that resolved models, a stored
\* binding names the command its key was collected for, and no command opens
\* the native prompt twice (ApiKeyCredentials).
CredentialsSound == service = "apikey" => K!CredentialsSound

\* New chats use the SuperGrok rail exactly when there is a grant, a refresh
\* token is given to the provider once unless its answer was lost, and what a
\* turn sends under a lease has the stored generation (SuperGrokGrants).
GrantsSound == service = "supergrok" => G!GrantsSound


\* Every call of the guest is in the journal before it is made, and the
\* daemon serves only when the calls of its predecessor are settled
\* (PrivilegedOperations).
CallsAccounted ==
  [][service = "privileged" => P!CallIsJournalled /\ P!ServingIsRecovered]_vars

\* ADR 0003: what the guest is known to have answered becomes a durable
\* outcome of the operation when the refresh ends (PrivilegedOperations).
KnownOutcomesDurable ==
  [][service = "privileged" => P!KnownOutcomeDurable]_vars

\* Commands are answered once, pages miss nothing that stood still, and no
\* write reaches into what is archived (Workspace).
WorkspaceSound ==
  /\ [](service = "workspace" => W!WorkspaceSound)
  /\ [][service = "workspace" => W!WritesRespectParents]_vars

\* A request that waits for its answer.
Unanswered(r) ==
  \/ service = "apikey" /\ K!Asked(r)
  \/ service = "supergrok" /\ G!Asked(r)
  \/ service = "agent" /\ A!Asked(r)

Halted ==
  \/ service = "privileged" /\ P!Stopped
  \/ service = "managed" /\ M!Restartable
  \/ service = "supergrok" /\ G!Waiting
  \/ service = "agent" /\ A!Ending

Resumed ==
  \/ service = "privileged" /\ P!Serving
  \/ service = "managed" /\ (M!Serving \/ M!Torn)
  \/ service = "supergrok" /\ ~G!Waiting
  \/ service = "agent" /\ A!Ended

\* Every request of the credential services and of the agent's runtime is
\* answered; a daemon that stopped serves again once its journals are
\* recovered; an enrollment ends; and a runtime that ends leaves no process.
ServicesSettle ==
  /\ \A r \in {h1, h2} : Unanswered(r) ~> ~Unanswered(r)
  /\ Halted ~> Resumed
=============================================================================
