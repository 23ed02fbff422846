-------------------------- MODULE ApiKeyCredentials --------------------------
(***************************************************************************)
(* The xAI API key in the operating-system vault: CredentialService and    *)
(* CredentialEnrollmentService, with the requests of the daemon, the turns *)
(* that use the key, a vault and a database that can fail, and a daemon    *)
(* that can stop between any two writes.                                   *)
(*                                                                         *)
(* The vault has three entries: the key, the binding that names the        *)
(* enrollment the key came from, and the marker that says the key can      *)
(* resolve models.  They are written one at a time.  The gate is the       *)
(* service's RwLock: a turn or a refresh reads under it, a change of the   *)
(* key writes under it.                                                    *)
(***************************************************************************)
EXTENDS Sequences, Absence, CredentialJournal

CONSTANTS Secrets,    \* API keys
          Scenarios   \* the requests a user may make and how much may go wrong

VARIABLES vault,      \* [key, binding, marker]
          journal,    \* credential_commands
          gates,      \* [readers, writer, enrolling]: credential_use_gate, enrollment_lock
          requests,   \* Requests -> None or the request in progress
          seen,       \* history: [resolving, collected, prompts]
          left        \* what the scenario still allows

vars == <<vault, journal, gates, requests, seen, left>>

OpenGates == [readers |-> {}, writer |-> None, enrolling |-> None]

Init ==
  /\ left \in Scenarios
  /\ vault = [key |-> None, binding |-> None, marker |-> "absent"]
  /\ journal = NoCommands
  /\ gates = OpenGates
  /\ requests = [r \in Requests |-> None]
  /\ seen = [resolving |-> {}, collected |-> [c \in Commands |-> {}],
             prompts |-> [k \in Keys |-> 0]]

-----------------------------------------------------------------------------
(* Requests.  A request is [op, key, secret, at, ...]; its command is what   *)
(* the journal knows it by.                                                  *)

CommandOf(q) == <<q.op, q.key>>
\* Only a configured key is part of the fingerprint.
PrintOf(q) == IF q.op = "configure" THEN q.secret ELSE None

\* What a client may ask for.
Askable ==
  [op : {"configure"}, key : Keys, secret : Secrets]
  \cup [op : {"enroll", "delete"}, key : Keys, secret : {None}]
  \cup [op : {"refresh", "turn"}, key : {None}, secret : {None}]

Starts == [configure |-> "resolve", enroll |-> "resolve", delete |-> "change",
           refresh |-> "lease", turn |-> "lease"]

Ask(r) ==
  /\ requests[r] = None /\ left.asks > 0
  /\ \E a \in Askable \cap left.requests :
       requests' = [requests EXCEPT ![r] =
         [op |-> a.op, key |-> a.key, secret |-> a.secret, at |-> Starts[a.op],
          binding |-> None, todo |-> <<>>, outcome |-> None]]
  /\ left' = [left EXCEPT !.asks = @ - 1]
  /\ UNCHANGED <<vault, journal, gates, seen>>

\* A request ends and lets go of what it held.
Mine(r) ==
  [readers |-> gates.readers \ {r},
   writer |-> IF gates.writer = r THEN None ELSE gates.writer,
   enrolling |-> IF gates.enrolling = r THEN None ELSE gates.enrolling]
Answer(r) == requests' = [requests EXCEPT ![r] = None] /\ gates' = Mine(r)

Goes(r, at) == requests' = [requests EXCEPT ![r].at = at]

At(r, at) == requests[r] # None /\ requests[r].at = at
Op(r) == requests[r].op

\* A completed command answers before anything else happens.
Resolve(r) ==
  /\ At(r, "resolve")
  /\ \E found \in {ResolveCredential(journal, CommandOf(requests[r]), PrintOf(requests[r]))} :
       IF IsError(found) \/ found.is = "Completed" THEN Answer(r)
       ELSE /\ Goes(r, IF Op(r) = "enroll" THEN "enter" ELSE "validate")
            /\ UNCHANGED gates
  /\ UNCHANGED <<vault, journal, seen, left>>

\* enroll_xai_api_key under the enrollment lock: a command that was reserved
\* before is reconciled, never prompted for again.
Enter(r) ==
  /\ At(r, "enter") /\ gates.enrolling = None
  /\ \E begun \in {BeginCredential(journal, CommandOf(requests[r]), None)} :
       /\ journal' = begun.tables
       /\ IF begun.answer.is = "Completed" THEN Answer(r)
          ELSE /\ gates' = [gates EXCEPT !.enrolling = r]
               /\ Goes(r, IF begun.answer.is = "Pending" THEN "reconcile" ELSE "prompt")
  /\ UNCHANGED <<vault, seen, left>>

\* The key s was given for command c.
Collected(c, s) == [seen.collected EXCEPT ![c] = @ \cup {s}]

\* The native prompt: the person enters a key, or dismisses it.
Prompt(r) ==
  /\ At(r, "prompt")
  /\ \/ \E s \in Secrets :
          /\ requests' = [requests EXCEPT ![r].at = "validate", ![r].secret = s]
          /\ seen' = [seen EXCEPT !.prompts[requests[r].key] = @ + 1,
                                  !.collected = Collected(CommandOf(requests[r]), s)]
          /\ UNCHANGED gates
     \/ /\ Answer(r)
        /\ seen' = [seen EXCEPT !.prompts[requests[r].key] = @ + 1]
  /\ UNCHANGED <<vault, journal, left>>

\* Writes of the vault.
Marks(is) == [entry |-> "marker", is |-> is]
Binds(binding) == [entry |-> "binding", is |-> binding]
Keeps(secret) == [entry |-> "key", is |-> secret]

\* xAI says whether the key resolves models, or rejects it.
Validate(r) ==
  /\ At(r, "validate")
  /\ \/ \E resolves \in BOOLEAN :
          /\ requests' = [requests EXCEPT
               ![r].at = IF Op(r) = "refresh" THEN "write" ELSE "change",
               ![r].outcome = [configured |-> TRUE, resolved |-> resolves],
               ![r].todo = IF Op(r) = "refresh"
                             THEN <<Marks(IF resolves THEN "on" ELSE "off")>>
                             ELSE @]
          /\ seen' = [seen EXCEPT
               !.resolving = IF resolves THEN @ \cup {requests[r].secret} ELSE @,
               !.collected = IF Op(r) = "configure"
                               THEN Collected(CommandOf(requests[r]), requests[r].secret)
                               ELSE @]
          /\ UNCHANGED gates
     \/ IF Op(r) = "refresh"
          THEN /\ requests' = [requests EXCEPT ![r].at = "write",
                                 ![r].todo = <<Marks("off")>>]
               /\ UNCHANGED <<gates, seen>>
          ELSE Answer(r) /\ UNCHANGED seen
  /\ UNCHANGED <<vault, journal, left>>

-----------------------------------------------------------------------------
(* Changing the key. *)

\* Mutant: the marker is cleared only when the new key does not resolve.
StoresMarkerLast(secret, binding, resolves) ==
  <<Binds(None), Keeps(secret), Binds(binding), Marks(IF resolves THEN "on" ELSE "off")>>

\* store_validated_xai_api_key: readiness goes first, so that a crash can
\* only take it away.
Stores(secret, binding, resolves) ==
  IF resolves
    THEN <<Marks("off"), Binds(None), Keeps(secret), Binds(binding), Marks("on")>>
    ELSE <<Marks("off"), Binds(None), Keeps(secret), Binds(binding)>>

Deletes == <<Keeps(None), Binds(None), Marks("absent")>>

Exclusive == gates.readers = {} /\ gates.writer = None

\* The exclusive side of the gate.  A configured or deleted key reserves its
\* command under it; an enrollment has reserved it already.
Change(r) ==
  /\ At(r, "change") /\ Exclusive
  /\ LET q == requests[r]
         todo == IF q.op = "delete" THEN Deletes
                 ELSE Stores(q.secret, CommandOf(q), q.outcome.resolved)
         begun == IF q.op = "enroll" THEN Commit(journal, [is |-> "NewlyReserved"])
                  ELSE BeginCredential(journal, CommandOf(q), PrintOf(q))
     IN /\ journal' = begun.tables
        /\ IF IsError(begun.answer) \/ begun.answer.is = "Completed" THEN Answer(r)
           ELSE /\ gates' = [gates EXCEPT !.writer = r]
                /\ requests' = [requests EXCEPT ![r].at = "write", ![r].todo = todo,
                     ![r].outcome = IF q.op = "delete"
                                      THEN [configured |-> FALSE, resolved |-> FALSE] ELSE @]
  /\ UNCHANGED <<vault, seen, left>>

\* One write of the vault.  The last one of an enrollment
\* lets go of the gate before the command is completed.
Write(r) ==
  /\ At(r, "write")
  /\ \E w \in {Head(requests[r].todo)}, rest \in {Tail(requests[r].todo)} :
       /\ vault' = [vault EXCEPT ![w.entry] = w.is]
       /\ IF rest # <<>>
            THEN requests' = [requests EXCEPT ![r].todo = rest] /\ UNCHANGED gates
          ELSE IF Op(r) = "refresh" THEN Answer(r)
          ELSE /\ requests' = [requests EXCEPT ![r].todo = rest, ![r].at = "complete"]
               /\ gates' = IF Op(r) = "enroll" THEN [gates EXCEPT !.writer = None] ELSE gates
  /\ UNCHANGED <<journal, seen, left>>

\* The vault or the journal refuses the write.
WriteFails(r) ==
  /\ At(r, "write") \/ At(r, "complete")
  /\ left.faults > 0
  /\ left' = [left EXCEPT !.faults = @ - 1]
  /\ Answer(r)
  /\ UNCHANGED <<vault, journal, seen>>

Complete(r) ==
  /\ At(r, "complete")
  /\ journal' = CompleteCredential(journal, CommandOf(requests[r]), PrintOf(requests[r]),
                                   requests[r].outcome).tables
  /\ Answer(r)
  /\ UNCHANGED <<vault, seen, left>>

Loaded == vault.key # None /\ vault.binding # None

AccountState ==
  [configured |-> vault.key # None, resolved |-> Loaded /\ vault.marker = "on"]

\* reconcile_pending_xai_enrollment: only the generation of this very command
\* completes it.
Reconcile(r) ==
  /\ At(r, "reconcile") /\ Exclusive
  /\ IF Loaded /\ vault.binding = CommandOf(requests[r])
       THEN journal' = CompleteCredential(journal, CommandOf(requests[r]), None, AccountState).tables
       ELSE UNCHANGED journal
  /\ Answer(r)
  /\ UNCHANGED <<vault, seen, left>>

-----------------------------------------------------------------------------
(* Using the key. *)

\* load_xai_api_credential_for_use: the key and its binding under a lease.  A
\* key without its binding is refused, and a refresh then clears the marker
\* after it gave the lease back.
Lease(r) ==
  /\ At(r, "lease") /\ gates.writer = None
  /\ IF Loaded
       THEN /\ gates' = [gates EXCEPT !.readers = @ \cup {r}]
            /\ requests' = [requests EXCEPT
                 ![r].at = IF Op(r) = "refresh" THEN "validate" ELSE "prepare",
                 ![r].secret = vault.key, ![r].binding = vault.binding]
     ELSE IF vault.key # None /\ Op(r) = "refresh"
       THEN /\ requests' = [requests EXCEPT ![r].at = "write",
                              ![r].todo = <<Marks("off")>>]
            /\ UNCHANGED gates
     ELSE Answer(r)
  /\ UNCHANGED <<vault, journal, seen, left>>

\* A turn lists the models under its first lease and then writes its records
\* without one.
Prepare(r) ==
  /\ At(r, "prepare")
  /\ gates' = Mine(r)
  /\ Goes(r, "dispatch")
  /\ UNCHANGED <<vault, journal, seen, left>>

\* acquire_xai_credential_use
Acquire(r) ==
  /\ At(r, "dispatch") /\ gates.writer = None
  /\ IF Loaded /\ vault.binding = requests[r].binding
       THEN gates' = [gates EXCEPT !.readers = @ \cup {r}] /\ Goes(r, "sending")
       ELSE Answer(r)
  /\ UNCHANGED <<vault, journal, seen, left>>

Sent(r) == At(r, "sending") /\ Answer(r) /\ UNCHANGED <<vault, journal, seen, left>>

\* The daemon stops: the vault and the database are what remains.
Stop ==
  /\ left.stops > 0
  /\ left' = [left EXCEPT !.stops = @ - 1]
  /\ requests' = [r \in Requests |-> None]
  /\ gates' = OpenGates
  /\ UNCHANGED <<vault, journal, seen>>

Proceed(r) ==
  \/ Resolve(r) \/ Enter(r) \/ Prompt(r) \/ Validate(r) \/ Change(r) \/ Write(r)
  \/ Complete(r) \/ Reconcile(r) \/ Lease(r) \/ Prepare(r) \/ Acquire(r) \/ Sent(r)

Next == Stop \/ \E r \in Requests : Ask(r) \/ Proceed(r) \/ WriteFails(r)

Spec == Init /\ [][Next]_vars /\ \A r \in Requests : WF_vars(Proceed(r))

-----------------------------------------------------------------------------

\* The request is on the wire: credential replacement and deletion wait for it.
Sending(r) == At(r, "sending")

\* A turn that is being sent uses the key that is stored, under the binding
\* its records name; the readiness marker is set only for a key that xAI said
\* resolves models, whatever crash or failed write came between; a stored
\* binding names the command its key was collected for; and no command opens
\* the native prompt twice.
CredentialsSound ==
  /\ \A r \in Requests : Sending(r) =>
       vault.key = requests[r].secret /\ vault.binding = requests[r].binding
  /\ vault.key # None /\ vault.marker = "on" => vault.key \in seen.resolving
  /\ vault.key # None /\ vault.binding # None => vault.key \in seen.collected[vault.binding]
  /\ \A k \in Keys : seen.prompts[k] <= 1

\* Every request is answered: nothing waits forever for the gate or the
\* enrollment lock, whatever was dropped halfway.
Asked(r) == requests[r] # None
RequestsAnswered == \A r \in Requests : Asked(r) ~> ~Asked(r)
=============================================================================
