--------------------------- MODULE CredentialProofs ---------------------------
(***************************************************************************)
(* The credential service keeps CredentialsSound, for any number of         *)
(* requests, keys and idempotency keys, and whatever crashes and failed     *)
(* writes come between.                                                     *)
(***************************************************************************)
EXTENDS ApiKeyCredentials, TLAPS

Changes == {"configure", "enroll", "delete"}
Steps == {"resolve", "enter", "prompt", "validate", "change", "write", "complete",
          "reconcile", "lease", "prepare", "dispatch", "sending"}

Writes ==
  [entry : {"key"}, is : Secrets \cup {None}]
  \cup [entry : {"binding"}, is : Commands \cup {None}]
  \cup [entry : {"marker"}, is : {"absent", "on", "off"}]

Outcomes == [configured : BOOLEAN, resolved : BOOLEAN]

Slots ==
  [op : Changes \cup {"refresh", "turn"}, key : Keys \cup {None},
   secret : Secrets \cup {None}, at : Steps, binding : Commands \cup {None},
   todo : Seq(Writes), outcome : Outcomes \cup {None}]

TypeInv ==
  /\ vault \in [key : Secrets \cup {None}, binding : Commands \cup {None},
                marker : {"absent", "on", "off"}]
  /\ gates \in [readers : SUBSET Requests, writer : Requests \cup {None},
                enrolling : Requests \cup {None}]
  /\ requests \in [Requests -> Slots \cup {None}]
  /\ seen \in [resolving : SUBSET Secrets, collected : [Commands -> SUBSET Secrets],
               prompts : [Keys -> {0, 1}]]

\* The key s is the one that the command b stands for: the one it was given,
\* or the one that was entered for it.
Bound(b, s) ==
  /\ b \in Commands /\ s \in Secrets /\ s \in seen.collected[b]
  /\ \/ b[1] = "enroll"
     \/ b[1] = "configure" /\ b \in DOMAIN journal /\ journal[b].print = s

\* The rows of the journal: an enrollment's print does not depend on the key.
JournalOk(t) ==
  /\ DOMAIN t \subseteq Commands
  /\ \A c \in DOMAIN t : t[c].reservation.is \in {"Pending", "Completed"}
  /\ \A c \in DOMAIN t : c[1] = "enroll" => t[c].print = None
JournalInv == JournalOk(journal)

\* One prompt for an enrollment, one key entered.
PromptInv ==
  \A k \in Keys :
    /\ seen.prompts[k] = 0 => seen.collected[<<"enroll", k>>] = {}
    /\ seen.prompts[k] = 1 => <<"enroll", k>> \in DOMAIN journal
    /\ \A x, y \in seen.collected[<<"enroll", k>>] : x = y

VaultInv ==
  /\ vault.key # None /\ vault.binding # None => Bound(vault.binding, vault.key)
  /\ vault.key # None /\ vault.marker = "on" => vault.key \in seen.resolving

GateInv == gates.writer = None \/ gates.readers = {}

-----------------------------------------------------------------------------
(* What is left to write of a change, and what the vault holds already. *)

Rest1(s, b, on) ==
  IF on THEN <<Binds(None), Keeps(s), Binds(b), Marks("on")>>
  ELSE <<Binds(None), Keeps(s), Binds(b)>>
Rest2(s, b, on) ==
  IF on THEN <<Keeps(s), Binds(b), Marks("on")>> ELSE <<Keeps(s), Binds(b)>>
Rest3(b, on) == IF on THEN <<Binds(b), Marks("on")>> ELSE <<Binds(b)>>
Rest4 == <<Marks("on")>>

Storing(todo, s, b, on) ==
  \/ todo = Stores(s, b, on)
  \/ todo = Rest1(s, b, on) /\ vault.marker # "on"
  \/ todo = Rest2(s, b, on) /\ vault.marker # "on" /\ vault.binding = None
  \/ todo = Rest3(b, on) /\ vault.marker # "on" /\ vault.binding = None /\ vault.key = s
  \/ todo = Rest4 /\ on /\ vault.key = s

Gone1 == <<Binds(None), Marks("absent")>>
Gone2 == <<Marks("absent")>>

Deleting(todo) ==
  \/ todo = Deletes
  \/ todo = Gone1 /\ vault.key = None
  \/ todo = Gone2 /\ vault.key = None

\* A key that was accepted for the command of request q.
Accepted(q) ==
  /\ q.secret \in Secrets /\ q.secret \in seen.collected[CommandOf(q)]
  /\ q.outcome \in Outcomes /\ (q.outcome.resolved => q.secret \in seen.resolving)

\* What a request knows and holds, at each step of its way.
RequestInv(r) ==
  LET q == requests[r]
  IN q # None =>
    /\ q.op \in Changes => q.key \in Keys
    /\ q.op = "configure" => q.secret \in Secrets
    /\ q.at = "resolve" => q.op \in {"configure", "enroll"}
    /\ q.at \in {"enter", "prompt", "reconcile"} => q.op = "enroll"
    /\ q.op = "enroll" /\ q.at \notin {"resolve", "enter"} =>
         gates.enrolling = r /\ CommandOf(q) \in DOMAIN journal
    /\ q.at = "prompt" => seen.prompts[q.key] = 0
    /\ q.at = "validate" =>
         \/ q.op = "configure"
         \/ q.op = "enroll" /\ q.secret \in Secrets /\ q.secret \in seen.collected[CommandOf(q)]
         \/ q.op = "refresh" /\ r \in gates.readers /\ q.secret \in Secrets
              /\ vault.key = q.secret
    /\ q.at = "change" =>
         q.op = "delete" \/ (q.op \in {"configure", "enroll"} /\ Accepted(q))
    /\ q.at = "write" =>
         \/ q.op = "refresh" /\ q.todo = <<Marks("off")>>
         \/ /\ q.op = "refresh" /\ q.todo = <<Marks("on")>>
            /\ r \in gates.readers /\ vault.key = q.secret /\ q.secret \in seen.resolving
         \/ q.op = "delete" /\ gates.writer = r /\ Deleting(q.todo)
         \/ /\ q.op \in {"configure", "enroll"} /\ gates.writer = r
            /\ Accepted(q) /\ Bound(CommandOf(q), q.secret)
            /\ Storing(q.todo, q.secret, CommandOf(q), q.outcome.resolved)
    /\ q.at = "complete" => q.op \in Changes
    /\ q.at = "lease" => q.op \in {"refresh", "turn"}
    /\ q.at \in {"prepare", "dispatch", "sending"} =>
         q.op = "turn" /\ Bound(q.binding, q.secret)
    /\ q.at \in {"prepare", "sending"} => r \in gates.readers
    /\ q.at = "sending" => vault.key = q.secret /\ vault.binding = q.binding

Inv ==
  /\ TypeInv /\ JournalInv /\ PromptInv /\ VaultInv /\ GateInv
  /\ \A r \in Requests : RequestInv(r)

-----------------------------------------------------------------------------
(* Lemmas about the plans of writes. *)

\* A step that changes nothing keeps the invariant.
LEMMA StutterKeeps ==
  ASSUME Inv, UNCHANGED vars
  PROVE  Inv'
  <1>1. /\ vault' = vault /\ journal' = journal /\ gates' = gates /\ requests' = requests
        /\ seen' = seen
    BY DEF vars
  <1>2. TypeInv' /\ JournalInv' /\ PromptInv' /\ GateInv'
    BY <1>1 DEF Inv, TypeInv, JournalInv, JournalOk, PromptInv, GateInv
  <1>3. VaultInv' BY <1>1 DEF Inv, VaultInv, Bound
  <1>4. ASSUME NEW r \in Requests PROVE RequestInv(r)'
    <2>1. RequestInv(r) BY DEF Inv
    <2>2. \A q : Accepted(q)' <=> Accepted(q) BY <1>1 DEF Accepted
    <2>3. \A todo : Deleting(todo)' <=> Deleting(todo) BY <1>1 DEF Deleting
    <2>4. \A todo, s, b, on : Storing(todo, s, b, on)' <=> Storing(todo, s, b, on)
      BY <1>1 DEF Storing
    <2>5. \A b, s : Bound(b, s)' <=> Bound(b, s) BY <1>1 DEF Bound
    <2>6. QED BY <1>1, <2>1, <2>2, <2>3, <2>4, <2>5, SMTT(30) DEF RequestInv
  <1>5. QED BY <1>2, <1>3, <1>4 DEF Inv

\* The writes are of the vault's entries.
LEMMA WritesTyped ==
  /\ \A s \in Secrets \cup {None} : Keeps(s) \in Writes
  /\ \A b \in Commands \cup {None} : Binds(b) \in Writes
  /\ \A m \in {"absent", "on", "off"} : Marks(m) \in Writes
BY DEF Keeps, Binds, Marks, Writes

\* A plan is a sequence of writes that is not empty.
LEMMA PlansTyped ==
  ASSUME NEW s \in Secrets, NEW b \in Commands, NEW on \in BOOLEAN
  PROVE  /\ Stores(s, b, on) \in Seq(Writes) /\ Stores(s, b, on) # <<>>
         /\ Rest1(s, b, on) \in Seq(Writes) /\ Rest1(s, b, on) # <<>>
         /\ Rest2(s, b, on) \in Seq(Writes) /\ Rest2(s, b, on) # <<>>
         /\ Rest3(b, on) \in Seq(Writes) /\ Rest3(b, on) # <<>>
         /\ Rest4 \in Seq(Writes) /\ Rest4 # <<>>
         /\ Deletes \in Seq(Writes) /\ Gone1 \in Seq(Writes) /\ Gone2 \in Seq(Writes)
         /\ Deletes # <<>> /\ Gone1 # <<>> /\ Gone2 # <<>>
BY WritesTyped DEF Stores, Rest1, Rest2, Rest3, Rest4, Deletes, Gone1, Gone2

\* What a plan writes first and what it leaves to write.
LEMMA PlansUnfold ==
  ASSUME NEW s, NEW b, NEW on \in BOOLEAN
  PROVE  /\ Head(Stores(s, b, on)) = Marks("off") /\ Tail(Stores(s, b, on)) = Rest1(s, b, on)
         /\ Head(Rest1(s, b, on)) = Binds(None) /\ Tail(Rest1(s, b, on)) = Rest2(s, b, on)
         /\ Head(Rest2(s, b, on)) = Keeps(s) /\ Tail(Rest2(s, b, on)) = Rest3(b, on)
         /\ Head(Rest3(b, on)) = Binds(b)
         /\ Tail(Rest3(b, on)) = IF on THEN Rest4 ELSE <<>>
         /\ Head(Rest4) = Marks("on") /\ Tail(Rest4) = <<>>
         /\ Head(Deletes) = Keeps(None) /\ Tail(Deletes) = Gone1
         /\ Head(Gone1) = Binds(None) /\ Tail(Gone1) = Gone2
         /\ Head(Gone2) = Marks("absent") /\ Tail(Gone2) = <<>>
  <1> DEFINE off == Marks("off")  none == Binds(None)  key == Keeps(s)  bound == Binds(b)
             set == Marks("on")  gone == Keeps(None)  absent == Marks("absent")
  <1> HIDE DEF off, none, key, bound, set, gone, absent
  <1>1. /\ Tail(<<off, none, key, bound, set>>) = <<none, key, bound, set>>
        /\ Tail(<<off, none, key, bound>>) = <<none, key, bound>>
        /\ Tail(<<none, key, bound, set>>) = <<key, bound, set>>
        /\ Tail(<<none, key, bound>>) = <<key, bound>>
        /\ Tail(<<key, bound, set>>) = <<bound, set>>
        /\ Tail(<<key, bound>>) = <<bound>>
        /\ Tail(<<bound, set>>) = <<set>> /\ Tail(<<bound>>) = <<>> /\ Tail(<<set>>) = <<>>
        /\ Tail(<<gone, none, absent>>) = <<none, absent>>
        /\ Tail(<<none, absent>>) = <<absent>> /\ Tail(<<absent>>) = <<>>
    OBVIOUS
  <1>2. QED
    BY <1>1 DEF off, none, key, bound, set, gone, absent,
                Stores, Rest1, Rest2, Rest3, Rest4, Deletes, Gone1, Gone2

-----------------------------------------------------------------------------
(* What steps have in common. *)

\* The journal keeps its prints, and what was learned of keys stays known.
Grows ==
  /\ DOMAIN journal \subseteq DOMAIN journal'
  /\ \A c \in DOMAIN journal : journal'[c].print = journal[c].print
  /\ seen.resolving \subseteq seen'.resolving
  /\ \A c \in Commands : seen.collected[c] \subseteq seen'.collected[c]

\* The step is not one of request x and takes nothing from it.
Undisturbed(x) ==
  /\ requests'[x] = requests[x]
  /\ x \in gates.readers => x \in gates'.readers
  /\ gates.writer = x => gates'.writer = x
  /\ gates.enrolling = x => gates'.enrolling = x
  /\ At(x, "prompt") => seen'.prompts[requests[x].key] = seen.prompts[requests[x].key]

\* What a binding says of a stored key survives when the journal only grows.
LEMMA BoundKept ==
  ASSUME Grows, NEW b, NEW s, Bound(b, s)
  PROVE  Bound(b, s)'
BY DEF Grows, Bound

\* A write of the vault leaves alone what request x relies on.
Untouched(x) ==
  /\ x \in gates.readers \/ gates.writer = x =>
       vault'.key = vault.key /\ vault'.binding = vault.binding
  /\ gates.writer = x /\ vault'.marker = "on" => vault.marker = "on"

\* A request the step does not disturb keeps what it knows.
LEMMA Frame ==
  ASSUME TypeInv, NEW x \in Requests, RequestInv(x), Grows, Undisturbed(x), Untouched(x)
  PROVE  RequestInv(x)'
  <1>0. PICK q : q = requests[x] OBVIOUS
  <1>a. CASE q = None BY <1>0, <1>a DEF Undisturbed, RequestInv
  <1> SUFFICES ASSUME q # None PROVE RequestInv(x)'
    BY <1>a
  <1>1. requests'[x] = q BY <1>0 DEF Undisturbed
  <1>2. q \in Slots BY <1>0 DEF TypeInv
  <1>3. q.op \in Changes => CommandOf(q) \in Commands
    BY <1>0, <1>2 DEF RequestInv, CommandOf, Commands, Scopes, Changes, Slots
  <1>4. q.op \in {"configure", "enroll"} /\ Accepted(q) => Accepted(q)'
    BY <1>3 DEF Accepted, Grows, Changes
  <1>5. Bound(q.binding, q.secret) => Bound(q.binding, q.secret)'
    BY BoundKept
  <1>6. Bound(CommandOf(q), q.secret) => Bound(CommandOf(q), q.secret)'
    BY BoundKept
  <1>7. gates.writer = x =>
          /\ Deleting(q.todo) => Deleting(q.todo)'
          /\ Storing(q.todo, q.secret, CommandOf(q), q.outcome.resolved) =>
               Storing(q.todo, q.secret, CommandOf(q), q.outcome.resolved)'
    BY DEF Deleting, Storing, Untouched
  <1>8. q.op = "enroll" /\ q.secret \in seen.collected[CommandOf(q)] =>
          q.secret \in seen'.collected[CommandOf(q)]
    BY <1>3 DEF Grows, Changes
  <1>9. q.at = "prompt" => seen'.prompts[q.key] = seen.prompts[q.key]
    BY <1>0 DEF Undisturbed, At
  <1>10. QED
    BY <1>0, <1>1, <1>4, <1>5, <1>6, <1>7, <1>8, <1>9
    DEF RequestInv, Undisturbed, Untouched, Grows

\* The parts of a step of request r, put together.
LEMMA AssembleWrite ==
  ASSUME Inv, NEW r \in Requests, TypeInv', JournalInv', PromptInv', VaultInv', GateInv',
         Grows, RequestInv(r)', \A x \in Requests \ {r} : Undisturbed(x) /\ Untouched(x)
  PROVE  Inv'
  <1>1. ASSUME NEW x \in Requests PROVE RequestInv(x)'
    BY <1>1, Frame DEF Inv
  <1>2. QED BY <1>1 DEF Inv

\* A step of one request keeps the invariant when it leaves the vault and the other
\* requests alone.
LEMMA Assemble ==
  ASSUME Inv, NEW r \in Requests, TypeInv', JournalInv', PromptInv', VaultInv', GateInv',
         Grows, vault' = vault, RequestInv(r)', \A x \in Requests \ {r} : Undisturbed(x)
  PROVE  Inv'
  <1>1. \A x \in Requests \ {r} : Untouched(x) BY DEF Untouched
  <1>2. QED BY <1>1, AssembleWrite

\* A step that leaves the vault, the journal and the history alone.
LEMMA Quiet ==
  ASSUME Inv, UNCHANGED <<vault, journal, seen>>
  PROVE  JournalInv' /\ PromptInv' /\ VaultInv' /\ Grows
BY DEF Inv, JournalInv, JournalOk, PromptInv, VaultInv, Bound, Grows

\* Ending a request lets go of its own locks.
LEMMA AnswerFrees ==
  ASSUME Inv, NEW r \in Requests, Answer(r)
  PROVE  /\ requests' \in [Requests -> Slots \cup {None}] /\ requests'[r] = None
         /\ gates' \in [readers : SUBSET Requests, writer : Requests \cup {None},
                         enrolling : Requests \cup {None}]
         /\ GateInv' /\ RequestInv(r)'
         /\ \A x \in Requests \ {r} :
              seen' = seen => Undisturbed(x)
BY DEF Inv, TypeInv, Answer, Mine, GateInv, RequestInv, Undisturbed

-----------------------------------------------------------------------------
(* The journal. *)

\* The rows of t are rows of u, with their prints.
Extends(t, u) ==
  DOMAIN t \subseteq DOMAIN u /\ \A c \in DOMAIN t : u[c].print = t[c].print

\* begin_credential_mutation keeps the rows there are; a command that it did
\* not refuse has its row with its print.
LEMMA BeginKeeps ==
  ASSUME NEW t, JournalOk(t), NEW c \in Commands, NEW print, c[1] = "enroll" => print = None
  PROVE  LET b == BeginCredential(t, c, print)
         IN /\ JournalOk(b.tables) /\ Extends(t, b.tables)
            /\ ~IsError(b.answer) => c \in DOMAIN b.tables /\ b.tables[c].print = print
            /\ c[1] = "enroll" => /\ c \in DOMAIN b.tables
                                  /\ b.answer.is = "NewlyReserved" => c \notin DOMAIN t
                                  /\ b.answer.is \in {"NewlyReserved", "Pending", "Completed"}
  <1>1. CASE c \in DOMAIN t
    BY <1>1 DEF BeginCredential, ResolveCredential, Refuse, Error, IsError, JournalOk, Extends
  <1>2. CASE c \notin DOMAIN t
    <2> DEFINE u == With(t, c, Row(print, Pending))
    <2>1. BeginCredential(t, c, print) = [tables |-> u, answer |-> [is |-> "NewlyReserved"]]
      BY <1>2 DEF BeginCredential, Commit
    <2>2. /\ DOMAIN u = DOMAIN t \cup {c} /\ u[c] = Row(print, Pending)
          /\ \A d \in DOMAIN t : u[d] = t[d]
      BY <1>2 DEF With
    <2>3. u[c].print = print /\ u[c].reservation.is = "Pending"
      BY <2>2 DEF Row, Pending
    <2> HIDE DEF u
    <2>4. QED BY <1>2, <2>1, <2>2, <2>3 DEF JournalOk, Extends
  <1>3. QED BY <1>1, <1>2

\* complete_credential_mutation keeps the rows and their prints.
LEMMA CompleteKeeps ==
  ASSUME NEW t, JournalOk(t), NEW c, NEW print, NEW outcome
  PROVE  LET u == CompleteCredential(t, c, print, outcome).tables
         IN JournalOk(u) /\ Extends(t, u)
  <1> DEFINE u == With(t, c, Row(print, Completed(outcome)))
  <1>1. CASE c \in DOMAIN t /\ t[c].print = print /\ t[c].reservation = Pending
    <2>1. CompleteCredential(t, c, print, outcome).tables = u
      BY <1>1 DEF CompleteCredential, Commit
    <2>2. DOMAIN u = DOMAIN t /\ u[c] = Row(print, Completed(outcome))
          /\ \A d \in DOMAIN t \ {c} : u[d] = t[d]
      BY <1>1 DEF With
    <2>3. u[c].print = print /\ u[c].reservation.is = "Completed"
      BY <2>2 DEF Row, Completed
    <2> HIDE DEF u
    <2>4. QED BY <1>1, <2>1, <2>2, <2>3 DEF JournalOk, Extends
  <1>2. CASE ~(c \in DOMAIN t /\ t[c].print = print /\ t[c].reservation = Pending)
    <2>1. CompleteCredential(t, c, print, outcome).tables = t
      BY <1>2 DEF CompleteCredential, Refuse
    <2>2. QED BY <2>1 DEF Extends
  <1>3. QED BY <1>1, <1>2

\* A longer journal alone keeps what is known of keys.
LEMMA JournalGrows ==
  ASSUME Inv, Extends(journal, journal'), UNCHANGED <<vault, seen>>
  PROVE  Grows /\ PromptInv' /\ VaultInv'
  <1>1. Grows BY DEF Extends, Grows
  <1>2. PromptInv' BY DEF Inv, PromptInv, Extends
  <1>3. VaultInv'
    <2>1. vault.key # None /\ vault.binding # None => Bound(vault.binding, vault.key)'
      BY <1>1, BoundKept DEF Inv, VaultInv, Bound, Grows
    <2>2. QED BY <2>1 DEF Inv, VaultInv, Bound
  <1>4. QED BY <1>1, <1>2, <1>3

-----------------------------------------------------------------------------
(* The steps. *)

\* An empty vault and journal satisfy the invariant.
LEMMA InitKeeps == Init => Inv
  <1> SUFFICES ASSUME Init PROVE Inv OBVIOUS
  <1>1. TypeInv BY DEF Init, TypeInv, OpenGates
  <1>2. JournalInv BY DEF Init, JournalInv, JournalOk, NoCommands
  <1>3. PromptInv
    <2>1. \A k \in Keys : <<"enroll", k>> \in Commands BY DEF Commands, Scopes
    <2>2. \A k \in Keys : seen.collected[<<"enroll", k>>] = {} /\ seen.prompts[k] = 0
      BY <2>1 DEF Init
    <2>3. QED BY <2>2 DEF PromptInv
  <1>4. VaultInv /\ GateInv BY DEF Init, VaultInv, GateInv, OpenGates
  <1>5. \A r \in Requests : RequestInv(r) BY DEF Init, RequestInv
  <1>6. QED BY <1>1, <1>2, <1>3, <1>4, <1>5 DEF Inv

\* A new request holds nothing yet.
LEMMA AskKeeps ==
  ASSUME Inv, NEW r \in Requests, Ask(r)
  PROVE  Inv'
  <1>1. PICK a \in Askable : requests' = [requests EXCEPT ![r] =
         [op |-> a.op, key |-> a.key, secret |-> a.secret, at |-> Starts[a.op],
          binding |-> None, todo |-> <<>>, outcome |-> None]]
    BY DEF Ask
  <1> DEFINE q == [op |-> a.op, key |-> a.key, secret |-> a.secret, at |-> Starts[a.op],
                   binding |-> None, todo |-> <<>>, outcome |-> None]
  <1>2. /\ a.op \in Changes \cup {"refresh", "turn"} /\ a.key \in Keys \cup {None}
        /\ a.secret \in Secrets \cup {None}
        /\ a.op \in Changes => a.key \in Keys
        /\ a.op = "configure" => a.secret \in Secrets
    BY DEF Askable, Changes
  <1>3. /\ a.op \in {"configure", "enroll"} => Starts[a.op] = "resolve"
        /\ a.op = "delete" => Starts[a.op] = "change"
        /\ a.op \in {"refresh", "turn"} => Starts[a.op] = "lease"
    BY DEF Starts
  <1>4. q \in Slots BY <1>2, <1>3 DEF Slots, Steps, Changes
  <1>5. requests'[r] = q /\ \A x \in Requests \ {r} : requests'[x] = requests[x]
    BY <1>1 DEF Inv, TypeInv
  <1>6. TypeInv' BY <1>1, <1>4 DEF Inv, TypeInv, Ask
  <1>7. JournalInv' /\ PromptInv' /\ VaultInv' /\ Grows BY Quiet DEF Ask
  <1>8. GateInv' BY DEF Inv, GateInv, Ask
  <1>9. RequestInv(r)' BY <1>2, <1>3, <1>5 DEF RequestInv, Changes
  <1>10. \A x \in Requests \ {r} : Undisturbed(x) BY <1>5 DEF Undisturbed, Ask
  <1>11. QED BY <1>6, <1>7, <1>8, <1>9, <1>10, Assemble DEF Ask

\* A request that ends, in a step that changes nothing else.
LEMMA EndKeeps ==
  ASSUME Inv, NEW r \in Requests, Answer(r), UNCHANGED <<vault, journal, seen>>
  PROVE  Inv'
  <1>1. JournalInv' /\ PromptInv' /\ VaultInv' /\ Grows BY Quiet
  <1>2. TypeInv' BY AnswerFrees DEF Inv, TypeInv
  <1>3. QED BY <1>1, <1>2, AnswerFrees, Assemble

\* What a request knows about its command.
LEMMA CommandTyped ==
  ASSUME Inv, NEW r \in Requests, NEW q, q = requests[r], q # None
  PROVE  /\ q \in Slots
         /\ q.op \in Changes => /\ q.key \in Keys /\ CommandOf(q) = <<q.op, q.key>>
                                /\ CommandOf(q) \in Commands /\ CommandOf(q)[1] = q.op
         /\ CommandOf(q)[1] = "enroll" => PrintOf(q) = None
  <1>1. q \in Slots /\ (q.op \in Changes => q.key \in Keys) BY DEF Inv, TypeInv, RequestInv
  <1>2. q.op \in Changes => CommandOf(q) \in Commands
    BY <1>1 DEF CommandOf, Commands, Scopes, Changes
  <1>3. QED BY <1>1, <1>2 DEF CommandOf, PrintOf

\* A completed command answers from the journal before any gate is taken.
LEMMA ResolveKeeps ==
  ASSUME Inv, NEW r \in Requests, Resolve(r)
  PROVE  Inv'
  <1>1. CASE Answer(r) BY <1>1, EndKeeps DEF Resolve
  <1>2. CASE Goes(r, IF Op(r) = "enroll" THEN "enter" ELSE "validate") /\ UNCHANGED gates
    <2>1. PICK q : q = requests[r] OBVIOUS
    <2>2. q # None /\ q \in Slots /\ q.at = "resolve" /\ q.op \in {"configure", "enroll"}
      BY <2>1 DEF Resolve, At, Inv, TypeInv, RequestInv
    <2>3. PICK at \in {"enter", "validate"} :
            /\ at = IF q.op = "enroll" THEN "enter" ELSE "validate"
            /\ requests' = [requests EXCEPT ![r] = [q EXCEPT !.at = at]]
      BY <1>2, <2>1 DEF Goes, Op
    <2>4. [q EXCEPT !.at = at] \in Slots BY <2>2 DEF Slots, Steps
    <2>5. requests'[r] = [q EXCEPT !.at = at] /\ \A x \in Requests \ {r} : requests'[x] = requests[x]
      BY <2>3 DEF Inv, TypeInv
    <2>6. TypeInv' BY <1>2, <2>3, <2>4 DEF Inv, TypeInv, Resolve
    <2>7. JournalInv' /\ PromptInv' /\ VaultInv' /\ Grows BY Quiet DEF Resolve
    <2>8. GateInv' BY <1>2 DEF Inv, GateInv
    <2>9. RequestInv(r)' BY <2>1, <2>2, <2>3, <2>5 DEF Inv, RequestInv, Slots
    <2>10. \A x \in Requests \ {r} : Undisturbed(x)
      BY <1>2, <2>5 DEF Undisturbed, Resolve
    <2>11. QED BY <2>6, <2>7, <2>8, <2>9, <2>10, Assemble DEF Resolve
  <1>3. QED BY <1>1, <1>2 DEF Resolve

\* enroll_xai_api_key takes the enrollment lock and reserves its command under it.
LEMMA EnterKeeps ==
  ASSUME Inv, NEW r \in Requests, Enter(r)
  PROVE  Inv'
  <1>1. PICK q : q = requests[r] OBVIOUS
  <1>2. q # None /\ q \in Slots /\ q.at = "enter" /\ q.op = "enroll" /\ q.key \in Keys
    BY <1>1 DEF Enter, At, Inv, TypeInv, RequestInv, Changes
  <1>3. PICK c : c = CommandOf(q) OBVIOUS
  <1>4. c \in Commands /\ c = <<"enroll", q.key>> /\ c[1] = "enroll"
    BY <1>1, <1>2, <1>3, CommandTyped DEF Changes
  <1>5. PICK begun : begun = BeginCredential(journal, c, None) OBVIOUS
  <1>6. /\ JournalOk(begun.tables) /\ Extends(journal, begun.tables)
        /\ c \in DOMAIN begun.tables
        /\ begun.answer.is = "NewlyReserved" => c \notin DOMAIN journal
        /\ begun.answer.is \in {"NewlyReserved", "Pending", "Completed"}
    BY <1>4, <1>5, BeginKeeps DEF Inv, JournalInv
  <1>7. /\ gates.enrolling = None /\ journal' = begun.tables /\ UNCHANGED <<vault, seen>>
        /\ IF begun.answer.is = "Completed" THEN Answer(r)
           ELSE /\ gates' = [gates EXCEPT !.enrolling = r]
                /\ Goes(r, IF begun.answer.is = "Pending" THEN "reconcile" ELSE "prompt")
    BY <1>1, <1>3, <1>5 DEF Enter
  <1>8. JournalInv' /\ Grows /\ PromptInv' /\ VaultInv'
    BY <1>6, <1>7, JournalGrows DEF JournalInv
  <1>9. CASE begun.answer.is = "Completed"
    <2>1. Answer(r) BY <1>7, <1>9
    <2>2. TypeInv' BY <1>7, <2>1, AnswerFrees DEF Inv, TypeInv
    <2>3. QED BY <1>7, <1>8, <2>1, <2>2, AnswerFrees, Assemble
  <1>10. CASE begun.answer.is # "Completed"
    <2>1. PICK at \in {"reconcile", "prompt"} :
            /\ at = "prompt" => c \notin DOMAIN journal
            /\ requests' = [requests EXCEPT ![r] = [q EXCEPT !.at = at]]
      BY <1>1, <1>6, <1>7, <1>10 DEF Goes
    <2>2. [q EXCEPT !.at = at] \in Slots BY <1>2 DEF Slots, Steps
    <2>3. requests'[r] = [q EXCEPT !.at = at] /\ \A x \in Requests \ {r} : requests'[x] = requests[x]
      BY <2>1 DEF Inv, TypeInv
    <2>4. /\ gates' \in [readers : SUBSET Requests, writer : Requests \cup {None},
                         enrolling : Requests \cup {None}]
          /\ gates'.readers = gates.readers /\ gates'.writer = gates.writer
          /\ gates'.enrolling = r
      BY <1>7, <1>10 DEF Inv, TypeInv
    <2>5. TypeInv' BY <1>7, <2>1, <2>2, <2>4 DEF Inv, TypeInv
    <2>6. GateInv' BY <2>4 DEF Inv, GateInv
    <2>7. at = "prompt" => seen.prompts[q.key] = 0
      BY <1>2, <1>4, <2>1 DEF Inv, TypeInv, PromptInv
    <2>8. c \in DOMAIN journal' BY <1>6, <1>7
    <2>9. CommandOf([q EXCEPT !.at = at]) = c
      BY <1>2, <1>3 DEF CommandOf, Slots
    <2>10. RequestInv(r)'
      BY <1>1, <1>2, <1>7, <2>1, <2>3, <2>4, <2>7, <2>8, <2>9 DEF RequestInv, Changes, Slots
    <2>11. \A x \in Requests \ {r} : Undisturbed(x)
      BY <1>7, <2>3, <2>4, NoneIsNoRequest DEF Undisturbed
    <2>12. QED BY <1>7, <1>8, <2>5, <2>6, <2>10, <2>11, Assemble
  <1>11. QED BY <1>9, <1>10

\* New knowledge of keys alone keeps the vault's entries accounted for.
LEMMA VaultKept ==
  ASSUME Inv, Grows, UNCHANGED <<vault, journal>>
  PROVE  VaultInv'
  <1>1. vault.key # None /\ vault.binding # None => Bound(vault.binding, vault.key)'
    BY DEF Inv, VaultInv, Bound, Grows
  <1>2. QED BY <1>1 DEF Inv, VaultInv, Bound, Grows

\* The native prompt is shown once for a command and gives it its key.
LEMMA PromptKeeps ==
  ASSUME Inv, NEW r \in Requests, Prompt(r)
  PROVE  Inv'
  <1>1. PICK q : q = requests[r] OBVIOUS
  <1>2. /\ q # None /\ q \in Slots /\ q.at = "prompt" /\ q.op = "enroll" /\ q.key \in Keys
        /\ gates.enrolling = r /\ CommandOf(q) \in DOMAIN journal /\ seen.prompts[q.key] = 0
    BY <1>1 DEF Prompt, At, Inv, TypeInv, RequestInv, Changes
  <1>3. PICK c : c = CommandOf(q) OBVIOUS
  <1>4. c \in Commands /\ c = <<"enroll", q.key>> /\ c[1] = "enroll"
    BY <1>1, <1>2, <1>3, CommandTyped DEF Changes
  <1>5. seen.collected[c] = {} BY <1>2, <1>4 DEF Inv, PromptInv
  <1>6. UNCHANGED <<vault, journal>> BY DEF Prompt
  <1>7. JournalInv' BY <1>6 DEF Inv, JournalInv, JournalOk
  <1>8. \A x \in Requests \ {r} : ~At(x, "prompt")
    BY <1>2 DEF Inv, RequestInv, At
  <1> DEFINE Seen == [resolving : SUBSET Secrets, collected : [Commands -> SUBSET Secrets],
                      prompts : [Keys -> {0, 1}]]
             Learns == /\ seen'.prompts[q.key] = 1
                       /\ \A d \in Commands \ {c} : seen'.collected[d] = seen.collected[d]
                       /\ \A k \in Keys \ {q.key} : seen'.prompts[k] = seen.prompts[k]
                       /\ seen'.resolving = seen.resolving
                       /\ \A x, y \in seen'.collected[c] : x = y
  <1>9. ASSUME Learns
        PROVE  PromptInv' /\ Grows /\ VaultInv'
    <2>3. PromptInv'
      <3> SUFFICES ASSUME NEW k \in Keys
                   PROVE  /\ seen'.prompts[k] = 0 => seen'.collected[<<"enroll", k>>] = {}
                          /\ seen'.prompts[k] = 1 => <<"enroll", k>> \in DOMAIN journal'
                          /\ \A x, y \in seen'.collected[<<"enroll", k>>] : x = y
        BY DEF PromptInv
      <3>1. CASE k = q.key BY <3>1, <1>9, <1>2, <1>3, <1>4, <1>6
      <3>2. CASE k # q.key
        <4>1. <<"enroll", k>> \in Commands \ {c}
          BY <3>2, <1>4 DEF Commands, Scopes
        <4>2. QED BY <3>2, <4>1, <1>9, <1>6 DEF Inv, PromptInv
      <3>3. QED BY <3>1, <3>2
    <2>4. Grows BY <1>9, <1>5, <1>6 DEF Grows
    <2>5. QED BY <2>3, <2>4, <1>6, VaultKept
  <1>10. CASE Answer(r) /\ seen' = [seen EXCEPT !.prompts[requests[r].key] = @ + 1]
    <2>1. seen' \in Seen /\ Learns
      BY <1>10, <1>1, <1>2, <1>4, <1>5 DEF Inv, TypeInv
    <2>2. PromptInv' /\ Grows /\ VaultInv' BY <2>1, <1>9
    <2>3. TypeInv' BY <1>6, <1>10, <2>1, AnswerFrees DEF Inv, TypeInv
    <2>4. \A x \in Requests \ {r} : Undisturbed(x)
      BY <1>8, <1>10 DEF Undisturbed, Answer, Mine, Inv, TypeInv
    <2>5. QED BY <1>6, <1>7, <1>10, <2>2, <2>3, <2>4, AnswerFrees, Assemble
  <1>11. ASSUME NEW s \in Secrets,
                requests' = [requests EXCEPT ![r].at = "validate", ![r].secret = s],
                seen' = [seen EXCEPT !.prompts[requests[r].key] = @ + 1,
                                     !.collected = Collected(CommandOf(requests[r]), s)],
                UNCHANGED gates
         PROVE  Inv'
    <2>1. seen' = [seen EXCEPT !.prompts[q.key] = @ + 1, !.collected = Collected(c, s)]
      BY <1>11, <1>1, <1>3
    <2>a. seen' \in Seen /\ seen'.collected[c] = {s} /\ Learns
      <3> DEFINE half == [seen EXCEPT !.prompts[q.key] = @ + 1]
      <3>1. seen' = [half EXCEPT !.collected = Collected(c, s)] BY <2>1
      <3>2. /\ half \in Seen /\ half.prompts[q.key] = 1
            /\ half.collected = seen.collected /\ half.resolving = seen.resolving
            /\ \A k \in Keys \ {q.key} : half.prompts[k] = seen.prompts[k]
        BY <1>2 DEF Inv, TypeInv
      <3> HIDE DEF half
      <3>3. /\ Collected(c, s) \in [Commands -> SUBSET Secrets] /\ Collected(c, s)[c] = {s}
            /\ \A d \in Commands \ {c} : Collected(c, s)[d] = seen.collected[d]
        BY <1>4, <1>5 DEF Collected, Inv, TypeInv
      <3>4. QED BY <3>1, <3>2, <3>3
    <2>2. PromptInv' /\ Grows /\ VaultInv' BY <2>a, <1>9
    <2> DEFINE new == [q EXCEPT !.at = "validate", !.secret = s]
    <2>3. new \in Slots BY <1>2 DEF Slots, Steps
    <2>4. requests'[r] = new /\ \A x \in Requests \ {r} : requests'[x] = requests[x]
      BY <1>11, <1>1 DEF Inv, TypeInv
    <2>5. TypeInv' BY <1>1, <1>6, <1>11, <2>a, <2>3 DEF Inv, TypeInv
    <2>6. GateInv' BY <1>11 DEF Inv, GateInv
    <2>7. CommandOf(new) = c BY <1>2, <1>3 DEF CommandOf, Slots
    <2>8. /\ new.at = "validate" /\ new.secret = s /\ new.op = "enroll" /\ new.key \in Keys
      BY <1>2 DEF Slots
    <2> HIDE DEF new
    <2>9. RequestInv(r)'
      BY <1>1, <1>2, <1>3, <1>6, <1>11, <2>a, <2>4, <2>7, <2>8 DEF RequestInv, Changes
    <2>10. \A x \in Requests \ {r} : Undisturbed(x)
      BY <1>8, <1>11, <2>4 DEF Undisturbed
    <2>11. QED BY <1>6, <1>7, <2>2, <2>5, <2>6, <2>9, <2>10, Assemble
  <1>12. QED BY <1>10, <1>11 DEF Prompt

\* xAI answers a check of the key of request r.
LEMMA ValidatedKeeps ==
  ASSUME Inv, NEW r \in Requests, At(r, "validate"), NEW resolves \in BOOLEAN,
         requests' = [requests EXCEPT
               ![r].at = IF Op(r) = "refresh" THEN "write" ELSE "change",
               ![r].outcome = [configured |-> TRUE, resolved |-> resolves],
               ![r].todo = IF Op(r) = "refresh"
                             THEN <<Marks(IF resolves THEN "on" ELSE "off")>>
                             ELSE @],
         seen' = [seen EXCEPT
               !.resolving = IF resolves THEN @ \cup {requests[r].secret} ELSE @,
               !.collected = IF Op(r) = "configure"
                               THEN Collected(CommandOf(requests[r]), requests[r].secret)
                               ELSE @],
         UNCHANGED <<vault, journal, gates>>
  PROVE  Inv'
  <1>1. PICK q : q = requests[r] OBVIOUS
  <1>2. /\ q # None /\ q \in Slots /\ q.at = "validate" /\ q.secret \in Secrets
        /\ \/ q.op = "configure"
           \/ q.op = "enroll" /\ q.secret \in seen.collected[CommandOf(q)]
           \/ q.op = "refresh" /\ r \in gates.readers /\ vault.key = q.secret
    BY <1>1 DEF At, Inv, TypeInv, RequestInv
  <1>3. PICK c : c = CommandOf(q) OBVIOUS
  <1>4. /\ q.op \in Changes => /\ q.key \in Keys /\ c = <<q.op, q.key>> /\ c \in Commands
                               /\ c[1] = q.op
    BY <1>1, <1>2, <1>3, CommandTyped
  <1>5. PICK at, todo, outcome :
          /\ at = IF q.op = "refresh" THEN "write" ELSE "change"
          /\ outcome = [configured |-> TRUE, resolved |-> resolves]
          /\ todo = IF q.op = "refresh" THEN <<Marks(IF resolves THEN "on" ELSE "off")>>
                    ELSE q.todo
    OBVIOUS
  <1>6. PICK new : new = [q EXCEPT !.at = at, !.outcome = outcome, !.todo = todo] OBVIOUS
  <1>7. requests'[r] = new /\ \A x \in Requests \ {r} : requests'[x] = requests[x]
    BY <1>1, <1>5, <1>6 DEF Inv, TypeInv, Op
  <1>8. outcome \in Outcomes /\ todo \in Seq(Writes) /\ at \in Steps
    BY <1>2, <1>5, WritesTyped DEF Outcomes, Slots, Steps
  <1>9. /\ new \in Slots /\ new.at = at /\ new.outcome = outcome /\ new.todo = todo
        /\ new.op = q.op /\ new.key = q.key /\ new.secret = q.secret
    BY <1>2, <1>6, <1>8 DEF Slots
  <1>10. requests' \in [Requests -> Slots \cup {None}]
    BY <1>7, <1>9 DEF Inv, TypeInv
  <1>a. PICK known, kept :
          /\ known = IF resolves THEN seen.resolving \cup {q.secret} ELSE seen.resolving
          /\ kept = IF q.op = "configure"
                      THEN Collected(c, q.secret) ELSE seen.collected
    OBVIOUS
  <1>b. seen' = [seen EXCEPT !.resolving = known, !.collected = kept]
    BY <1>1, <1>3, <1>a DEF Op
  <1>c. known \in SUBSET Secrets /\ kept \in [Commands -> SUBSET Secrets]
    BY <1>2, <1>4, <1>a DEF Inv, TypeInv, Changes, Collected
  <1>11. /\ seen'.resolving = known /\ seen'.collected = kept /\ seen'.prompts = seen.prompts
         /\ seen' \in [resolving : SUBSET Secrets, collected : [Commands -> SUBSET Secrets],
                       prompts : [Keys -> {0, 1}]]
    BY <1>b, <1>c DEF Inv, TypeInv
  <1>12. TypeInv'
    BY <1>10, <1>11 DEF Inv, TypeInv
  <1>d. seen.resolving \subseteq known /\ (resolves => q.secret \in known) BY <1>a
  <1>13. /\ \A d \in Commands : seen.collected[d] \subseteq kept[d]
         /\ \A d \in Commands : d[1] = "enroll" => kept[d] = seen.collected[d]
         /\ q.op = "configure" => q.secret \in kept[c]
    BY <1>2, <1>4, <1>a DEF Inv, TypeInv, Changes, Collected
  <1>14. Grows BY <1>11, <1>13, <1>d DEF Grows
  <1>15. VaultInv' BY <1>14, VaultKept
  <1>16. JournalInv' /\ GateInv' BY DEF Inv, JournalInv, JournalOk, GateInv
  <1>17. PromptInv'
    <2>1. \A k \in Keys : <<"enroll", k>> \in Commands /\ <<"enroll", k>>[1] = "enroll"
      BY DEF Commands, Scopes
    <2>2. \A k \in Keys : seen'.collected[<<"enroll", k>>] = seen.collected[<<"enroll", k>>]
      BY <2>1, <1>11, <1>13
    <2>3. seen'.prompts = seen.prompts /\ journal' = journal BY <1>11
    <2>4. PromptInv BY DEF Inv
    <2>5. QED BY ONLY <2>2, <2>3, <2>4 DEF PromptInv
  <1>18. CommandOf(new) = c BY <1>3, <1>9 DEF CommandOf
  <1>19. RequestInv(r)'
    <2>1. CASE q.op = "refresh"
      <3>1. todo = <<Marks("off")>> \/ (todo = <<Marks("on")>> /\ q.secret \in seen'.resolving)
        BY <2>1, <1>5, <1>11, <1>d
      <3>2. QED
        BY <2>1, <3>1, <1>1, <1>2, <1>5, <1>7, <1>9 DEF RequestInv, Changes
    <2>2. CASE q.op # "refresh"
      <3>1. q.op \in {"configure", "enroll"} BY <1>2, <2>2
      <3>2. q.secret \in seen'.collected[c]
        BY <3>1, <1>2, <1>3, <1>4, <1>11, <1>13 DEF Changes
      <3>3. outcome.resolved => q.secret \in seen'.resolving
        BY <1>5, <1>11, <1>d
      <3>4. Accepted(new)'
        BY <3>2, <3>3, <1>2, <1>8, <1>9, <1>18 DEF Accepted
      <3>5. /\ q.key \in Keys /\ at = "change"
            /\ q.op = "enroll" => gates.enrolling = r /\ c \in DOMAIN journal
        BY <3>1, <1>1, <1>2, <1>3, <1>4, <1>5 DEF Inv, RequestInv, Changes
      <3>6. QED BY <3>1, <3>4, <3>5, <1>2, <1>7, <1>9, <1>18 DEF RequestInv
    <2>3. QED BY <2>1, <2>2
  <1>20. \A x \in Requests \ {r} : Undisturbed(x) BY <1>7, <1>11 DEF Undisturbed
  <1>21. QED BY <1>12, <1>14, <1>15, <1>16, <1>17, <1>19, <1>20, Assemble

\* The readiness marker is about to be cleared, by a refresh.
LEMMA UnmarkKeeps ==
  ASSUME Inv, NEW r \in Requests, requests[r] # None, Op(r) = "refresh",
         requests' = [requests EXCEPT ![r].at = "write", ![r].todo = <<Marks("off")>>],
         UNCHANGED <<vault, journal, gates, seen>>
  PROVE  Inv'
  <1>1. PICK q : q = requests[r] OBVIOUS
  <1>2. q # None /\ q \in Slots /\ q.op = "refresh" BY <1>1 DEF Inv, TypeInv, Op
  <1>3. PICK new : new = [q EXCEPT !.at = "write", !.todo = <<Marks("off")>>] OBVIOUS
  <1>4. requests'[r] = new /\ \A x \in Requests \ {r} : requests'[x] = requests[x]
    BY <1>1, <1>3 DEF Inv, TypeInv
  <1>5. <<Marks("off")>> \in Seq(Writes) BY WritesTyped
  <1>6. new \in Slots /\ new.at = "write" /\ new.todo = <<Marks("off")>> /\ new.op = "refresh"
    BY <1>2, <1>3, <1>5 DEF Slots, Steps
  <1>7. TypeInv' BY <1>4, <1>6 DEF Inv, TypeInv
  <1>8. JournalInv' /\ PromptInv' /\ VaultInv' /\ Grows BY Quiet
  <1>9. GateInv' BY DEF Inv, GateInv
  <1>10. RequestInv(r)' BY <1>4, <1>6 DEF RequestInv, Changes
  <1>11. \A x \in Requests \ {r} : Undisturbed(x) BY <1>4 DEF Undisturbed
  <1>12. QED BY <1>7, <1>8, <1>9, <1>10, <1>11, Assemble

\* The answer of xAI decides what a request goes on to write.
LEMMA ValidateKeeps ==
  ASSUME Inv, NEW r \in Requests, Validate(r)
  PROVE  Inv'
  <1>1. At(r, "validate") /\ UNCHANGED <<vault, journal>> BY DEF Validate
  <1>2. CASE Op(r) # "refresh" /\ Answer(r) /\ UNCHANGED seen BY <1>1, <1>2, EndKeeps
  <1>3. CASE /\ Op(r) = "refresh" /\ UNCHANGED <<gates, seen>>
             /\ requests' = [requests EXCEPT ![r].at = "write", ![r].todo = <<Marks("off")>>]
    BY <1>1, <1>3, UnmarkKeeps DEF At
  <1>4. QED BY <1>1, <1>2, <1>3, ValidatedKeeps DEF Validate

\* A key is changed under the exclusive gate, for a command that is reserved.
LEMMA ChangeKeeps ==
  ASSUME Inv, NEW r \in Requests, Change(r)
  PROVE  Inv'
  <1>1. PICK q : q = requests[r] OBVIOUS
  <1>2. /\ q # None /\ q \in Slots /\ q.at = "change" /\ q.key \in Keys /\ q.op \in Changes
        /\ q.op # "delete" => Accepted(q)
        /\ q.op = "enroll" => gates.enrolling = r /\ CommandOf(q) \in DOMAIN journal
        /\ q.op = "configure" => q.secret \in Secrets
    BY <1>1 DEF Change, At, Inv, TypeInv, RequestInv, Changes
  <1>3. PICK c : c = CommandOf(q) OBVIOUS
  <1>4. /\ c \in Commands /\ c = <<q.op, q.key>> /\ c[1] = q.op
        /\ c[1] = "enroll" => PrintOf(q) = None
    BY <1>1, <1>2, <1>3, CommandTyped
  <1>5. PICK begun : begun = IF q.op = "enroll" THEN Commit(journal, [is |-> "NewlyReserved"])
                             ELSE BeginCredential(journal, c, PrintOf(q))
    OBVIOUS
  <1>6. PICK todo : todo = IF q.op = "delete" THEN Deletes
                           ELSE Stores(q.secret, c, q.outcome.resolved)
    OBVIOUS
  <1>7. PICK outcome : outcome = IF q.op = "delete" THEN [configured |-> FALSE, resolved |-> FALSE]
                                 ELSE q.outcome
    OBVIOUS
  <1>8. /\ gates.readers = {} /\ gates.writer = None
        /\ journal' = begun.tables /\ UNCHANGED <<vault, seen>>
        /\ \/ Answer(r)
           \/ /\ ~IsError(begun.answer) /\ gates' = [gates EXCEPT !.writer = r]
              /\ requests' = [requests EXCEPT ![r].at = "write", ![r].todo = todo,
                                             ![r].outcome = outcome]
    BY <1>1, <1>3, <1>5, <1>6, <1>7 DEF Change, Exclusive
  <1>9. /\ JournalOk(begun.tables) /\ Extends(journal, begun.tables)
        /\ ~IsError(begun.answer) =>
             /\ c \in DOMAIN begun.tables
             /\ q.op = "configure" => begun.tables[c].print = q.secret
    <2>1. CASE q.op = "enroll"
      BY <2>1, <1>2, <1>3, <1>5 DEF Commit, Extends, Inv, JournalInv
    <2>2. CASE q.op # "enroll"
      BY <2>2, <1>4, <1>5, BeginKeeps DEF Inv, JournalInv, PrintOf
    <2>3. QED BY <2>1, <2>2
  <1>10. JournalInv' /\ Grows /\ PromptInv' /\ VaultInv'
    BY <1>8, <1>9, JournalGrows DEF JournalInv
  <1>11. CASE Answer(r)
    <2>1. TypeInv' BY <1>8, <1>11, AnswerFrees DEF Inv, TypeInv
    <2>2. QED BY <1>8, <1>10, <1>11, <2>1, AnswerFrees, Assemble
  <1>12. CASE /\ ~IsError(begun.answer) /\ gates' = [gates EXCEPT !.writer = r]
              /\ requests' = [requests EXCEPT ![r].at = "write", ![r].todo = todo,
                                             ![r].outcome = outcome]
    <2>1. PICK new : new = [q EXCEPT !.at = "write", !.todo = todo, !.outcome = outcome] OBVIOUS
    <2>2. requests'[r] = new /\ \A x \in Requests \ {r} : requests'[x] = requests[x]
      BY <1>1, <1>12, <2>1 DEF Inv, TypeInv
    <2>3. outcome \in Outcomes BY <1>2, <1>7 DEF Outcomes, Accepted
    <2>4. q.op # "delete" => /\ q.secret \in Secrets /\ q.outcome.resolved \in BOOLEAN
                             /\ q.secret \in seen.collected[c]
      BY <1>2, <1>3 DEF Accepted, Outcomes
    <2>5. Stores(q.secret, c, q.outcome.resolved) \in Seq(Writes) \/ q.op = "delete"
      BY <2>4, <1>4, PlansTyped
    <2>6. Deletes \in Seq(Writes) BY WritesTyped DEF Deletes
    <2>7. todo \in Seq(Writes) BY <1>6, <2>5, <2>6
    <2>8. /\ new \in Slots /\ new.at = "write" /\ new.todo = todo /\ new.outcome = outcome
          /\ new.op = q.op /\ new.key = q.key /\ new.secret = q.secret
      BY <1>2, <2>1, <2>3, <2>7 DEF Slots, Steps
    <2>9. requests' \in [Requests -> Slots \cup {None}]
      BY <1>12, <2>2, <2>8 DEF Inv, TypeInv
    <2>10. /\ gates' \in [readers : SUBSET Requests, writer : Requests \cup {None},
                          enrolling : Requests \cup {None}]
           /\ gates'.readers = {} /\ gates'.writer = r /\ gates'.enrolling = gates.enrolling
      BY <1>8, <1>12 DEF Inv, TypeInv
    <2>11. TypeInv' BY <1>8, <2>9, <2>10 DEF Inv, TypeInv
    <2>12. GateInv' BY <2>10 DEF GateInv
    <2>13. CommandOf(new) = c BY <1>3, <2>8 DEF CommandOf
    <2>14. RequestInv(r)'
      <3>1. CASE q.op = "delete"
        <4>1. Deleting(todo)' BY <3>1, <1>6 DEF Deleting
        <4>2. QED BY <3>1, <4>1, <1>2, <2>2, <2>8, <2>10 DEF RequestInv, Changes
      <3>2. CASE q.op # "delete"
        <4>1. q.op \in {"configure", "enroll"} /\ outcome = q.outcome /\ Accepted(q)
          BY <3>2, <1>2, <1>7 DEF Changes
        <4>2. Accepted(new)' BY <4>1, <1>3, <1>8, <2>8, <2>13 DEF Accepted
        <4>3. Bound(c, q.secret)'
          BY <4>1, <1>4, <1>8, <1>9, <1>12, <2>4, <3>2 DEF Bound
        <4>4. Storing(todo, q.secret, c, outcome.resolved)'
          BY <3>2, <4>1, <1>6 DEF Storing
        <4>5. c \in DOMAIN journal' BY <1>8, <1>9, <1>12
        <4>6. QED
          BY <4>1, <4>2, <4>3, <4>4, <4>5, <1>2, <2>2, <2>4, <2>8, <2>10, <2>13 DEF RequestInv
      <3>3. QED BY <3>1, <3>2
    <2>15. \A x \in Requests \ {r} : Undisturbed(x)
      BY <1>8, <2>2, <2>10, NoneIsNoRequest DEF Undisturbed
    <2>16. QED BY <1>8, <1>10, <2>11, <2>12, <2>14, <2>15, Assemble
  <1>13. QED BY <1>8, <1>11, <1>12

\* The entry that a write changes, and the ones it leaves.
LEMMA WriteEntry ==
  ASSUME TypeInv, NEW w \in Writes, vault' = [vault EXCEPT ![w.entry] = w.is]
  PROVE  /\ vault' \in [key : Secrets \cup {None}, binding : Commands \cup {None},
                         marker : {"absent", "on", "off"}]
         /\ \A m : w = Marks(m) =>
              vault'.marker = m /\ vault'.key = vault.key /\ vault'.binding = vault.binding
         /\ \A b : w = Binds(b) =>
              vault'.binding = b /\ vault'.key = vault.key /\ vault'.marker = vault.marker
         /\ \A s : w = Keeps(s) =>
              vault'.key = s /\ vault'.binding = vault.binding /\ vault'.marker = vault.marker
  <1>1. CASE w \in [entry : {"key"}, is : Secrets \cup {None}]
    BY <1>1 DEF TypeInv, Marks, Binds, Keeps
  <1>2. CASE w \in [entry : {"binding"}, is : Commands \cup {None}]
    BY <1>2 DEF TypeInv, Marks, Binds, Keeps
  <1>3. CASE w \in [entry : {"marker"}, is : {"absent", "on", "off"}]
    BY <1>3 DEF TypeInv, Marks, Binds, Keeps
  <1>4. QED BY <1>1, <1>2, <1>3 DEF Writes

\* What a write of the plan of request q leaves: entries that still belong
\* together, the rest of the plan, and nothing that another request relies on.
WriteSafe(r, q, rest) ==
  /\ VaultInv' /\ rest \in Seq(Writes)
  /\ \A x \in Requests \ {r} : Untouched(x)
  /\ q.op = "refresh" => rest = <<>>
  /\ q.op # "refresh" => gates.writer = r /\ q.op \in Changes
  /\ q.op = "delete" /\ rest # <<>> => Deleting(rest)'
  /\ q.op \in {"configure", "enroll"} =>
       /\ Accepted(q) /\ Bound(CommandOf(q), q.secret)
       /\ rest # <<>> => Storing(rest, q.secret, CommandOf(q), q.outcome.resolved)'

\* No write is left to do.
LEMMA NothingLeft == <<>> \in Seq(Writes)
OBVIOUS

\* A refresh writes only the readiness marker of the stored key.
LEMMA RefreshWrites ==
  ASSUME Inv, NEW r \in Requests, NEW q, q = requests[r], q # None, q.at = "write",
         q.op = "refresh", vault' = [vault EXCEPT ![Head(q.todo).entry] = Head(q.todo).is],
         UNCHANGED <<journal, seen>>
  PROVE  Head(q.todo) \in Writes /\ WriteSafe(r, q, Tail(q.todo))
  <1>1. PICK m \in {"on", "off"} :
          /\ q.todo = <<Marks(m)>>
          /\ m = "on" => /\ r \in gates.readers /\ vault.key = q.secret
                         /\ q.secret \in seen.resolving
    BY DEF Inv, RequestInv, Changes
  <1>2. Head(q.todo) = Marks(m) /\ Tail(q.todo) = <<>> BY <1>1
  <1>3. Marks(m) \in Writes BY WritesTyped
  <1>4. vault'.marker = m /\ vault'.key = vault.key /\ vault'.binding = vault.binding
    BY <1>2, <1>3, WriteEntry DEF Inv
  <1>5. VaultInv' BY <1>1, <1>4 DEF Inv, VaultInv, Bound
  <1>6. \A x \in Requests \ {r} : Untouched(x)
    BY <1>1, <1>4, NoneIsNoRequest DEF Inv, GateInv, Untouched
  <1>7. QED BY <1>2, <1>3, <1>5, <1>6, NothingLeft DEF WriteSafe

\* The exclusive side of the gate: nobody else relies on the vault.
LEMMA WriterAlone ==
  ASSUME Inv, NEW r \in Requests, gates.writer = r
  PROVE  \A x \in Requests \ {r} : Untouched(x)
BY NoneIsNoRequest DEF Inv, GateInv, Untouched

\* A deletion takes the key away before its binding and the marker.
LEMMA DeleteWrites ==
  ASSUME Inv, NEW r \in Requests, NEW q, q = requests[r], q # None, q.at = "write",
         q.op = "delete", vault' = [vault EXCEPT ![Head(q.todo).entry] = Head(q.todo).is],
         UNCHANGED <<journal, seen>>
  PROVE  Head(q.todo) \in Writes /\ WriteSafe(r, q, Tail(q.todo))
  <1>1. gates.writer = r /\ Deleting(q.todo) BY DEF Inv, RequestInv, Changes
  <1>2. \A x \in Requests \ {r} : Untouched(x) BY <1>1, WriterAlone
  <1>3. /\ Keeps(None) \in Writes /\ Binds(None) \in Writes /\ Marks("absent") \in Writes
    BY WritesTyped
  <1>4. TypeInv /\ VaultInv BY DEF Inv
  <1>5. CASE q.todo = Deletes
    <2>1. Head(q.todo) = Keeps(None) /\ Tail(q.todo) = Gone1 BY <1>5, PlansUnfold
    <2>2. vault'.key = None BY <1>3, <1>4, <2>1, WriteEntry
    <2>3. VaultInv' BY <2>2 DEF VaultInv
    <2>4. Deleting(Gone1)' /\ Gone1 \in Seq(Writes) BY <1>3, <2>2 DEF Deleting, Gone1
    <2>5. QED BY <1>1, <1>2, <1>3, <2>1, <2>3, <2>4 DEF WriteSafe, Changes
  <1>6. CASE q.todo = Gone1 /\ vault.key = None
    <2>1. Head(q.todo) = Binds(None) /\ Tail(q.todo) = Gone2 BY <1>6 DEF Gone1, Gone2
    <2>2. vault'.key = None BY <1>3, <1>4, <1>6, <2>1, WriteEntry
    <2>3. VaultInv' BY <2>2 DEF VaultInv
    <2>4. Deleting(Gone2)' /\ Gone2 \in Seq(Writes) BY <1>3, <2>2 DEF Deleting, Gone2
    <2>5. QED BY <1>1, <1>2, <1>3, <2>1, <2>3, <2>4 DEF WriteSafe, Changes
  <1>7. CASE q.todo = Gone2 /\ vault.key = None
    <2>1. Head(q.todo) = Marks("absent") /\ Tail(q.todo) = <<>> BY <1>7 DEF Gone2
    <2>2. vault'.key = None BY <1>3, <1>4, <1>7, <2>1, WriteEntry
    <2>3. VaultInv' BY <2>2 DEF VaultInv
    <2>4. QED BY <1>1, <1>2, <1>3, <2>1, <2>3, NothingLeft DEF WriteSafe, Changes
  <1>8. QED BY <1>1, <1>5, <1>6, <1>7 DEF Deleting

\* store_validated_xai_api_key clears marker and binding before it writes the key.
LEMMA StoreWrites ==
  ASSUME Inv, NEW r \in Requests, NEW q, q = requests[r], q # None, q.at = "write",
         q.op \in {"configure", "enroll"},
         vault' = [vault EXCEPT ![Head(q.todo).entry] = Head(q.todo).is],
         UNCHANGED <<journal, seen>>
  PROVE  Head(q.todo) \in Writes /\ WriteSafe(r, q, Tail(q.todo))
  <1>1. PICK s, b, on : s = q.secret /\ b = CommandOf(q) /\ on = q.outcome.resolved OBVIOUS
  <1>2. /\ gates.writer = r /\ Accepted(q) /\ Bound(b, s) /\ Storing(q.todo, s, b, on)
    BY <1>1 DEF Inv, RequestInv, Changes
  <1>3. /\ s \in Secrets /\ b \in Commands /\ on \in BOOLEAN
        /\ on => s \in seen.resolving
    BY <1>1, <1>2 DEF Bound, Accepted, Outcomes
  <1>4. \A x \in Requests \ {r} : Untouched(x) BY <1>2, WriterAlone
  <1>5. /\ Keeps(s) \in Writes /\ Binds(None) \in Writes /\ Binds(b) \in Writes
        /\ Marks("off") \in Writes /\ Marks("on") \in Writes
    BY <1>3, WritesTyped
  <1>6. TypeInv /\ VaultInv BY DEF Inv
  <1>7. Bound(b, s)' BY <1>2 DEF Bound
  <1>8. ASSUME NEW rest \in Seq(Writes), VaultInv', Tail(q.todo) = rest,
               rest # <<>> => Storing(rest, s, b, on)'
        PROVE  WriteSafe(r, q, Tail(q.todo))
    BY <1>1, <1>2, <1>4, <1>8 DEF WriteSafe, Changes
  <1>9. CASE q.todo = Stores(s, b, on)
    <2>1. Head(q.todo) = Marks("off") /\ Tail(q.todo) = Rest1(s, b, on)
      BY <1>3, <1>9, PlansUnfold
    <2>2. vault'.marker = "off" /\ vault'.key = vault.key /\ vault'.binding = vault.binding
      BY <1>5, <1>6, <2>1, WriteEntry
    <2>3. VaultInv' BY <1>6, <2>2 DEF VaultInv, Bound
    <2>4. Storing(Rest1(s, b, on), s, b, on)' BY <2>2 DEF Storing
    <2>5. QED BY <1>3, <1>5, <1>8, <2>1, <2>3, <2>4, PlansTyped
  <1>10. CASE q.todo = Rest1(s, b, on) /\ vault.marker # "on"
    <2>1. Head(q.todo) = Binds(None) /\ Tail(q.todo) = Rest2(s, b, on)
      BY <1>3, <1>10, PlansUnfold
    <2>2. vault'.binding = None /\ vault'.key = vault.key /\ vault'.marker = vault.marker
      BY <1>5, <1>6, <2>1, WriteEntry
    <2>3. VaultInv' BY <1>10, <2>2 DEF VaultInv
    <2>4. Storing(Rest2(s, b, on), s, b, on)' BY <1>10, <2>2 DEF Storing
    <2>5. QED BY <1>3, <1>5, <1>8, <2>1, <2>3, <2>4, PlansTyped
  <1>11. CASE q.todo = Rest2(s, b, on) /\ vault.marker # "on" /\ vault.binding = None
    <2>1. Head(q.todo) = Keeps(s) /\ Tail(q.todo) = Rest3(b, on)
      BY <1>3, <1>11, PlansUnfold
    <2>2. vault'.key = s /\ vault'.binding = vault.binding /\ vault'.marker = vault.marker
      BY <1>5, <1>6, <2>1, WriteEntry
    <2>3. VaultInv' BY <1>11, <2>2 DEF VaultInv
    <2>4. Storing(Rest3(b, on), s, b, on)' BY <1>11, <2>2 DEF Storing
    <2>5. QED BY <1>3, <1>5, <1>8, <2>1, <2>3, <2>4, PlansTyped
  <1>12. CASE /\ q.todo = Rest3(b, on) /\ vault.marker # "on" /\ vault.binding = None
              /\ vault.key = s
    <2>1. Head(q.todo) = Binds(b) /\ Tail(q.todo) = IF on THEN Rest4 ELSE <<>>
      BY <1>3, <1>12, PlansUnfold
    <2>2. vault'.binding = b /\ vault'.key = s /\ vault'.marker = vault.marker
      BY <1>5, <1>6, <1>12, <2>1, WriteEntry
    <2>3. VaultInv' BY <1>7, <1>12, <2>2 DEF VaultInv, Bound
    <2>4. on => Storing(Rest4, s, b, on)' BY <2>2 DEF Storing
    <2>5. Rest4 \in Seq(Writes) BY <1>3, PlansTyped
    <2>a. Tail(q.todo) \in Seq(Writes) BY <2>1, <2>5, NothingLeft
    <2>6. QED BY <1>3, <1>5, <1>8, <2>1, <2>3, <2>4, <2>a
  <1>13. CASE q.todo = Rest4 /\ on /\ vault.key = s
    <2>1. Head(q.todo) = Marks("on") /\ Tail(q.todo) = <<>>
      BY <1>3, <1>13, PlansUnfold
    <2>2. vault'.marker = "on" /\ vault'.key = s /\ vault'.binding = vault.binding
      BY <1>5, <1>6, <1>13, <2>1, WriteEntry
    <2>3. VaultInv' BY <1>3, <1>6, <1>13, <2>2 DEF VaultInv, Bound
    <2>4. QED BY <1>5, <1>8, <2>1, <2>3, NothingLeft
  <1>14. QED BY <1>2, <1>9, <1>10, <1>11, <1>12, <1>13 DEF Storing

\* Each write of the vault keeps the invariant.
LEMMA WriteKeeps ==
  ASSUME Inv, NEW r \in Requests, Write(r)
  PROVE  Inv'
  <1>1. PICK q : q = requests[r] OBVIOUS
  <1>2. PICK rest : rest = Tail(q.todo) OBVIOUS
  <1>3. /\ q # None /\ q \in Slots /\ q.at = "write" /\ UNCHANGED <<journal, seen>>
        /\ vault' = [vault EXCEPT ![Head(q.todo).entry] = Head(q.todo).is]
        /\ IF rest # <<>>
             THEN requests' = [requests EXCEPT ![r].todo = rest] /\ UNCHANGED gates
           ELSE IF q.op = "refresh" THEN Answer(r)
           ELSE /\ requests' = [requests EXCEPT ![r].todo = rest, ![r].at = "complete"]
                /\ gates' = IF q.op = "enroll" THEN [gates EXCEPT !.writer = None] ELSE gates
    BY <1>1, <1>2 DEF Write, At, Op, Inv, TypeInv
  <1>4. q.op \in {"refresh", "delete", "configure", "enroll"}
    BY <1>1, <1>3 DEF Inv, RequestInv
  <1>5. Head(q.todo) \in Writes /\ WriteSafe(r, q, rest)
    BY <1>1, <1>2, <1>3, <1>4, RefreshWrites, DeleteWrites, StoreWrites
  <1>6. vault' \in [key : Secrets \cup {None}, binding : Commands \cup {None},
                    marker : {"absent", "on", "off"}]
    BY <1>3, <1>5, WriteEntry DEF Inv
  <1>7. JournalInv' /\ PromptInv' /\ Grows
    BY <1>3 DEF Inv, JournalInv, JournalOk, PromptInv, Grows
  <1>8. VaultInv' /\ \A x \in Requests \ {r} : Untouched(x) BY <1>5 DEF WriteSafe
  <1>9. CASE rest = <<>> /\ q.op = "refresh"
    <2>1. Answer(r) BY <1>3, <1>9
    <2>2. TypeInv' BY <1>3, <1>6, <2>1, AnswerFrees DEF Inv, TypeInv
    <2>3. QED BY <1>3, <1>7, <1>8, <2>1, <2>2, AnswerFrees, AssembleWrite
  <1>10. CASE ~(rest = <<>> /\ q.op = "refresh")
    <2>1. PICK at \in {"write", "complete"} :
            /\ at = IF rest = <<>> THEN "complete" ELSE "write"
      OBVIOUS
    <2>2. PICK new : new = [q EXCEPT !.todo = rest, !.at = at] OBVIOUS
    <2>3. /\ requests'[r] = new /\ \A x \in Requests \ {r} : requests'[x] = requests[x]
          /\ DOMAIN requests' = Requests
      <3>1. CASE rest = <<>>
        BY <3>1, <1>1, <1>3, <1>10, <2>1, <2>2 DEF Inv, TypeInv
      <3>2. CASE rest # <<>>
        <4>1. new = [q EXCEPT !.todo = rest] BY <3>2, <1>3, <2>1, <2>2 DEF Slots
        <4>2. QED BY <3>2, <4>1, <1>1, <1>3 DEF Inv, TypeInv
      <3>3. QED BY <3>1, <3>2
    <2>4. /\ new \in Slots /\ new.at = at /\ new.todo = rest /\ new.op = q.op
          /\ new.key = q.key /\ new.secret = q.secret /\ new.outcome = q.outcome
      BY <1>3, <1>5, <2>1, <2>2 DEF Slots, Steps, WriteSafe
    <2>5. requests' \in [Requests -> Slots \cup {None}]
      <3>1. requests' = [x \in Requests |-> requests'[x]]
        BY <1>3, <1>10 DEF Inv, TypeInv
      <3>2. QED BY <3>1, <2>3, <2>4 DEF Inv, TypeInv
    <2>6. /\ gates' \in [readers : SUBSET Requests, writer : Requests \cup {None},
                         enrolling : Requests \cup {None}]
          /\ gates'.readers = gates.readers /\ gates'.enrolling = gates.enrolling
          /\ gates'.writer = gates.writer \/ (gates'.writer = None /\ gates.writer = r)
          /\ rest # <<>> => gates'.writer = gates.writer
      BY <1>3, <1>5, <1>10 DEF Inv, TypeInv, WriteSafe
    <2>7. TypeInv' BY <1>3, <1>6, <2>5, <2>6 DEF Inv, TypeInv
    <2>8. GateInv' BY <2>6 DEF Inv, GateInv
    <2>9. CommandOf(new) = CommandOf(q) BY <2>4 DEF CommandOf
    <2>10. \A x \in Requests \ {r} : Undisturbed(x)
      BY <1>3, <2>3, <2>6 DEF Undisturbed
    <2>11. /\ q.op \in Changes /\ q.key \in Keys /\ gates.writer = r
           /\ q.op = "configure" => q.secret \in Secrets
           /\ q.op = "enroll" => gates.enrolling = r /\ CommandOf(q) \in DOMAIN journal
      BY <1>1, <1>3, <1>5, <1>10 DEF Inv, RequestInv, WriteSafe
    <2>12. RequestInv(r)'
      <3>1. CASE rest = <<>>
        BY <3>1, <1>3, <2>1, <2>3, <2>4, <2>6, <2>9, <2>11 DEF RequestInv, Changes
      <3>2. CASE rest # <<>> /\ q.op = "delete"
        BY <3>2, <1>5, <2>1, <2>3, <2>4, <2>6, <2>11 DEF RequestInv, WriteSafe
      <3>3. CASE rest # <<>> /\ q.op # "delete"
        <4>1. q.op \in {"configure", "enroll"} BY <3>3, <2>11 DEF Changes
        <4>2. /\ Accepted(q) /\ Bound(CommandOf(q), q.secret)
              /\ Storing(rest, q.secret, CommandOf(q), q.outcome.resolved)'
          BY <3>3, <4>1, <1>5 DEF WriteSafe
        <4>3. Accepted(new)' BY <4>2, <1>3, <2>4, <2>9 DEF Accepted
        <4>4. Bound(CommandOf(q), q.secret)' BY <4>2, <1>3 DEF Bound
        <4>5. QED
          BY <3>3, <4>1, <4>2, <4>3, <4>4, <1>3, <2>1, <2>3, <2>4, <2>6, <2>9, <2>11
          DEF RequestInv
      <3>4. QED BY <3>1, <3>2, <3>3
    <2>13. QED BY <1>7, <1>8, <2>7, <2>8, <2>10, <2>12, AssembleWrite
  <1>11. QED BY <1>9, <1>10

\* A command is completed and the request ends.
LEMMA CompletedKeeps ==
  ASSUME Inv, NEW r \in Requests, Answer(r), UNCHANGED <<vault, seen>>,
         NEW c, NEW print, NEW outcome,
         journal' = CompleteCredential(journal, c, print, outcome).tables
  PROVE  Inv'
  <1>1. JournalOk(journal') /\ Extends(journal, journal')
    BY CompleteKeeps DEF Inv, JournalInv
  <1>2. JournalInv' /\ Grows /\ PromptInv' /\ VaultInv'
    BY <1>1, JournalGrows DEF JournalInv
  <1>3. TypeInv' BY AnswerFrees DEF Inv, TypeInv
  <1>4. QED BY <1>2, <1>3, AnswerFrees, Assemble

\* Completing or reconciling a command records the outcome of what was written.
LEMMA CompleteStepKeeps ==
  ASSUME Inv, NEW r \in Requests, Complete(r) \/ Reconcile(r)
  PROVE  Inv'
  <1>1. Answer(r) /\ UNCHANGED <<vault, seen>> BY DEF Complete, Reconcile
  <1>2. CASE UNCHANGED journal BY <1>1, <1>2, EndKeeps
  <1>3. CASE ~UNCHANGED journal
    <2>1. PICK c, print, outcome :
            journal' = CompleteCredential(journal, c, print, outcome).tables
      BY <1>3 DEF Complete, Reconcile
    <2>2. QED BY <1>1, <2>1, CompletedKeeps
  <1>4. QED BY <1>2, <1>3

\* A binding stands for one key.
LEMMA OneKey ==
  ASSUME PromptInv, NEW b, NEW s, NEW u, Bound(b, s), Bound(b, u)
  PROVE  s = u
  <1>1. CASE b[1] = "enroll"
    <2>1. b \in Commands /\ s \in seen.collected[b] /\ u \in seen.collected[b] BY DEF Bound
    <2>2. PICK k \in Keys : b = <<"enroll", k>> BY <1>1, <2>1 DEF Commands
    <2>3. QED BY <2>1, <2>2 DEF PromptInv
  <1>2. CASE b[1] # "enroll" BY <1>2 DEF Bound
  <1>3. QED BY <1>1, <1>2

\* A lease reads the key together with its binding, or is refused.
LEMMA LeaseKeeps ==
  ASSUME Inv, NEW r \in Requests, Lease(r)
  PROVE  Inv'
  <1>1. PICK q : q = requests[r] OBVIOUS
  <1>2. /\ q # None /\ q \in Slots /\ q.at = "lease" /\ q.op \in {"refresh", "turn"}
        /\ gates.writer = None /\ UNCHANGED <<vault, journal, seen>>
    BY <1>1 DEF Lease, At, Inv, TypeInv, RequestInv
  <1>3. CASE Answer(r) BY <1>2, <1>3, EndKeeps
  <1>4. CASE /\ Op(r) = "refresh" /\ UNCHANGED gates
             /\ requests' = [requests EXCEPT ![r].at = "write", ![r].todo = <<Marks("off")>>]
    BY <1>1, <1>2, <1>4, UnmarkKeeps
  <1>5. CASE /\ Loaded /\ gates' = [gates EXCEPT !.readers = @ \cup {r}]
             /\ requests' = [requests EXCEPT
                  ![r].at = IF Op(r) = "refresh" THEN "validate" ELSE "prepare",
                  ![r].secret = vault.key, ![r].binding = vault.binding]
    <2>1. PICK at, s, b : /\ at = IF q.op = "refresh" THEN "validate" ELSE "prepare"
                          /\ s = vault.key /\ b = vault.binding
      OBVIOUS
    <2>2. at \in {"validate", "prepare"} /\ s \in Secrets /\ b \in Commands /\ Bound(b, s)
      BY <1>5, <2>1 DEF Loaded, Inv, TypeInv, VaultInv
    <2>3. PICK new : new = [q EXCEPT !.at = at, !.secret = s, !.binding = b] OBVIOUS
    <2>4. requests'[r] = new /\ \A x \in Requests \ {r} : requests'[x] = requests[x]
      BY <1>1, <1>5, <2>1, <2>3 DEF Inv, TypeInv, Op
    <2>5. /\ new \in Slots /\ new.at = at /\ new.secret = s /\ new.binding = b
          /\ new.op = q.op
      BY <1>2, <2>2, <2>3 DEF Slots, Steps
    <2>6. requests' \in [Requests -> Slots \cup {None}] BY <1>5, <2>4, <2>5 DEF Inv, TypeInv
    <2>7. /\ gates' \in [readers : SUBSET Requests, writer : Requests \cup {None},
                         enrolling : Requests \cup {None}]
          /\ gates'.readers = gates.readers \cup {r} /\ gates'.writer = None
          /\ gates'.enrolling = gates.enrolling
      BY <1>2, <1>5 DEF Inv, TypeInv
    <2>8. TypeInv' /\ GateInv' BY <1>2, <2>6, <2>7 DEF Inv, TypeInv, GateInv
    <2>9. JournalInv' /\ PromptInv' /\ VaultInv' /\ Grows BY <1>2, Quiet
    <2>10. Bound(b, s)' BY <1>2, <2>2 DEF Bound
    <2>11. RequestInv(r)'
      BY <1>2, <2>1, <2>2, <2>4, <2>5, <2>7, <2>10 DEF RequestInv, Changes
    <2>12. \A x \in Requests \ {r} : Undisturbed(x)
      BY <1>2, <2>4, <2>7, NoneIsNoRequest DEF Undisturbed
    <2>13. QED BY <1>2, <2>8, <2>9, <2>11, <2>12, Assemble
  <1>6. QED BY <1>3, <1>4, <1>5 DEF Lease

\* A turn goes on, with the gate in a state that fits.
LEMMA TurnKeeps ==
  ASSUME Inv, NEW r \in Requests, requests[r] # None, NEW at \in {"dispatch", "sending"},
         requests[r].at \in {"prepare", "dispatch"}, Goes(r, at),
         gates' = IF at = "sending" THEN [gates EXCEPT !.readers = @ \cup {r}] ELSE Mine(r),
         at = "sending" => /\ gates.writer = None /\ vault.key # None
                           /\ vault.binding # None /\ vault.binding = requests[r].binding,
         UNCHANGED <<vault, journal, seen>>
  PROVE  Inv'
  <1>1. PICK q : q = requests[r] OBVIOUS
  <1>2. q # None /\ q \in Slots /\ q.op = "turn" /\ Bound(q.binding, q.secret)
    BY <1>1 DEF Inv, TypeInv, RequestInv
  <1>3. PICK new : new = [q EXCEPT !.at = at] OBVIOUS
  <1>4. requests'[r] = new /\ \A x \in Requests \ {r} : requests'[x] = requests[x]
    BY <1>1, <1>3 DEF Goes, Inv, TypeInv
  <1>5. /\ new \in Slots /\ new.at = at /\ new.op = "turn" /\ new.secret = q.secret
        /\ new.binding = q.binding
    BY <1>2, <1>3 DEF Slots, Steps
  <1>6. requests' \in [Requests -> Slots \cup {None}] BY <1>4, <1>5 DEF Goes, Inv, TypeInv
  <1>7. /\ gates' \in [readers : SUBSET Requests, writer : Requests \cup {None},
                       enrolling : Requests \cup {None}]
        /\ at = "sending" => r \in gates'.readers
        /\ \A x \in Requests \ {r} : Undisturbed(x)
        /\ GateInv'
    BY <1>4, NoneIsNoRequest DEF Inv, TypeInv, Mine, Undisturbed, GateInv
  <1>8. TypeInv' BY <1>6, <1>7 DEF Inv, TypeInv
  <1>9. JournalInv' /\ PromptInv' /\ VaultInv' /\ Grows BY Quiet
  <1>10. Bound(q.binding, q.secret)' BY <1>2 DEF Bound
  <1>11. at = "sending" => vault.binding = q.binding /\ vault.key = q.secret
    <2> SUFFICES ASSUME at = "sending" PROVE vault.binding = q.binding /\ vault.key = q.secret
      OBVIOUS
    <2>1. PICK s : s = vault.key OBVIOUS
    <2>2. vault.binding = q.binding BY <1>1
    <2>3. Bound(q.binding, s) BY <2>1, <2>2 DEF Inv, VaultInv
    <2>4. QED BY <1>2, <2>1, <2>2, <2>3, OneKey DEF Inv
  <1>12. RequestInv(r)'
    BY <1>4, <1>5, <1>7, <1>10, <1>11 DEF RequestInv, Changes
  <1>13. QED BY <1>7, <1>8, <1>9, <1>12, Assemble

\* A turn is sent only while the binding is the one its records name.
LEMMA UseKeeps ==
  ASSUME Inv, NEW r \in Requests, Prepare(r) \/ Acquire(r) \/ Sent(r)
  PROVE  Inv'
  <1>1. UNCHANGED <<vault, journal, seen>> BY DEF Prepare, Acquire, Sent
  <1>2. CASE Answer(r) BY <1>1, <1>2, EndKeeps
  <1>3. CASE Prepare(r) BY <1>1, <1>3, TurnKeeps DEF Prepare, At
  <1>4. CASE Acquire(r) /\ ~Answer(r)
    BY <1>1, <1>4, TurnKeeps DEF Acquire, At, Loaded
  <1>5. QED BY <1>2, <1>3, <1>4 DEF Sent

\* A stop of the daemon drops every request and keeps vault and journal.
LEMMA StopKeeps ==
  ASSUME Inv, Stop
  PROVE  Inv'
  <1>1. UNCHANGED <<vault, journal, seen>> BY DEF Stop
  <1>2. JournalInv' /\ PromptInv' /\ VaultInv' BY <1>1, Quiet
  <1>3. TypeInv' /\ GateInv' BY <1>1 DEF Stop, Inv, TypeInv, GateInv, OpenGates
  <1>4. \A x \in Requests : RequestInv(x)' BY DEF Stop, RequestInv
  <1>5. QED BY <1>2, <1>3, <1>4 DEF Inv

-----------------------------------------------------------------------------
(* The theorems. *)

\* Every step keeps what the requests, the vault and the journal know of each
\* other: CredentialService and CredentialEnrollmentService, with failed
\* writes and a daemon that stops anywhere.
THEOREM StepsKeepInv == Inv /\ [Next]_vars => Inv'
  <1> SUFFICES ASSUME Inv, [Next]_vars PROVE Inv' OBVIOUS
  <1>1. CASE UNCHANGED vars BY <1>1, StutterKeeps
  <1>2. CASE Stop BY <1>2, StopKeeps
  <1>3. ASSUME NEW r \in Requests, Ask(r) \/ Proceed(r) \/ WriteFails(r) PROVE Inv'
    <2>1. CASE Ask(r) BY <2>1, AskKeeps
    <2>2. CASE WriteFails(r) BY <2>2, EndKeeps DEF WriteFails
    <2>3. CASE Proceed(r)
      BY <2>3, ResolveKeeps, EnterKeeps, PromptKeeps, ValidateKeeps, ChangeKeeps, WriteKeeps,
         CompleteStepKeeps, LeaseKeeps, UseKeeps DEF Proceed
    <2>4. QED BY <1>3, <2>1, <2>2, <2>3
  <1>4. QED BY <1>1, <1>2, <1>3 DEF Next

\* The inductive invariant implies what the service promises.
LEMMA InvImpliesSound == Inv => CredentialsSound
  <1> SUFFICES ASSUME Inv PROVE CredentialsSound OBVIOUS
  <1>1. \A r \in Requests : Sending(r) =>
          vault.key = requests[r].secret /\ vault.binding = requests[r].binding
    BY DEF Inv, RequestInv, Sending, At
  <1>2. vault.key # None /\ vault.marker = "on" => vault.key \in seen.resolving
    BY DEF Inv, VaultInv
  <1>3. vault.key # None /\ vault.binding # None => vault.key \in seen.collected[vault.binding]
    BY DEF Inv, VaultInv, Bound
  <1>4. \A k \in Keys : seen.prompts[k] <= 1 BY DEF Inv, TypeInv
  <1>5. QED BY <1>1, <1>2, <1>3, <1>4 DEF CredentialsSound

\* A turn on the wire uses the stored key under the binding its records name;
\* the readiness marker is set only for a key that xAI said resolves models; a
\* stored binding names the command its key was collected for; no command
\* prompts twice.  For any number of requests, keys and idempotency keys, and
\* whatever vault writes fail and wherever the daemon stops.
THEOREM CredentialsHold == Spec => []CredentialsSound
  <1>1. Init => Inv BY InitKeeps
  <1>2. Inv /\ [Next]_vars => Inv' BY StepsKeepInv
  <1>3. Inv => CredentialsSound BY InvImpliesSound
  <1>4. QED BY <1>1, <1>2, <1>3, PTL DEF Spec
=============================================================================
