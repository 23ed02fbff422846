-------------------------- MODULE CredentialJournal --------------------------
(***************************************************************************)
(* The journal of the commands that change the vault: the table            *)
(* credential_commands of the encrypted database and, next to each         *)
(* operation, the one of the in-memory store.  An operation is an operator *)
(* from the journal and its arguments to the journal it leaves and the     *)
(* answer it gives.                                                        *)
(***************************************************************************)
CONSTANT Keys     \* idempotency keys

Refuse(t, answer) == [tables |-> t, answer |-> answer]
Commit(t, answer) == [tables |-> t, answer |-> answer]
Error(e) == [error |-> e]
IsError(a) == "error" \in DOMAIN a

(* scope and key -> [print, reservation], for the commands there are *)
Scopes == {"configure", "enroll", "delete"}
Commands == Scopes \X Keys
NoCommands == [c \in {} |-> {}]

Pending == [is |-> "Pending"]
Completed(outcome) == [is |-> "Completed", outcome |-> outcome]

With(t, c, row) == [d \in DOMAIN t \cup {c} |-> IF d = c THEN row ELSE t[d]]
Row(print, reservation) == [print |-> print, reservation |-> reservation]

ResolveCredential(t, c, print) ==
  IF c \notin DOMAIN t THEN [is |-> "Unknown"]
  ELSE IF t[c].print # print THEN Error("Conflict")
  ELSE t[c].reservation

BeginCredential(t, c, print) ==
  IF c \in DOMAIN t THEN Refuse(t, ResolveCredential(t, c, print))
  ELSE Commit(With(t, c, Row(print, Pending)), [is |-> "NewlyReserved"])

CompleteCredential(t, c, print, outcome) ==
  IF c \notin DOMAIN t THEN Refuse(t, Error("NotFound"))
  ELSE IF t[c].print # print THEN Refuse(t, Error("Conflict"))
  ELSE IF t[c].reservation = Pending
    THEN Commit(With(t, c, Row(print, Completed(outcome))), [is |-> "Done"])
  ELSE Refuse(t, IF t[c].reservation = Completed(outcome) THEN [is |-> "Done"]
                 ELSE Error("Conflict"))

\* The in-memory journal.
MemResolveCredential(m, c, print) ==
  IF c \notin DOMAIN m THEN [is |-> "Unknown"]
  ELSE IF m[c].print = print THEN m[c].reservation
  ELSE Error("Conflict")

MemBeginCredential(m, c, print) ==
  IF c \notin DOMAIN m
    THEN Commit(With(m, c, Row(print, Pending)), [is |-> "NewlyReserved"])
    ELSE Refuse(m, MemResolveCredential(m, c, print))

MemCompleteCredential(m, c, print, outcome) ==
  IF c \notin DOMAIN m THEN Refuse(m, Error("NotFound"))
  ELSE IF m[c].print # print \/ m[c].reservation \notin {Pending, Completed(outcome)}
    THEN Refuse(m, Error("Conflict"))
  ELSE Commit(With(m, c, Row(print, Completed(outcome))), [is |-> "Done"])
=============================================================================
