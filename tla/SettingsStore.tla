---------------------------- MODULE SettingsStore ----------------------------
(***************************************************************************)
(* The revisioned singletons of the database, each with its command table: *)
(* the desktop preferences, the chat model preference and the Host Tools   *)
(* policy.  Next to each operation of the database stands the one of the   *)
(* in-memory store.                                                        *)
(*                                                                         *)
(* A singleton is [row, commands], the row a [value, revision, updated].   *)
(* The database has the row from its migration on; in memory the Host      *)
(* Tools policy is absent until it is first replaced.                      *)
(***************************************************************************)
EXTENDS Integers, CredentialJournal

CONSTANT None     \* a setting nobody has chosen

Fresh == [value |-> None, revision |-> 0, updated |-> 0]
NoSettings == [row |-> Fresh, commands |-> [k \in Keys |-> None]]
NoMemSettings(absent) ==
  [row |-> IF absent THEN None ELSE Fresh, commands |-> [k \in Keys |-> None]]

PriorMutation(t, key, print) ==
  IF t.commands[key] = None THEN [is |-> "Unknown"]
  ELSE IF t.commands[key].print # print THEN Error("Conflict")
  ELSE [is |-> "Saved", row |-> t.commands[key].row]

\* Replaces the row whose revision the caller expects, with the one that
\* follows it, and records the command in the same transaction.
SaveSetting(t, new, expected, key, print) ==
  LET prior == PriorMutation(t, key, print) IN
  IF IsError(prior) \/ prior.is = "Saved" THEN Refuse(t, prior)
  ELSE IF new.revision # expected + 1 \/ t.row.revision # expected
    THEN Refuse(t, Error("Conflict"))
  ELSE Commit([row |-> new,
               commands |-> [t.commands EXCEPT ![key] = [print |-> print, row |-> new]]],
              [is |-> "Saved", row |-> new])

MemRow(m) == IF m.row = None THEN Fresh ELSE m.row

MemSaveSetting(m, new, expected, key, print) ==
  LET prior == PriorMutation(m, key, print) IN
  IF IsError(prior) \/ prior.is = "Saved" THEN Refuse(m, prior)
  ELSE IF MemRow(m).revision # expected \/ new.revision # expected + 1
    THEN Refuse(m, Error("Conflict"))
  ELSE Commit([row |-> new,
               commands |-> [m.commands EXCEPT ![key] = [print |-> print, row |-> new]]],
              [is |-> "Saved", row |-> new])

-----------------------------------------------------------------------------
(* The same calls of the settings ports and of the credential journal,     *)
(* legal or not, in every order on the encrypted database and on the       *)
(* in-memory store: the desktop preferences, the chat model preference,    *)
(* the Host Tools policy and the vault's commands.                         *)

Settings == {"desktop", "model", "policy"}

Calls(values, revisions) ==
  [op : {"save"}, setting : Settings, key : Keys, value : values, revision : 1..revisions,
   expected : 0..revisions]
  \cup [op : {"resolve"}, setting : Settings, key : Keys, value : values]
  \cup [op : {"get"}, setting : Settings]
  \cup [op : {"begin", "find"}, setting : {"vault"}, command : Commands, value : values]
  \cup [op : {"complete"}, setting : {"vault"}, command : Commands, value : values,
        outcome : {"set", "unset"}]

Saved(c) == [value |-> c.value, revision |-> c.revision, updated |-> c.revision]

\* t is the setting's singleton or the vault's journal.
OnTables(t, c) ==
  CASE c.op = "save" -> SaveSetting(t, Saved(c), c.expected, c.key, c.value)
    [] c.op = "resolve" -> Refuse(t, PriorMutation(t, c.key, c.value))
    [] c.op = "get" -> Refuse(t, [row |-> t.row])
    [] c.op = "begin" -> BeginCredential(t, c.command, c.value)
    [] c.op = "find" -> Refuse(t, ResolveCredential(t, c.command, c.value))
    [] c.op = "complete" -> CompleteCredential(t, c.command, c.value, c.outcome)

OnMaps(m, c) ==
  CASE c.op = "save" -> MemSaveSetting(m, Saved(c), c.expected, c.key, c.value)
    [] c.op = "resolve" -> Refuse(m, PriorMutation(m, c.key, c.value))
    [] c.op = "get" -> Refuse(m, [row |-> MemRow(m)])
    [] c.op = "begin" -> MemBeginCredential(m, c.command, c.value)
    [] c.op = "find" -> Refuse(m, MemResolveCredential(m, c.command, c.value))
    [] c.op = "complete" -> MemCompleteCredential(m, c.command, c.value, c.outcome)

Same(x, y) == IF IsError(x) \/ IsError(y) THEN IsError(x) /\ IsError(y) ELSE x = y

\* Both stores hold the same rows and commands.
Agree(setting, t, m) ==
  IF setting = "vault" THEN m = t
  ELSE MemRow(m) = t.row /\ m.commands = t.commands
=============================================================================
