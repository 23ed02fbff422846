------------------------------- MODULE GrokHome -------------------------------
(***************************************************************************)
(* The private home of the agent: its directories, its lock and the two    *)
(* configuration files the daemon manages, provisioned before every start  *)
(* of the agent by daemons that may start beside each other, fail and be   *)
(* killed at any point.                                                    *)
(*                                                                         *)
(* A directory is "absent", "open" (to other users), "private" or "link".  *)
(* A file has a content and so many links; "longer" is a content of        *)
(* another length than the daemon's, "other" one of the same.              *)
(***************************************************************************)
EXTENDS Naturals, Sequences, FiniteSets, Absence

CONSTANT Scenarios      \* what is there at first, and what goes wrong

VARIABLES directories,  \* home and os, as found by name
          files,        \* config and requirements: [content, links]
          lock,         \* the attempt that holds the runtime lock, or None
          attempts,     \* [step, stage, answer] of each attempt
          left          \* the scenario

vars == <<directories, files, lock, attempts, left>>

Absent == [content |-> "none", links |-> 0]
Managed == [content |-> "managed", links |-> 1]

Idle == [step |-> 0, stage |-> "idle", answer |-> "none"]

Init ==
  /\ left \in Scenarios
  /\ directories = left.directories
  /\ files = left.files
  /\ lock = None
  /\ attempts = [r \in Requests |-> Idle]

Spend(what) == left[what] > 0 /\ left' = [left EXCEPT ![what] = @ - 1]

\* What provision does, in order.
Step(kind, name) == [kind |-> kind, name |-> name]
provision ==
  <<Step("directory", "home"), Step("lock", None), Step("reject", None),
    Step("directory", "os"), Step("file", "config"), Step("file", "requirements"),
    Step("reject", None)>>

At(r, kind, stage) ==
  /\ attempts[r].step \in DOMAIN provision
  /\ provision[attempts[r].step].kind = kind /\ attempts[r].stage = stage
Name(r) == provision[attempts[r].step].name

Staged(r, stage) == [attempts EXCEPT ![r].stage = stage]
Passed(r) ==
  IF attempts[r].step = Len(provision)
  THEN [attempts EXCEPT ![r] = [step |-> 0, stage |-> "running", answer |-> "ok"]]
  ELSE [attempts EXCEPT ![r].step = @ + 1, ![r].stage = "look"]

\* The attempt fails: its files are closed, and so the lock is free.
Unlocked(r) == IF lock = r THEN None ELSE lock
Failed(r, answer) ==
  /\ attempts' = [attempts EXCEPT ![r] = [step |-> 0, stage |-> "failed", answer |-> answer]]
  /\ lock' = Unlocked(r)

Begin(r) ==
  /\ attempts[r].stage \in {"idle", "failed"}
  /\ Spend("attempts")
  /\ attempts' = [attempts EXCEPT ![r] = [step |-> 1, stage |-> "look", answer |-> "none"]]
  /\ UNCHANGED <<directories, files, lock>>

-----------------------------------------------------------------------------
(* ensure_private_directory *)

LookAtDirectory(r) ==
  LET found == directories[Name(r)] IN
  /\ At(r, "directory", "look")
  /\ CASE found = "absent" -> attempts' = Staged(r, "create") /\ UNCHANGED lock
       [] found = "link" -> Failed(r, "unsafe")
       [] found = "private" -> attempts' = Passed(r) /\ UNCHANGED lock
       [] found = "open" -> attempts' = Staged(r, "tighten") /\ UNCHANGED lock
  /\ UNCHANGED <<directories, files, left>>

\* Another daemon may have made it meanwhile.
CreateDirectory(r) ==
  /\ At(r, "directory", "create")
  /\ IF directories[Name(r)] = "absent"
     THEN /\ directories' = [directories EXCEPT ![Name(r)] = "open"]
          /\ attempts' = Staged(r, "tighten") /\ UNCHANGED lock
     ELSE Failed(r, "io") /\ UNCHANGED directories
  /\ UNCHANGED <<files, left>>

Tighten(r) ==
  /\ At(r, "directory", "tighten")
  /\ directories' = [directories EXCEPT ![Name(r)] = "private"]
  /\ attempts' = Passed(r)
  /\ UNCHANGED <<files, lock, left>>

-----------------------------------------------------------------------------
(* The lock, and what must not be there. *)

Lockable == lock = None

Lock(r) ==
  /\ At(r, "lock", "look")
  /\ IF Lockable THEN lock' = r /\ attempts' = Passed(r) ELSE Failed(r, "busy")
  /\ UNCHANGED <<directories, files, left>>

reject_entries(r) ==
  /\ At(r, "reject", "look")
  /\ IF left.forbidden THEN Failed(r, "unexpected") ELSE attempts' = Passed(r) /\ UNCHANGED lock
  /\ UNCHANGED <<directories, files, left>>

-----------------------------------------------------------------------------
(* ensure_managed_file: a file that is there must be the daemon's, with one *)
(* link; one that is not is written under a name of its own, linked to its  *)
(* name and unlinked from the other.                                        *)

verify_regular_file(file) == file.links = 1 /\ file.content # "longer"

LookAtFile(r) ==
  LET found == files[Name(r)] IN
  /\ At(r, "file", "look")
  /\ IF found = Absent THEN attempts' = Staged(r, "write") /\ UNCHANGED lock
     ELSE IF ~verify_regular_file(found) THEN Failed(r, "unsafe")
     ELSE IF found.content # "managed" THEN Failed(r, "unexpected")
     ELSE attempts' = Passed(r) /\ UNCHANGED lock
  /\ UNCHANGED <<directories, files, left>>

\* Everything is written and synced before the file gets its name.
Publish(r) ==
  /\ At(r, "file", "write")
  /\ IF files[Name(r)] = Absent
     THEN /\ files' = [files EXCEPT ![Name(r)] = [content |-> "managed", links |-> 2]]
          /\ attempts' = Staged(r, "unlink") /\ UNCHANGED lock
     ELSE Failed(r, "unexpected") /\ UNCHANGED files
  /\ UNCHANGED <<directories, left>>

Unlink(r) ==
  /\ At(r, "file", "unlink")
  /\ files' = [files EXCEPT ![Name(r)].links = 1]
  /\ attempts' = Staged(r, "verify")
  /\ UNCHANGED <<directories, lock, left>>

Verify(r) ==
  /\ At(r, "file", "verify")
  /\ IF verify_regular_file(files[Name(r)]) THEN attempts' = Passed(r) /\ UNCHANGED lock
     ELSE Failed(r, "unsafe")
  /\ UNCHANGED <<directories, files, left>>

\* Any file operation may fail.  A failed attempt removes its temporary name,
\* if it can.
StepFails(r) ==
  /\ attempts[r].step \in DOMAIN provision
  /\ left.faults > 0 /\ left' = [left EXCEPT !.faults = @ - 1, !.torn = TRUE]
  /\ \/ UNCHANGED files
     \/ At(r, "file", "unlink") /\ files' = [files EXCEPT ![Name(r)].links = 1]
  /\ Failed(r, "io")
  /\ UNCHANGED directories

-----------------------------------------------------------------------------
(* The runtime ends, or its daemon is killed: the temporary name stays.     *)

Release(r) ==
  /\ attempts[r].stage = "running"
  /\ attempts' = [attempts EXCEPT ![r] = Idle]
  /\ lock' = Unlocked(r)
  /\ UNCHANGED <<directories, files, left>>

Kill(r) ==
  /\ attempts[r].step # 0 \/ attempts[r].stage = "running"
  /\ left.kills > 0 /\ left' = [left EXCEPT !.kills = @ - 1, !.torn = TRUE]
  /\ attempts' = [attempts EXCEPT ![r] = Idle]
  /\ lock' = Unlocked(r)
  /\ UNCHANGED <<directories, files>>

\* Another program puts a file there.
Place(f) ==
  /\ files[f] = Absent /\ directories["home"] # "absent" /\ left.others > 0
  /\ files' = [files EXCEPT ![f] = [content |-> "other", links |-> 1]]
  /\ left' = [left EXCEPT !.others = @ - 1, !.files = files']
  /\ UNCHANGED <<directories, lock, attempts>>

Next ==
  \/ \E f \in DOMAIN files : Place(f)
  \/ \E r \in Requests :
    \/ Begin(r) \/ LookAtDirectory(r) \/ CreateDirectory(r) \/ Tighten(r)
    \/ Lock(r) \/ reject_entries(r) \/ LookAtFile(r) \/ Publish(r) \/ Unlink(r) \/ Verify(r)
    \/ StepFails(r) \/ Release(r) \/ Kill(r)

-----------------------------------------------------------------------------
\* The agent runs in one home at a time, which is private, holds the daemon's
\* configuration and nothing else; a configuration shows whole or not at all;
\* what was not the daemon's is never changed; and the home is called unsafe
\* only when it was found so, or a daemon was killed (or failed) between giving
\* a file its name and taking the other away.
GrokHomeSound ==
  /\ \A r, s \in Requests :
       attempts[r].stage = "running" /\ attempts[s].stage = "running" => r = s
  /\ \A r \in Requests : attempts[r].stage = "running" =>
       /\ lock = r /\ ~left.forbidden
       /\ \A d \in DOMAIN directories : directories[d] = "private"
       /\ \A f \in DOMAIN files : files[f] = Managed
  /\ \A f \in DOMAIN files : files[f].content # "managed" => files[f] = left.files[f]
  /\ \A r \in Requests : attempts[r].answer = "unsafe" =>
       \/ \E d \in DOMAIN directories : directories[d] = "link"
       \/ \E f \in DOMAIN files : files[f].links = 2 \/ files[f].content = "longer"
  /\ (\E f \in DOMAIN files : files[f].links = 2) =>
       left.torn \/ \E r \in Requests : At(r, "file", "unlink")
=============================================================================
