------------------------------ MODULE HostTools ------------------------------
(***************************************************************************)
(* The Host Tools on this machine: files read and replaced below the       *)
(* enrolled roots, and programs executed with their output collected.      *)
(* Calls run beside each other, beside the user's own programs and beside  *)
(* what the executed programs leave behind.                                *)
(*                                                                         *)
(* A file is a sequence of blocks.  A path has a root above it ("enrolled",*)
(* "denied" or "outside").  An executed program is a leader and a child of *)
(* it; both may hold the pipes.                                            *)
(***************************************************************************)
EXTENDS Naturals, Sequences, FiniteSets, SequencesExt, Absence

CONSTANTS Paths, MaxRead, MaxWrite, MaxOutput,   \* the bounds, in blocks
          Scenarios     \* the roots, the files, the calls and how much goes wrong

VARIABLES files,        \* the inode each path names, or None
          inodes,       \* the contents of every file ever made
          calls,        \* each call: [op, path, content, limit, stage, node, bytes, answer]
          programs,     \* the processes of each call: [leader, child, group, pipes]
          outputs,      \* of each call: [pipes, kept, truncated, drains, written]
          left          \* what the scenario still allows

vars == <<files, inodes, calls, programs, outputs, left>>

Streams == {"stdout", "stderr"}
Members == {"leader", "child"}

Idle == [op |-> "none", path |-> None, content |-> <<>>, limit |-> 0, stage |-> "idle",
         node |-> 0, bytes |-> <<>>, answer |-> "none"]
NoProgram == [alive |-> {}, group |-> {}, holds |-> {}]
NoOutput == [pipe |-> [s \in Streams |-> <<>>], kept |-> [s \in Streams |-> <<>>],
             truncated |-> FALSE, draining |-> {}, written |-> [s \in Streams |-> <<>>]]

Init ==
  /\ left \in Scenarios
  /\ files = left.files
  /\ inodes = left.inodes
  /\ calls = [r \in Requests |-> Idle]
  /\ programs = [r \in Requests |-> NoProgram]
  /\ outputs = [r \in Requests |-> NoOutput]

Spend(what) == left[what] > 0 /\ left' = [left EXCEPT ![what] = @ - 1]

At(r, stage) == calls[r].stage = stage
Moved(r, stage) == [calls EXCEPT ![r].stage = stage]
Answered(r, answer) == [calls EXCEPT ![r].stage = "done", ![r].answer = answer]

Ask(r) ==
  /\ calls[r].stage \in {"idle", "done"} /\ left.calls[r] # <<>>
  /\ LET asked == Head(left.calls[r])
     IN  calls' = [calls EXCEPT ![r] =
           [Idle EXCEPT !.op = asked.op, !.path = asked.path, !.content = asked.content,
                        !.limit = asked.limit, !.stage = "asked"]]
  /\ left' = [left EXCEPT !.calls[r] = Tail(@)]
  /\ UNCHANGED <<files, inodes, programs, outputs>>

-----------------------------------------------------------------------------
(* Roots.  A path inside a daemon-private root is refused even below an     *)
(* enrolled one; the root that holds a path is the deepest.                 *)

reject_denied(path) == left.roots[path] # "denied"
resolve(path) == reject_denied(path) /\ left.roots[path] = "enrolled"

Refusal(path) == IF reject_denied(path) THEN "outside" ELSE "private"

-----------------------------------------------------------------------------
(* Reading: the file is opened, its length checked, and then read: it may   *)
(* have grown in between.                                                   *)

OpenFile(r) ==
  LET c == calls[r] IN
  /\ At(r, "asked") /\ c.op = "read"
  /\ calls' =
       IF c.limit = 0 \/ c.limit > MaxRead THEN Answered(r, "invalid")
       ELSE IF ~resolve(c.path) THEN Answered(r, Refusal(c.path))
       ELSE IF files[c.path] = 0 THEN Answered(r, "unavailable")
       ELSE [calls EXCEPT ![r].stage = "opened", ![r].node = files[c.path]]
  /\ UNCHANGED <<files, inodes, programs, outputs, left>>

CheckLength(r) ==
  LET c == calls[r] IN
  /\ At(r, "opened")
  /\ calls' = IF Len(inodes[c.node]) > c.limit THEN Answered(r, "invalid")
              ELSE Moved(r, "measured")
  /\ UNCHANGED <<files, inodes, programs, outputs, left>>

\* The first blocks of a file, one more than allowed at most.
Taken(node, limit) == SubSeq(inodes[node], 1, IF Len(inodes[node]) > limit THEN limit + 1
                                              ELSE Len(inodes[node]))

ReadFile(r) ==
  LET c == calls[r]
      bytes == Taken(c.node, c.limit)
  IN
  /\ At(r, "measured")
  /\ calls' = IF Len(bytes) > c.limit THEN Answered(r, "invalid")
              ELSE [Answered(r, "ok") EXCEPT ![r].bytes = bytes]
  /\ UNCHANGED <<files, inodes, programs, outputs, left>>

-----------------------------------------------------------------------------
(* Writing: a file of a fresh name beside the target, its blocks, its sync, *)
(* its renaming over the target, a look at the directory.                   *)

CreateTemporary(r) ==
  LET c == calls[r] IN
  /\ At(r, "asked") /\ c.op = "write"
  /\ IF Len(c.content) > MaxWrite
     THEN calls' = Answered(r, "invalid") /\ UNCHANGED inodes
     ELSE IF ~resolve(c.path)
     THEN calls' = Answered(r, Refusal(c.path)) /\ UNCHANGED inodes
     ELSE /\ inodes' = Append(inodes, <<>>)
          /\ calls' = [calls EXCEPT ![r].stage = "writing", ![r].node = Len(inodes) + 1]
  /\ UNCHANGED <<files, programs, outputs, left>>

WriteBlock(r) ==
  LET c == calls[r] IN
  /\ At(r, "writing") /\ Len(inodes[c.node]) < Len(c.content)
  /\ inodes' = [inodes EXCEPT ![c.node] = Append(@, c.content[Len(@) + 1])]
  /\ UNCHANGED <<files, calls, programs, outputs, left>>

\* Every block is written and the file synced.
Written(c) == Len(inodes[c.node]) = Len(c.content)

Replace(r) ==
  LET c == calls[r] IN
  /\ At(r, "writing") /\ Written(c)
  /\ files' = [files EXCEPT ![c.path] = c.node]
  /\ calls' = Moved(r, "replaced")
  /\ UNCHANGED <<inodes, programs, outputs, left>>

DirectorySeen(r) ==
  /\ At(r, "replaced")
  /\ calls' = Answered(r, "ok")
  /\ UNCHANGED <<files, inodes, programs, outputs, left>>

\* Any step of it fails: the temporary file is removed.
WriteFails(r) ==
  /\ calls[r].stage \in {"writing", "replaced"}
  /\ Spend("faults")
  /\ calls' = Answered(r, "unavailable")
  /\ UNCHANGED <<files, inodes, programs, outputs>>

-----------------------------------------------------------------------------
(* Executing.  The leader has a process group of its own; the streams are   *)
(* drained by two tasks that share what is kept.                            *)

Valid(c) == c.limit > 0      \* the bounds of the arguments and of the timeout

Spawn(r) ==
  LET c == calls[r] IN
  /\ At(r, "asked") /\ c.op = "execute"
  /\ IF ~Valid(c) THEN calls' = Answered(r, "invalid") /\ UNCHANGED <<programs, outputs>>
     ELSE IF ~resolve(c.path)
     THEN calls' = Answered(r, Refusal(c.path)) /\ UNCHANGED <<programs, outputs>>
     ELSE /\ calls' = Moved(r, "running")
          /\ programs' = [programs EXCEPT ![r] =
               [alive |-> {"leader"}, group |-> {"leader"}, holds |-> {"leader"}]]
          /\ outputs' = [outputs EXCEPT ![r] = [NoOutput EXCEPT !.draining = Streams]]
  /\ UNCHANGED <<files, inodes, left>>

SpawnFails(r) ==
  /\ At(r, "asked") /\ calls[r].op = "execute" /\ Valid(calls[r]) /\ resolve(calls[r].path)
  /\ Spend("faults")
  /\ calls' = Answered(r, "unavailable")
  /\ UNCHANGED <<files, inodes, programs, outputs>>

Kept(out) == Len(out.kept["stdout"]) + Len(out.kept["stderr"])

\* One block: kept while there is room for both streams together.
drain_output(out, s) ==
  LET rest == [out EXCEPT !.pipe[s] = Tail(@)]
  IN  IF Kept(out) < MaxOutput
      THEN [rest EXCEPT !.kept[s] = Append(@, Head(out.pipe[s]))]
      ELSE [rest EXCEPT !.truncated = TRUE]

Drain(r, s) ==
  /\ s \in outputs[r].draining /\ outputs[r].pipe[s] # <<>>
  /\ outputs' = [outputs EXCEPT ![r] = drain_output(@, s)]
  /\ UNCHANGED <<files, inodes, calls, programs, left>>

\* The end of a stream: empty, and nobody holds it.
DrainEnds(r, s) ==
  /\ s \in outputs[r].draining /\ outputs[r].pipe[s] = <<>>
  /\ programs[r].holds = {}
  /\ outputs' = [outputs EXCEPT ![r].draining = @ \ {s}]
  /\ UNCHANGED <<files, inodes, calls, programs, left>>

\* What the select of the call sees first.
LeaderExited(r) ==
  /\ At(r, "running") /\ "leader" \notin programs[r].alive
  /\ calls' = Moved(r, "exited")
  /\ UNCHANGED <<files, inodes, programs, outputs, left>>

kill_process_tree(p) ==
  [p EXCEPT !.alive = @ \ p.group, !.holds = @ \ p.group]

\* Cancelled, or out of time.
Interrupt(r) ==
  /\ At(r, "running")
  /\ Spend("interrupts")
  /\ programs' = [programs EXCEPT ![r] = kill_process_tree(@)]
  /\ calls' = Moved(r, "killed")
  /\ UNCHANGED <<files, inodes, outputs>>

\* Waiting for the program fails: the drains are left to themselves.
WaitFails(r) ==
  /\ At(r, "running")
  /\ Spend("faults")
  /\ calls' = Answered(r, "unavailable")
  /\ UNCHANGED <<files, inodes, programs, outputs>>

\* Both drains have ended.
Collected(r) ==
  /\ calls[r].stage \in {"exited", "killed"} /\ outputs[r].draining = {}
  /\ calls' = Answered(r, IF At(r, "exited") THEN "ok" ELSE "interrupted")
  /\ UNCHANGED <<files, inodes, programs, outputs, left>>

-----------------------------------------------------------------------------
(* The programs themselves, and the user. *)

Produce(r, m, s) ==
  /\ m \in programs[r].holds /\ m \in programs[r].alive
  /\ Spend("blocks")
  /\ outputs' = [outputs EXCEPT ![r].pipe[s] = Append(@, m), ![r].written[s] = Append(@, m)]
  /\ UNCHANGED <<files, inodes, calls, programs>>

Fork(r) ==
  /\ "leader" \in programs[r].alive
  /\ Spend("forks")
  /\ programs' = [programs EXCEPT ![r].alive = @ \cup {"child"},
                                  ![r].group = @ \cup {"child"},
                                  ![r].holds = @ \cup {"child"}]
  /\ UNCHANGED <<files, inodes, calls, outputs>>

\* The child closes the pipes: it goes on in the background.
CloseOutput(r) ==
  /\ {"child"} \subseteq programs[r].alive \cap programs[r].holds
  /\ programs' = [programs EXCEPT ![r].holds = @ \ {"child"}]
  /\ UNCHANGED <<files, inodes, calls, outputs, left>>

Exit(r, m) ==
  /\ m \in programs[r].alive
  /\ programs' = [programs EXCEPT ![r].alive = @ \ {m}, ![r].holds = @ \ {m}]
  /\ UNCHANGED <<files, inodes, calls, outputs, left>>

\* The user's programs append to a file in place.
Grow(path) ==
  /\ files[path] # 0
  /\ Spend("edits")
  /\ inodes' = [inodes EXCEPT ![files[path]] = Append(@, "user")]
  /\ UNCHANGED <<files, calls, programs, outputs>>

-----------------------------------------------------------------------------
CallStep(r) ==
  \/ OpenFile(r) \/ CheckLength(r) \/ ReadFile(r)
  \/ CreateTemporary(r) \/ WriteBlock(r) \/ Replace(r) \/ DirectorySeen(r)
  \/ Spawn(r) \/ LeaderExited(r) \/ Collected(r)

Next ==
  \/ \E r \in Requests :
       \/ Ask(r) \/ CallStep(r) \/ WriteFails(r) \/ SpawnFails(r) \/ WaitFails(r)
       \/ Interrupt(r) \/ Fork(r) \/ CloseOutput(r)
       \/ \E m \in Members : Exit(r, m) \/ \E s \in Streams : Produce(r, m, s)
       \/ \E s \in Streams : Drain(r, s) \/ DrainEnds(r, s)
  \/ \E path \in Paths : Grow(path)

-----------------------------------------------------------------------------
\* The blocks of one writer in a file: the user's aside.
Placed(node) == SelectSeq(inodes[node], LAMBDA block : block # "user")

\* The text a path shows is always the whole of one text that was there or
\* was asked to be written, whoever writes beside it and whatever fails.
FilesWhole ==
  \A path \in Paths : files[path] # 0 => Placed(files[path]) \in left.texts

\* A read answers no more than it was allowed, even of a file that grows; it
\* answers a prefix of one file that had the name, never parts of two.
ReadsBounded ==
  \A r \in Requests : calls[r].op = "read" /\ calls[r].answer = "ok" =>
    /\ Len(calls[r].bytes) <= calls[r].limit
    /\ IsPrefix(calls[r].bytes, inodes[calls[r].node])
    /\ resolve(calls[r].path)

\* What is kept of both streams together is bounded; a result that is not
\* marked as truncated has everything the program wrote, in order; an
\* interrupted program has no process left in its group, and no answer is
\* given while somebody may still write to the pipes.
ProgramsSettled ==
  \A r \in Requests : LET c == calls[r] out == outputs[r] IN
    /\ Kept(out) <= MaxOutput
    /\ c.op = "execute" /\ c.answer = "ok" =>
         \A s \in Streams : IF out.truncated THEN IsPrefix(out.kept[s], out.written[s])
                            ELSE out.kept[s] = out.written[s]
    /\ c.op = "execute" /\ c.answer = "interrupted" =>
         programs[r].alive \cap programs[r].group = {}
    /\ c.answer \in {"ok", "interrupted"} => programs[r].holds = {}

HostToolsSound == FilesWhole /\ ReadsBounded /\ ProgramsSettled
=============================================================================
