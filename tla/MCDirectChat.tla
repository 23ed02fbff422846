---------------------------- MODULE MCDirectChat ----------------------------
(* Small instances of DirectChat. *)
EXTENDS DirectChat, TLC

CONSTANTS k1, k2, k3

\* k2 retries k1.
StartAndRetry == [k \in Keys |-> IF k = k2 THEN k1 ELSE NoTurn]

Permutable ==
  Permutations(Handlers) \cup Permutations(Slots) \cup Permutations(Bindings)

\* Two concurrent requests replay, cancel and relaunch one turn.
Replay ==
  [faults |-> 0, crashes |-> 0, rotations |-> 0, detached |-> 0, requests |-> 2,
   keys |-> {k1}, cancels |-> CancelKeys, deltas |-> {3}]

\* A commit that outlives its caller while two requests replay
Late == [Replay EXCEPT !.detached = 1, !.cancels = {}]

\* A failing or ambiguous store call, a detached commit, a cancel and a crash
Faults == [Replay EXCEPT !.faults = 1, !.crashes = 1, !.detached = 1, !.requests = 1]

\* Two store calls fail or are ambiguous.
TwoFaults == [Faults EXCEPT !.faults = 2, !.cancels = {}]

\* Three turns of one thread, one a retry, two in flight at a time
Retry == [Replay EXCEPT !.requests = 1, !.keys = {k1, k2, k3},
                        !.cancels = {}]

\* The credential is replaced or deleted around one turn.
Rotation == [Late EXCEPT !.faults = 1, !.crashes = 1, !.rotations = 2,
                         !.requests = 1]

\* Deltas of one or three units, coalesced by two, with one store fault
Stream == [Faults EXCEPT !.crashes = 0, !.deltas = {1, 3}]

\* Two turns in flight at a crash
Recovery == [Retry EXCEPT !.crashes = 1, !.keys = {k1, k3},
                           !.deltas = {1}]

\* One turn, a failing store call and a crash
Settle == [Faults EXCEPT !.deltas = {1}]

SafetyScenarios == {Replay, Late, Faults, TwoFaults, Retry, Rotation, Stream}

FairScenarios == {Recovery, Settle}
=============================================================================
