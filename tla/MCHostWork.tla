----------------------------- MODULE MCHostWork -----------------------------
(* Small instances of HostWork: every start command names the same thread. *)
EXTENDS HostWork

CONSTANTS r1, r2, t1

OneThread == [r \in Runs |-> t1]

\* One turn whose agent makes two process calls on two connections
TwoCalls ==
  [runs |-> {r1}, calls |-> {1, 2}, kinds |-> {"Process"}, conns |-> {1, 2},
   instants |-> {0}, replies |-> {0}, prepared |-> TRUE, policies |-> 1,
   switches |-> 0, sends |-> 1, crashes |-> 0]

\* Enrolling, preparing, revoking and deactivating around a turn
PolicyChanges ==
  [TwoCalls EXCEPT !.calls = {1}, !.conns = {1}, !.prepared = FALSE,
                   !.policies = 3, !.switches = 2]

\* One tool-call identity on two connections and with both tools, the start
\* command sent twice, two clock readings, and a crash
SharedIdentity ==
  [TwoCalls EXCEPT !.calls = {1}, !.kinds = MutatingTools, !.instants = {0, 1},
                   !.sends = 2, !.crashes = 1]

\* Two start commands of one thread, each sent twice, with two answers
TwoStarts ==
  [TwoCalls EXCEPT !.runs = {r1, r2}, !.calls = {1}, !.kinds = {"FileWrite"},
                   !.conns = {1}, !.replies = {0, 1}, !.sends = 2]

\* Two process calls with a crash, or with one more during recovery
CrashedCalls == [TwoCalls EXCEPT !.crashes = 1]
CrashedTwice == [TwoCalls EXCEPT !.crashes = 2]

TurnScopes == {TwoCalls, PolicyChanges}

StartScopes == {SharedIdentity, TwoStarts, CrashedTwice}

RecoveryScopes == {CrashedCalls}
=============================================================================
