------------------------------- MODULE MCForks -------------------------------
(***************************************************************************)
(* Small instances of ConversationForks.  Every scenario starts from one   *)
(* thread whose first turn was started, dispatched and settled by the      *)
(* store's own operations.                                                 *)
(***************************************************************************)
EXTENDS ConversationForks, TLC

First == [thread |-> 1, key |-> <<"Start", 1>>, text |-> 1,
          print |-> [thread |-> 1, text |-> 1], source |-> None, expected |-> 0]

Dispatched == Advance(ReserveTurn(WithThread(Empty, 0, 0), First).tables,
                      1, 0, "ProviderStarted", FALSE, None).tables

After(to, retryable) == Advance(Dispatched, 1, 1, to, retryable, Reply(1)).tables

Upto(limits) == [l \in Limits |-> IF l \in DOMAIN limits THEN limits[l] ELSE 0]

Scenario(tables0, kinds0, limits) ==
  [tables |-> tables0, kinds |-> kinds0, limits |-> Upto(limits)]

\* Two handlers race on one source, under two keys, with restarts and
\* acknowledgements between any two steps.
Race == Scenario(After("Completed", FALSE), {"Regenerate"},
                 [width |-> 2, ask |-> 3, ack |-> 1, crash |-> 1])

\* Forks of forks, beyond the depth limit, of new turns too.
Deep == Scenario(After("Completed", FALSE), {"Branch"},
                 [width |-> 1, ask |-> 3, start |-> 1])

\* Edits of what branches copied, and branches of edits.
Edited == [Deep EXCEPT !.kinds = {"Branch", "EditAndBranch"}, !.limits["ask"] = 2]

\* The parent thread and the project change under the handler.
Moving == Scenario(After("Completed", FALSE), {"Branch", "EditAndBranch"},
                   [width |-> 1, ask |-> 2, rename |-> 1, archive |-> 1, close |-> 1,
                    tick |-> 1])

\* The source failed: it may be retried or edited, what was started may be
\* cancelled, and the credential may be replaced.
Failing == Scenario(After("Failed", TRUE), {"EditAndBranch"},
                    [width |-> 1, ask |-> 1, retry |-> 1, start |-> 1, cancel |-> 1, rotate |-> 1])

\* The deadline drops a handler anywhere; the request is repeated, under the
\* same key or another, cancelled, or the daemon restarts.
Dropping == Scenario(After("Completed", FALSE), {"Regenerate"},
                     [width |-> 2, ask |-> 3, drop |-> 1, cancel |-> 1, crash |-> 1])

\* A thread the scheduler opened, and messages of Host Work around its turns.
\* Its prompt is there; the turn, its answer and forks of it come later.
Opened == WithMessage(WithThread(Empty, 0, 0), 1, "user", Aside, None)
Talking == Scenario(Opened, {"Branch", "EditAndBranch"},
                    [width |-> 1, ask |-> 1, start |-> 2, say |-> 1])

AllScenarios == {Race, Deep, Edited, Moving, Failing, Dropping, Talking}

\* A long title counts twice; the second turn cites its sources.
TitleBytes == [title \in 0..1 |-> 1 + title]
Estimated == [k \in Turns |-> 1]
Measured  == [k \in Turns |-> IF k = 2 THEN 4 ELSE 2]

Symmetry == Permutations(Tasks) \cup Permutations(Keys)
=============================================================================
