----------------------- MODULE MCAutomationScheduler -----------------------
(***************************************************************************)
(* Instances of the scheduler.  Ticks stand for the distances that matter: *)
(* consecutive slots lie at least a lease apart, as they do for a daily    *)
(* schedule.                                                               *)
(***************************************************************************)
EXTENDS AutomationScheduler

Calendar == [a \in Automations |-> IF a = 1 THEN {1, 3} ELSE {1}]

GapCalendar == [a \in Automations |-> IF a = 1 THEN {2} ELSE {}]

MissedPolicies == [a \in Automations |-> IF a = 1 THEN "RunOnce" ELSE "Skip"]

OverlapPolicies == [a \in Automations |-> IF a = 1 THEN "QueueOne" ELSE "Skip"]

Quiet == [enabled |-> {1}, clock |-> 3, regressions |-> 0, crashes |-> 0,
          faults |-> 0, edits |-> 0]

FaultyStore == [Quiet EXCEPT !.faults = 1, !.crashes = 1]

ClockSetBack == [Quiet EXCEPT !.regressions = 1, !.crashes = 1]

TwoRestarts == [Quiet EXCEPT !.crashes = 2]

TwoDefinitions == [Quiet EXCEPT !.enabled = {1, 2}, !.edits = 1]

SafetyLimits == {FaultyStore, ClockSetBack, TwoRestarts, TwoDefinitions}

\* Three slots and no gap, with two definitions of which one is on the page
LongCalendar == [a \in Automations |-> IF a = 1 THEN {1, 2, 3} ELSE {1}]

NoGaps == [a \in Automations |-> {}]

FairLimits == {[Quiet EXCEPT !.enabled = {1, 2}, !.crashes = 1]}
=============================================================================
