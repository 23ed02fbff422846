---------------------------- MODULE TurnLifecycle ----------------------------
(***************************************************************************)
(* What a chat turn promises, without handlers, tasks, revisions or        *)
(* crashes: each turn moves once through the domain's lifecycle, and the   *)
(* external provider is called at most once for it, after the turn is      *)
(* durably marked as started.  An interruption may land between that mark  *)
(* and the call.  A known outcome is recorded only after the call.         *)
(***************************************************************************)
EXTENDS Naturals

CONSTANT Keys

VARIABLES state, called

vars == <<state, called>>

Init ==
  /\ state = [k \in Keys |-> "Absent"]
  /\ called = [k \in Keys |-> 0]

Move(k, from, to) ==
  /\ state[k] = from
  /\ state' = [state EXCEPT ![k] = to]
  /\ UNCHANGED called

Reserve(k) == Move(k, "Absent", "Reserved")

Cancel(k) == Move(k, "Reserved", "Cancelled")

Start(k) == Move(k, "Reserved", "ProviderStarted")

Call(k) ==
  /\ state[k] \in {"ProviderStarted", "InterruptedNeedsReview"}
  /\ called[k] = 0
  /\ called' = [called EXCEPT ![k] = 1]
  /\ UNCHANGED state

Interrupt(k) == Move(k, "ProviderStarted", "InterruptedNeedsReview")

Finish(k) ==
  /\ called[k] = 1
  /\ Move(k, "ProviderStarted", "Completed") \/ Move(k, "ProviderStarted", "Failed")

Next ==
  \E k \in Keys : \/ Reserve(k) \/ Cancel(k) \/ Start(k)
                  \/ Call(k) \/ Interrupt(k) \/ Finish(k)

Spec == Init /\ [][Next]_vars
=============================================================================
