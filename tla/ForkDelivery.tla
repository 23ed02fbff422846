---------------------------- MODULE ForkDelivery ----------------------------
(***************************************************************************)
(* What a conversation fork promises its caller, whatever keys, retries    *)
(* and races are behind it: of each distinct request at most one result is *)
(* waiting to be acknowledged, asking again before then creates nothing,   *)
(* and no result is handed out twice.                                      *)
(***************************************************************************)
EXTENDS Integers

VARIABLES
  waiting,  \* results nobody has acknowledged: records [ask, child]
  created   \* the results that exist

Init == waiting = {} /\ created = {}

Create(w) ==
  /\ \A v \in waiting : v.ask # w.ask
  /\ w.child \notin created
  /\ waiting' = waiting \cup {w}
  /\ created' = created \cup {w.child}

Acknowledge(w) ==
  /\ waiting' = waiting \ {w}
  /\ UNCHANGED created

Next == (\E w \in waiting' : Create(w)) \/ (\E w \in waiting : Acknowledge(w))

Spec == Init /\ [][Next]_<<waiting, created>>
=============================================================================
