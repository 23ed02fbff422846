----------------------------- MODULE Lifecycles -----------------------------
(***************************************************************************)
(* The closed lifecycle relations of the domain crate: a conversation      *)
(* turn, the run that executes it and the side effect that records the     *)
(* provider call.  Every other module moves these three aggregates only    *)
(* along the edges listed here.                                            *)
(***************************************************************************)
EXTENDS Naturals

TurnStates == {"Reserved", "ProviderStarted", "Completed", "Failed",
               "Cancelled", "InterruptedNeedsReview"}

IsTerminal(state) ==
  state \in {"Completed", "Failed", "Cancelled", "InterruptedNeedsReview"}

\* ConversationTurnState::permits
TurnPermits(from, to) ==
  \/ from = "Reserved" /\ to \in {"ProviderStarted", "Cancelled"}
  \/ from = "ProviderStarted"
       /\ to \in {"Completed", "Failed", "InterruptedNeedsReview"}

RunStates == {"Queued", "Planning", "AwaitingApproval", "Running", "Paused",
              "Completed", "Failed", "Cancelled", "InterruptedNeedsReview"}

\* A run under review is not terminal: a trusted producer may still resume it.
RunIsTerminal(state) == state \in {"Completed", "Failed", "Cancelled"}

\* RunState::permits
RunPermits(from, to) ==
  \/ from = "Queued"
       /\ to \in {"Planning", "Cancelled", "InterruptedNeedsReview"}
  \/ from = "Planning"
       /\ to \in {"AwaitingApproval", "Running", "Failed", "Cancelled",
                  "InterruptedNeedsReview"}
  \/ from = "AwaitingApproval"
       /\ to \in {"Running", "Paused", "Failed", "Cancelled",
                  "InterruptedNeedsReview"}
  \/ from = "Running"
       /\ to \in {"AwaitingApproval", "Paused", "Completed", "Failed",
                  "Cancelled", "InterruptedNeedsReview"}
  \/ from = "Paused"
       /\ to \in {"Running", "Failed", "Cancelled", "InterruptedNeedsReview"}
  \/ from = "InterruptedNeedsReview"
       /\ to \in {"Running", "Failed", "Cancelled"}

EffectStates == {"Prepared", "Executing", "Succeeded", "Failed", "NeedsReview"}

\* SideEffect::move_to
EffectPermits(from, to) ==
  \/ from = "Prepared" /\ to = "Executing"
  \/ from = "Executing" /\ to \in {"Succeeded", "Failed", "NeedsReview"}
=============================================================================
