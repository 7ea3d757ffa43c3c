------------------------------- MODULE Outbox -------------------------------
(***************************************************************************)
(* What the feedback feature promises about the metric of an impression    *)
(* (CR_FeedbackController.h): it is tracked or not, once; a tracked metric *)
(* is sent to the backend at most once, or given up; and a metric that was *)
(* sent or given up is never sent again.                                   *)
(***************************************************************************)
EXTENDS Naturals

CONSTANT Ids  \* the impressions

VARIABLES
    state,    \* new, held on the device, or over
    receipts  \* how many times the backend was given the metric

vars == << state, receipts >>

Init ==
    /\ state = [id \in Ids |-> "new"]
    /\ receipts = [id \in Ids |-> 0]

\* The metric is tracked, or never will be.
Begin(id) ==
    /\ state[id] = "new"
    /\ state'[id] \in {"held", "over"}
    /\ receipts'[id] = receipts[id]

\* It leaves the device, towards the backend or for good.
End(id) ==
    /\ state[id] = "held"
    /\ state'[id] = "over"
    /\ receipts'[id] \in {receipts[id], receipts[id] + 1}

Stay(id) ==
    /\ state'[id] = state[id]
    /\ receipts'[id] = receipts[id]

\* One step may move any number of metrics: they travel in batches.
Next ==
    /\ state' \in [Ids -> {"new", "held", "over"}]
    /\ receipts' \in [Ids -> Nat]
    /\ \A id \in Ids : Begin(id) \/ End(id) \/ Stay(id)

Spec == Init /\ [][Next]_vars

=============================================================================
