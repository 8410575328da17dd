----------------------------- MODULE TradeStatus -----------------------------
(***************************************************************************)
(* The two status tables a trade keeps in memory: that of the intent       *)
(* engine's intentStore, and that of the state machine the user interface  *)
(* subscribes to.  The repository has a third one, over the same           *)
(* settlement states as the first: RepositoryRules!SettlementTransitions.  *)
(***************************************************************************)

Untracked == {"TRACKING_TIMEOUT", "TRACKING_UNAVAILABLE"}

\* validateStateTransition of the intent engine.
IntentTransitions ==
  [ CREATED              |-> {"SIGNED", "CANCELLED", "EXPIRED"},
    SIGNED               |-> {"SUBMITTED", "CANCELLED", "EXPIRED"},
    SUBMITTED            |-> {"ACCEPTED", "REJECTED", "FAILED", "EXPIRED", "FULFILLING"},
    ACCEPTED             |-> {"FULFILLING", "FAILED", "REFUND_PENDING"},
    FULFILLING           |-> {"DESTINATION_FILLED", "FAILED", "REFUND_PENDING", "SETTLED"}
                               \cup Untracked,
    DESTINATION_FILLED   |-> {"VERIFIED", "SETTLING", "SETTLED", "FAILED", "REFUND_PENDING"},
    VERIFIED             |-> {"SETTLING", "SETTLED", "FAILED", "REFUND_PENDING"},
    SETTLING             |-> {"SETTLED", "FAILED"},
    FAILED               |-> {"REFUND_PENDING", "REFUNDED"},
    EXPIRED              |-> {"REFUND_PENDING", "REFUNDED"},
    REJECTED             |-> {"REFUND_PENDING", "REFUNDED"},
    REFUND_PENDING       |-> {"REFUNDED"},
    TRACKING_TIMEOUT     |-> {"FULFILLING", "DESTINATION_FILLED", "SETTLED", "FAILED",
                              "REFUND_PENDING", "REFUNDED"},
    TRACKING_UNAVAILABLE |-> {"FULFILLING", "DESTINATION_FILLED", "SETTLED", "FAILED",
                              "REFUND_PENDING", "REFUNDED"},
    SETTLED              |-> {},
    REFUNDED             |-> {},
    CANCELLED            |-> {} ]

BridgeLate == {"DESTINATION_FILLED", "SETTLED", "REFUND_PENDING", "FAILED"}
Undone     == {"FAILED", "CANCELLED"}
EndedStatuses == {"COMPLETED", "SETTLED", "FAILED", "REVERTED", "CANCELLED", "REFUNDED"}

\* VALID_TRANSACTION_STATUS_TRANSITIONS; an ended status has no successor.
StatusTransitions ==
  [ IDLE         |-> {"QUOTE_REQUESTED", "QUOTED", "SIMULATING", "APPROVAL_NEEDED", "APPROVING",
                      "SIGNING", "SUBMITTING", "BROADCASTED", "CONFIRMING", "PREPARING",
                      "BRIDGE_SOURCE_CONFIRMED", "BRIDGE_IN_FLIGHT",
                      "BRIDGE_DESTINATION_CONFIRMED", "REFUNDED", "CANCELLED"}
                       \cup BridgeLate \cup Untracked,
    PREPARING       |-> {"SIMULATING", "SIMULATED"} \cup Undone,
    QUOTE_REQUESTED |-> {"QUOTED"} \cup Undone,
    QUOTED          |-> {"SIMULATING", "SIMULATED", "APPROVAL_NEEDED", "APPROVING", "SIGNING"}
                          \cup Undone,
    SIMULATING      |-> {"SIMULATED", "APPROVAL_NEEDED", "APPROVING", "SIGNING", "REVERTED"}
                          \cup Undone,
    SIMULATED       |-> {"APPROVAL_NEEDED", "APPROVING", "SIGNING", "SUBMITTING"} \cup Undone,
    APPROVAL_NEEDED |-> {"APPROVING"} \cup Undone,
    APPROVING       |-> {"APPROVED", "REVERTED"} \cup Undone,
    APPROVED        |-> {"SIGNING", "SUBMITTING", "CONFIRMING", "BRIDGE_IN_FLIGHT"} \cup Undone,
    SIGNING         |-> {"SUBMITTING", "BROADCASTED", "CONFIRMING", "BRIDGE_IN_FLIGHT"}
                          \cup Undone,
    SUBMITTING      |-> {"BROADCASTED", "CONFIRMING", "BRIDGE_SOURCE_CONFIRMED",
                         "BRIDGE_IN_FLIGHT", "REVERTED"} \cup Undone,
    BROADCASTED     |-> {"CONFIRMING", "COMPLETED", "BRIDGE_SOURCE_CONFIRMED",
                         "BRIDGE_IN_FLIGHT", "FAILED", "REVERTED"},
    CONFIRMING      |-> {"COMPLETED", "BRIDGE_SOURCE_CONFIRMED", "BRIDGE_IN_FLIGHT",
                         "DESTINATION_FILLED", "SETTLED", "FAILED", "REVERTED", "SIMULATING",
                         "SIMULATED", "APPROVING", "APPROVED", "SIGNING", "SUBMITTING"},
    BRIDGE_SOURCE_CONFIRMED |->
      {"BRIDGE_IN_FLIGHT", "BRIDGE_DESTINATION_CONFIRMED"} \cup BridgeLate \cup Untracked,
    BRIDGE_IN_FLIGHT |->
      {"BRIDGE_DESTINATION_CONFIRMED", "COMPLETED"} \cup BridgeLate \cup Untracked,
    BRIDGE_DESTINATION_CONFIRMED |-> {"COMPLETED"} \cup BridgeLate,
    DESTINATION_FILLED   |-> {"COMPLETED", "SETTLED", "REFUND_PENDING", "FAILED"},
    TRACKING_TIMEOUT     |-> {"BRIDGE_IN_FLIGHT", "REFUNDED"} \cup BridgeLate,
    TRACKING_UNAVAILABLE |-> {"BRIDGE_IN_FLIGHT", "REFUNDED"} \cup BridgeLate,
    REFUND_PENDING       |-> {"REFUNDED", "FAILED"} ]

Statuses == DOMAIN StatusTransitions \cup EndedStatuses

\* Setting the status already held is always accepted.
ValidIntent(from, to) == from = to \/ to \in IntentTransitions[from]
ValidStatus(from, to) ==
  from = to \/ (from \notin EndedStatuses /\ to \in StatusTransitions[from])
=============================================================================
