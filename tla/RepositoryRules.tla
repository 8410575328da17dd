--------------------------- MODULE RepositoryRules ---------------------------
(***************************************************************************)
(* The rules every repository implementation shares: the four status       *)
(* tables with their validators, and the lease table's row operations.     *)
(* The operators are pure; the modules that keep the rows use them.        *)
(***************************************************************************)
EXTENDS Integers

CONSTANT NoWorker     \* the owner of a resource that has no lease row

(***************************************************************************)
(* Status tables.  A terminal status has no successor.                     *)
(***************************************************************************)
TransactionTransitions ==
  [ CREATED             |-> {"PREFLIGHTING", "PREFLIGHT_FAILED"},
    PREFLIGHTING        |-> {"PREFLIGHT_PASSED", "PREFLIGHT_FAILED"},
    PREFLIGHT_PASSED    |-> {"READY_TO_BROADCAST", "PREFLIGHT_FAILED"},
    READY_TO_BROADCAST  |-> {"BROADCASTING", "BROADCAST_FAILED"},
    BROADCASTING        |-> {"BROADCAST_CONFIRMED", "BROADCAST_FAILED", "BROADCAST_UNCERTAIN"},
    BROADCAST_UNCERTAIN |-> {"BROADCAST_CONFIRMED", "CONFIRMED", "RECOVERY_REQUIRED",
                             "BROADCAST_FAILED", "REVERTED"},
    BROADCAST_CONFIRMED |-> {"CONFIRMING", "CONFIRMED", "REVERTED", "RECOVERY_REQUIRED"},
    CONFIRMING          |-> {"CONFIRMED", "REVERTED", "DROPPED", "EXPIRED", "RECOVERY_REQUIRED"},
    CONFIRMED           |-> {},
    PREFLIGHT_FAILED    |-> {"PREFLIGHTING"},
    BROADCAST_FAILED    |-> {"READY_TO_BROADCAST", "PREFLIGHTING"},
    REVERTED            |-> {},
    DROPPED             |-> {"RECOVERY_REQUIRED"},
    EXPIRED             |-> {"RECOVERY_REQUIRED"},
    RECOVERY_REQUIRED   |-> {"BROADCAST_CONFIRMED", "CONFIRMED", "BROADCAST_FAILED", "REVERTED"} ]

TransactionStates == DOMAIN TransactionTransitions

StepDone == {"SUCCESS", "SKIPPED", "FAILED", "ERROR"}
StepLate == {"SUBMITTED", "CONFIRMING"} \cup StepDone

StepTransitions ==
  [ NOT_STARTED |-> {"PENDING", "ACTIVE", "SIMULATING", "SIGNING"} \cup StepLate,
    IDLE        |-> {"PENDING", "ACTIVE", "SIMULATING", "SIGNING"} \cup StepLate,
    PENDING     |-> {"ACTIVE", "SIMULATING", "SIGNING"} \cup StepLate,
    ACTIVE      |-> {"SIMULATING", "SIGNING"} \cup StepLate,
    SIMULATING  |-> {"ACTIVE", "SIGNING"} \cup StepLate,
    SIGNING     |-> {"ACTIVE"} \cup StepLate,
    SUBMITTED   |-> {"CONFIRMING", "SUCCESS", "FAILED", "ERROR"},
    CONFIRMING  |-> {"SUCCESS", "FAILED", "ERROR"},
    SUCCESS     |-> {},
    FAILED      |-> {},
    SKIPPED     |-> {},
    ERROR       |-> {} ]

StepStatuses == DOMAIN StepTransitions

SettlementTransitions ==
  [ CREATED              |-> {"SIGNED", "SUBMITTED", "FULFILLING", "CANCELLED", "EXPIRED"},
    SIGNED               |-> {"SUBMITTED", "CANCELLED", "EXPIRED"},
    SUBMITTED            |-> {"ACCEPTED", "REJECTED", "FAILED", "EXPIRED", "FULFILLING", "SETTLED"},
    ACCEPTED             |-> {"FULFILLING", "FAILED", "REFUND_PENDING"},
    FULFILLING           |-> {"FULFILLING", "DESTINATION_FILLED", "FAILED", "REFUND_PENDING",
                              "SETTLED", "TRACKING_TIMEOUT", "TRACKING_UNAVAILABLE"},
    DESTINATION_FILLED   |-> {"VERIFIED", "SETTLING", "SETTLED", "FAILED", "REFUND_PENDING"},
    VERIFIED             |-> {"SETTLING", "SETTLED", "FAILED", "REFUND_PENDING"},
    SETTLING             |-> {"SETTLED", "FAILED"},
    SETTLED              |-> {},
    FAILED               |-> {"REFUND_PENDING", "REFUNDED"},
    REFUND_PENDING       |-> {"REFUNDED"},
    REFUNDED             |-> {},
    CANCELLED            |-> {},
    EXPIRED              |-> {"REFUND_PENDING", "REFUNDED"},
    REJECTED             |-> {"REFUND_PENDING", "REFUNDED"},
    TRACKING_TIMEOUT     |-> {"FULFILLING", "DESTINATION_FILLED", "SETTLED", "FAILED",
                              "REFUND_PENDING", "REFUNDED"},
    TRACKING_UNAVAILABLE |-> {"FULFILLING", "DESTINATION_FILLED", "SETTLED", "FAILED",
                              "REFUND_PENDING", "REFUNDED"} ]

SettlementStates == DOMAIN SettlementTransitions

\* A write of the status already stored is always accepted.
ValidTransaction(from, to) == from = to \/ to \in TransactionTransitions[from]
ValidStep(from, to)        == from = to \/ to \in StepTransitions[from]
ValidSettlement(from, to)  == from = to \/ to \in SettlementTransitions[from]

(***************************************************************************)
(* Lease rows.  The row of a resource names its owner and the time its     *)
(* lease ends; acquiredAt and renewedAt are never read and are left out.   *)
(***************************************************************************)
NoLease == [owner |-> NoWorker, expires |-> 0]

Expired(lease, now) == lease.owner # NoWorker /\ lease.expires <= now

\* acquireLease: refused only while another worker's lease is unexpired.
CanAcquire(lease, w, now) ==
  \/ lease.owner \in {NoWorker, w}
  \/ Expired(lease, now)

Granted(w, now, term) == [owner |-> w, expires |-> now + term]

\* renewLease: only the owner, and only before the lease ends.
CanRenew(lease, w, now) == lease.owner = w /\ lease.expires > now

\* Variant: does not look at the owner.
ReleasedByAnyone(lease, w) == NoLease

\* releaseLease: deletes the row if its owner is the named worker.
Released(lease, w) == IF lease.owner = w THEN NoLease ELSE lease
=============================================================================
