------------------------------ MODULE MCEscrow ------------------------------
EXTENDS Escrow

\* The full deployment, and one whose fees have nowhere to go.
BothSetups == {[treasury |-> t, controller |-> TRUE] : t \in BOOLEAN}
=============================================================================
