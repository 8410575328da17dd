----------------------------- MODULE MCTxRecovery -----------------------------
EXTENDS TxRecovery, TLC

CONSTANTS v1, v2

Engines == Permutations(Recoverers)
=============================================================================
