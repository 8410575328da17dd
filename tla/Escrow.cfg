SPECIFICATION EscrowSpec
CONSTANTS
  Assets = {token}
  Wrapped = token
  Sums = {1000}
  Rates = {30}
  Deadlines = {0, 1}
  Nonces = {1, 2}
  Setups <- BothSetups
  MaxTime = 2
  MaxMoves = 1
INVARIANTS
  LedgersAgree
PROPERTIES
  RefundComes
CHECK_DEADLOCK FALSE
