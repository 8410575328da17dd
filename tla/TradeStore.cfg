CONSTANTS
  None = None
  Chains = {x, y}
  Home = x
  Amounts = {1, 2}
  Accounts = {a, b}
  Calls = {c1}
  MaxEdits = 1
  MaxMoves = 3
SPECIFICATION Spec
INVARIANTS QuoteFitsForm DisconnectLasts
PROPERTIES TradeFrees
CHECK_DEADLOCK FALSE
