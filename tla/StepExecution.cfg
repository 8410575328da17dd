SPECIFICATION FairSpec
CONSTANTS
  NoWorker = NoWorker
  Nothing = Nothing
  a = a
  b = b
  c1 = c1
  c2 = c2
  N = 3
  Resources = {1, 2, 3}
  KindOf <- SwapThenBridge
  UncertainSteps = {2}
  Workers = {a, b}
  Calls = {c1, c2}
  WorkerOf <- TwoWorkers
  Recoverers = {}
  Term = 1
  MaxTime = 1
  Faults = {"response", "output", "store", "crash"}
INVARIANTS
  DoneIsMined
  OrderOnChain
  ReturnedIsExecuted
  DuplicateHasCause
PROPERTIES
  CallsEnd
CHECK_DEADLOCK FALSE
