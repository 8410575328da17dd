CONSTANTS
  NoWorker = NoWorker
  Workers = {w1, w2}
  Injected = TRUE
  Jobs <- IntentJobs
  MaxVisits = 2
  MaxPolls = 2
  MaxRuns = 1
  Faults = {"rpc", "crash"}
SPECIFICATION Spec
INVARIANTS SettlementIsFilled SettledIsNamed FailedFillWasDoubted 
PROPERTIES RecoveryEnds
CHECK_DEADLOCK FALSE
