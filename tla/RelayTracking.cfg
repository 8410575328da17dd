CONSTANTS
  NoWorker = NoWorker
  Jobs <- AllJobs
  MaxPolls = 3
  MaxRuns = 3
  Faults = {"rpc", "crash"}
SPECIFICATION RelaySpec
INVARIANTS EngineAndRowAgree CompletedIsFilled
PROPERTIES CallEnds
CHECK_DEADLOCK FALSE
