CONSTANTS
  Callers = {p, q}
  MaxRuns = 3
  Faults = {"revert", "lost", "crash"}
SPECIFICATION Spec
INVARIANTS RepeatHasCause PaidWasMined 
PROPERTIES CallEnds
CHECK_DEADLOCK FALSE
