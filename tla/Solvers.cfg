SPECIFICATION Spec
CONSTANTS
  Engines = {A, B}
  Worker = W
  NoWorker = None
  Calls = {c1, c2}
  Term = 2
  Deadline = 3
  MaxTime = 4
  MaxPlans = 1
  MaxSends = 3
SYMMETRY Alike
INVARIANTS
  ClaimsApart
  
CHECK_DEADLOCK FALSE
