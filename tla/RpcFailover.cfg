SPECIFICATION FairSpec
CONSTANTS
  p1 = p1
  p2 = p2
  Providers = {p1, p2}
  Priority <- Peers
  Calls = {c1, c2}
  FailureThreshold = 2
  SuccessThreshold = 2
  Cooldown = 1
  Ban = 2
  MaxRetries = 3
  MaxChecks = 1
INVARIANTS HealthAgrees BroadcastIsTold
PROPERTIES OpenIsTried
