SPECIFICATION Spec
CONSTANTS
  NoWorker = NoWorker
  Nothing = Nothing
  a = a
  b = b
  d = d
  c1 = c1
  c2 = c2
  c3 = c3
  c4 = c4
  Workers = {a, b, d}
  Calls = {c1, c2, c3, c4}
  WorkerOf <- MCWorkerOf
  Resources = {r1}
  Recoverers = {v1}
  Term = 2
  MaxTime = 4
INVARIANTS
  SoleClaimExclusive
  BlockedForOneTerm
CHECK_DEADLOCK FALSE
