SPECIFICATION Spec
CONSTANTS
  NoWorker = NoWorker
  v1 = v1
  v2 = v2
  MaxTries = 1
  MaxNonce = 2
  Recoverers = {v1, v2}
  Faults = {"late", "nonce", "unread", "rpc", "wallet", "write", "crash"}
SYMMETRY Engines
INVARIANTS
  VerdictsHold
  SuccessIsBacked
