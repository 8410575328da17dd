--------------------------- MODULE MCStepExecution ---------------------------
EXTENDS StepExecution

CONSTANTS a, b, c1, c2

\* Each call is of a worker of its own.
TwoWorkers == [c \in Calls |-> IF c = c2 THEN b ELSE a]

\* Source swap, bridge deposit, relay wait; a deposit is sent like a swap.
SwapThenBridge == <<"SWAP", "SWAP", "LOCAL">>
=============================================================================
