---------------------------- MODULE MCWorkerLease ----------------------------
(***************************************************************************)
(* WorkerLease for TLC: worker a presents its id in two calls, as two      *)
(* executeTrade calls of one process do; workers b and d in one each.      *)
(***************************************************************************)
EXTENDS WorkerLease, TLC

CONSTANTS a, b, d, c1, c2, c3, c4

CallOwner  == (c1 :> a) @@ (c2 :> a) @@ (c3 :> b) @@ (c4 :> d)
MCWorkerOf == [c \in Calls |-> CallOwner[c]]
=============================================================================
