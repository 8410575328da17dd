----------------------------- MODULE LeaseTable -----------------------------
(***************************************************************************)
(* The state of the lease table and of its clients, and what one would     *)
(* have it satisfy.  WorkerLease is the service itself; StepExecution has  *)
(* the same state and is one of its clients.                               *)
(***************************************************************************)
EXTENDS RepositoryRules

CONSTANTS
  Resources,    \* lease keys: "step:<plan>:<step>", "plan:<plan>"
  Workers,      \* worker ids
  Calls,        \* client calls
  WorkerOf,     \* the worker id each call presents
  Recoverers,   \* runs of validateStartupConsistency
  Nothing,      \* the resource of a call that holds none
  Term,         \* lease duration, in ticks
  MaxTime       \* bound on the clock

VARIABLES
  leases,       \* the lease rows
  now,          \* the clock
  grant,        \* per call: the resource it works on and when its lease ends
  listed,       \* per recoverer: expired rows listed and not yet released
  claimed,      \* history: the (resource, worker) pairs ever granted
  reclaimed     \* history: those granted more than once

-----------------------------------------------------------------------------
\* A call whose lease time has not run out.
Live(c) == grant[c].res # Nothing /\ grant[c].until > now

Rivals(c, d) == grant[c].res = grant[d].res /\ WorkerOf[c] # WorkerOf[d]

\* Its worker was granted this resource exactly once, ever.
SoleClaim(c) == <<grant[c].res, WorkerOf[c]>> \notin reclaimed

\* Not guaranteed: two workers never both work under an unexpired lease on one
\* resource.  "Exactly one worker must win" asks it of acquireLease over time;
\* the code gives it up once a worker id returns to a resource.
LiveLeaseExclusive ==
  \A c, d \in Calls : Live(c) /\ Live(d) => ~Rivals(c, d)

\* Two workers never both work under an unexpired lease on one resource as
\* long as each presented its worker id for that resource once: neither an
\* acquire, nor another worker's release, nor a reclaim that lists rows and
\* releases them later (recoveryEngine) takes an unexpired lease from it.
SoleClaimExclusive ==
  \A c, d \in Calls :
    Live(c) /\ Live(d) /\ SoleClaim(c) /\ SoleClaim(d) => ~Rivals(c, d)

\* A worker that dies blocks a resource for one lease term at most: no row,
\* whatever was acquired, renewed or acquired again, ends later than that.
BlockedForOneTerm ==
  \A r \in Resources : leases[r].expires <= now + Term
=============================================================================
