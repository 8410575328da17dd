------------------------------ MODULE Solvers ------------------------------
(***************************************************************************)
(* Solvers that fill one order on its destination chain (SolverEngine), in *)
(* processes of their own.  A solver claims the order's lease, simulates,  *)
(* sends, remembers the hash under the plan's execution id and then writes *)
(* the order's row.  The lease is the only thing that keeps two of them    *)
(* apart: it is taken once, before two awaits and a broadcast, it is never *)
(* renewed or released, and no step after the claim looks at it again.     *)
(*                                                                         *)
(* A process runs its handler without interruption from one await to the   *)
(* next, and each action is such a stretch.  An execution id is the time   *)
(* its plan was made at, so plans of one instant share it.                 *)
(***************************************************************************)
EXTENDS RepositoryRules, Sequences, FiniteSets

CONSTANTS
  Engines,    \* the solvers, each the first provider of its own process
  Worker,     \* a recovery worker, which claims the same lease
  Calls,      \* bound: submissions and settlements under way at once
  Term,       \* submitDestinationExecution's leaseDurationMs
  Deadline,   \* the request's deadline
  MaxTime,    \* bound: the last instant
  MaxPlans,   \* bound: plans per solver
  MaxSends    \* bound: transactions broadcast

Times == 1..MaxTime
NoHash == 0

ASSUME SolversAssumption ==
  /\ Worker \notin Engines /\ NoWorker \notin Engines \cup {Worker}
  /\ Term \in Nat \ {0} /\ MaxTime \in Nat \ {0} /\ Deadline \in Times
  /\ MaxPlans \in Nat /\ MaxSends \in Nat

VARIABLES
  now,
  repo,      \* which repository the processes share
  row,       \* the order's row: status, destinationTxHash, solverId
  lease,     \* leaseOwner and leaseExpiresAt of the row
  plans,     \* execution ids each process holds a plan of
  known,     \* submittedTransactions: execution ids that have a hash
  call,      \* the submissions and settlements under way
  sent,      \* history: broadcasts, by hash
  undone     \* history: a row written back undid a claim made meanwhile

vars == <<now, repo, row, lease, plans, known, call, sent, undone>>

Idle == [pc |-> "idle"]
At(c, pc) == call[c].pc = pc

TypeOK ==
  /\ now \in Times
  /\ repo \in {"memory", "sqlite"}
  /\ row \in [status : SettlementStates, hash : 0..MaxSends, solver : Engines \cup {NoWorker}]
  /\ lease \in [owner : Engines \cup {Worker, NoWorker}, expires : 0..(MaxTime + Term)]
  /\ plans \in [Engines -> SUBSET Times]
  /\ known \in [Engines -> SUBSET Times]
  /\ sent \in Seq([solver : Engines, exec : Times, claimed : Times, noted : BOOLEAN])
  /\ Len(sent) <= MaxSends
  /\ undone \in BOOLEAN

Init ==
  /\ now = 1
  /\ repo \in {"memory", "sqlite"}
  /\ row = [status |-> "FULFILLING", hash |-> NoHash, solver |-> NoWorker]
  /\ lease = NoLease
  /\ plans = [s \in Engines |-> {}]
  /\ known = [s \in Engines |-> {}]
  /\ call = [c \in Calls |-> Idle]
  /\ sent = <<>>
  /\ undone = FALSE

Goto(c, pc) == call' = [call EXCEPT ![c].pc = pc]
End(c)      == call' = [call EXCEPT ![c] = Idle]

Tick ==
  /\ now < MaxTime
  /\ now' = now + 1
  /\ UNCHANGED <<repo, row, lease, plans, known, call, sent, undone>>

\* prepareDestinationExecution with a quote at hand.
Prepare(s) ==
  /\ now <= Deadline
  /\ Cardinality(plans[s]) < MaxPlans
  /\ plans' = [plans EXCEPT ![s] = @ \cup {now}]
  /\ UNCHANGED <<now, repo, row, lease, known, call, sent, undone>>

\* submitDestinationExecution up to its first await: a plan whose hash is
\* known is answered with it, an order leased to another is refused.
Submit(c, s, e) ==
  /\ At(c, "idle")
  /\ e \in plans[s] /\ now <= Deadline
  /\ e \notin known[s]
  /\ CanAcquire(lease, s, now)
  /\ lease' = Granted(s, now, Term)
  /\ call' = [call EXCEPT ![c] = [pc |-> "simulate", solver |-> s, exec |-> e, claimed |-> now]]
  /\ UNCHANGED <<now, repo, row, plans, known, sent, undone>>

Simulate(c) ==
  /\ At(c, "simulate")
  /\ Goto(c, "send")
  /\ UNCHANGED <<now, repo, row, lease, plans, known, sent, undone>>

\* Variant: a failed submission gives the lease back.
FailAndRelease(c) ==
  /\ call[c].pc \in {"simulate", "send"}
  /\ End(c)
  /\ lease' = Released(lease, call[c].solver)
  /\ UNCHANGED <<now, repo, row, plans, known, sent, undone>>

\* eth_call or estimateGas rejects, or sendTransaction does before it is out.
Fail(c) ==
  /\ call[c].pc \in {"simulate", "send"}
  /\ End(c)
  /\ UNCHANGED <<now, repo, row, lease, plans, known, sent, undone>>

\* sendTransaction puts the transaction out, but its answer may be an error.
Send(c) ==
  /\ At(c, "send") /\ Len(sent) < MaxSends
  /\ sent' = Append(sent, [solver |-> call[c].solver, exec |-> call[c].exec,
                           claimed |-> call[c].claimed, noted |-> FALSE])
  /\ \/ call' = [call EXCEPT ![c] = [pc |-> "answer", solver |-> @.solver,
                                     exec |-> @.exec, hash |-> Len(sent) + 1]]
     \/ End(c)
  /\ UNCHANGED <<now, repo, row, lease, plans, known, undone>>

\* Variant: the row's own status wins over the update's.
KeptStatus(r, c) == [r EXCEPT !.hash = call[c].hash, !.solver = call[c].solver]

\* The row a fill is written over.
Filled(r, c) == [status |-> "DESTINATION_FILLED", hash |-> call[c].hash,
                 solver |-> call[c].solver]

Noted(c) == [sent EXCEPT ![call[c].hash].noted = TRUE]

\* updateIntent writes the whole row r, its lease l too; a transition the table
\* does not allow throws, and the solver swallows the error.
WriteRow(from, r, l) ==
  IF ValidSettlement(from, r.status)
    THEN row' = r /\ lease' = l /\ undone' = (undone \/ l # lease)
    ELSE UNCHANGED <<row, lease, undone>>

\* The hash is remembered; the row is written at once in memory, and in SQLite
\* after an await over the row as it was read.
Answer(c) ==
  /\ At(c, "answer")
  /\ known' = [known EXCEPT ![call[c].solver] = @ \cup {call[c].exec}]
  /\ \/ /\ repo = "memory"
        /\ WriteRow(row.status, Filled(row, c), lease)
        /\ End(c) /\ sent' = Noted(c)
     \/ /\ repo = "sqlite"
        /\ call' = [call EXCEPT ![c] = [pc |-> "write", solver |-> @.solver,
                      hash |-> @.hash, row |-> row, lease |-> lease]]
        /\ UNCHANGED <<row, lease, undone, sent>>
  /\ UNCHANGED <<now, repo, plans>>

Write(c) ==
  /\ At(c, "write")
  /\ WriteRow(call[c].row.status, Filled(call[c].row, c), call[c].lease)
  /\ End(c) /\ sent' = Noted(c)
  /\ UNCHANGED <<now, repo, plans, known>>

\* A process on the shared file dies: its plans, map and calls are gone.
Crash(s) ==
  /\ repo = "sqlite"
  /\ plans' = [plans EXCEPT ![s] = {}]
  /\ known' = [known EXCEPT ![s] = {}]
  /\ call' = [c \in Calls |-> IF call[c].pc \notin {"idle", "settle"} /\ call[c].solver = s
                              THEN Idle ELSE call[c]]
  /\ UNCHANGED <<now, repo, row, lease, sent, undone>>

\* recoverIntent claims the same lease, and gives it back.
RecoveryClaim ==
  /\ CanAcquire(lease, Worker, now)
  /\ lease' = Granted(Worker, now, Term)
  /\ UNCHANGED <<now, repo, row, plans, known, call, sent, undone>>

RecoveryRelease ==
  /\ lease' = Released(lease, Worker) /\ lease' # lease
  /\ UNCHANGED <<now, repo, row, plans, known, call, sent, undone>>

\* A fill that is mined is settled: by recoverIntent under its lease, or by
\* reconcileIntent, which takes none, so that no lease is asked for here.
Settle(c) ==
  /\ At(c, "idle") /\ row.hash # NoHash
  /\ \/ /\ repo = "memory"
        /\ WriteRow(row.status, [row EXCEPT !.status = "SETTLED"], lease)
        /\ UNCHANGED call
     \/ /\ repo = "sqlite"
        /\ call' = [call EXCEPT ![c] = [pc |-> "settle", row |-> row, lease |-> lease]]
        /\ UNCHANGED <<row, lease, undone>>
  /\ UNCHANGED <<now, repo, plans, known, sent>>

SettleWrite(c) ==
  /\ At(c, "settle")
  /\ WriteRow(call[c].row.status, [call[c].row EXCEPT !.status = "SETTLED"], call[c].lease)
  /\ End(c)
  /\ UNCHANGED <<now, repo, plans, known, sent>>

Next ==
  \/ Tick
  \/ \E s \in Engines : Prepare(s) \/ Crash(s)
  \/ \E c \in Calls, s \in Engines : \E e \in plans[s] : Submit(c, s, e)
  \/ \E c \in Calls : Simulate(c) \/ Fail(c) \/ Send(c) \/ Answer(c) \/ Write(c)
                       \/ Settle(c) \/ SettleWrite(c)
  \/ RecoveryClaim \/ RecoveryRelease

Spec == Init /\ [][Next]_vars

(***************************************************************************)
(* Properties.                                                             *)
(***************************************************************************)

\* Two solvers fill the order only on claims a lease term apart, however many
\* plans and submissions each has under way and whatever fails in them -
\* unless SQLite's read and write of the row, an await apart, undid a claim
\* made in between.
ClaimsApart ==
  /\ TypeOK
  /\ \/ undone
     \/ \A i, j \in DOMAIN sent :
          sent[i].solver # sent[j].solver =>
            \/ sent[i].claimed + Term <= sent[j].claimed
            \/ sent[j].claimed + Term <= sent[i].claimed

\* A fill whose answer came back and whose row write is over never leaves the
\* order looking unfilled, so that no reader of the row starts it afresh.
FilledOrderShows ==
  (\E i \in DOMAIN sent : sent[i].noted)
     => /\ row.status \in {"DESTINATION_FILLED", "SETTLED"}
        /\ row.hash \in DOMAIN sent /\ sent[row.hash].solver = row.solver
=============================================================================
