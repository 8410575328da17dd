---------------------------- MODULE StepExecution ----------------------------
(***************************************************************************)
(* executeTrade of the execution coordinator: several calls, of several    *)
(* workers, run one plan.  A call walks the plan's chain of steps; for     *)
(* each it takes the step's lease, skips the step if it is recorded as     *)
(* done, otherwise executes it (preflight, nonce, broadcast, receipt),     *)
(* and in its finally block writes the step's row and releases the lease.  *)
(* Every await of the code separates two actions here.                     *)
(*                                                                         *)
(* The lease table and its other clients are those of WorkerLease: every   *)
(* step here is one of its steps or leaves its state alone.                *)
(***************************************************************************)
EXTENDS LeaseTable, Sequences

CONSTANTS
  N,              \* the number of steps of the plan
  KindOf,         \* of each step: "LOCAL", "APPROVAL" or "SWAP"
  UncertainSteps, \* steps that may have a transaction recorded as uncertain
  Faults          \* what may go wrong: a subset of FaultKinds

Steps     == 1..N
Kinds     == {"LOCAL", "APPROVAL", "SWAP"}
SwapSteps == {s \in Steps : KindOf[s] = "SWAP"}
TxSteps   == {s \in Steps : KindOf[s] # "LOCAL"}

\* response: the answer to a broadcast, or the receipt of a transaction, is
\* lost; output: a mined swap is rejected for what it paid out; store: a
\* repository write fails; crash: a worker's process dies.
FaultKinds == {"response", "output", "store", "crash"}

ASSUME StepAssumption ==
  /\ N \in Nat \ {0}
  /\ KindOf \in [Steps -> Kinds]
  /\ UncertainSteps \subseteq Steps
  /\ WorkerOf \in [Calls -> Workers]
  /\ NoWorker \notin Workers
  /\ Steps \subseteq Resources
  /\ Nothing \notin Resources
  /\ Term \in Nat \ {0}
  /\ MaxTime \in Nat
  /\ Faults \subseteq FaultKinds

VARIABLES
  rows,      \* the repository's plan_steps rows: status and transaction
  registry,  \* per worker: executedStepRegistry
  chain,     \* the user's transactions in nonce order
  call,      \* the local state of each executeTrade call
  causes     \* history: what could make a step run twice

\* The service is for any resources; a call leases the steps of its plan.
Leases == INSTANCE WorkerLease WITH Resources <- Resources, leases <- leases, grant <- grant

leaseVars == <<leases, now, grant, listed, claimed, reclaimed>>
vars == <<leaseVars, rows, registry, chain, call, causes>>

(***************************************************************************)
(* Types.                                                                  *)
(***************************************************************************)
NoTx    == 0                       \* a transaction is its place in chain
AtSend  == 0                       \* the nonce is left to the signer
NoNonce == -1
NotDone == [status |-> "NOT_STARTED", tx |-> NoTx]
Absent  == [status |-> "ABSENT", tx |-> NoTx]       \* the plan is not saved

RowStatuses == {"ABSENT", "NOT_STARTED", "SUCCESS", "FAILED"}
Record      == [status : RowStatuses, tx : Nat]
Transaction == [step : Steps, by : Calls, state : {"pending", "mined", "reverted"}]

Working == {"acquire", "check", "run", "send", "wait", "persist", "release"}
Holding == Working \ {"acquire"}
Ended   == {"returned", "threw", "crashed"}

\* One call: where it is, its step, the nonce and the transaction of that
\* step, the step's status in memory, and whether an exception is in flight.
CallState ==
  [ pc : Working \cup Ended \cup {"idle"}, step : Steps,
    nonce : Nat \cup {NoNonce}, tx : Nat,
    status : {"NOT_STARTED", "SUCCESS", "FAILED"}, raised : BOOLEAN ]

AtStep(pc, s) ==
  [ pc |-> pc, step |-> s, nonce |-> NoNonce, tx |-> NoTx,
    status |-> "NOT_STARTED", raised |-> FALSE ]

Causes == {"overlap", "unseen", "unrecorded"}

TypeOK ==
  /\ Leases!TypeOK
  /\ rows \in [Steps -> Record]
  /\ registry \in [Workers -> [Steps -> Record]]
  /\ chain \in Seq(Transaction)
  /\ call \in [Calls -> CallState]
  /\ causes \in [Steps -> SUBSET Causes]

Init ==
  /\ Leases!Init
  /\ rows = [s \in Steps |-> Absent]
  /\ registry = [w \in Workers |-> [s \in Steps |-> NotDone]]
  /\ chain = <<>>
  /\ call = [c \in Calls |-> AtStep("idle", 1)]
  /\ causes = [s \in Steps |-> {}]

(***************************************************************************)
(* What a call sees and does.                                              *)
(***************************************************************************)
At(c, pc) == call[c].pc = pc
StepOf(c) == call[c].step

Mined(s)   == {i \in DOMAIN chain : chain[i].step = s /\ chain[i].state = "mined"}
Pending    == {i \in DOMAIN chain : chain[i].state = "pending"}

\* The status a failure leaves in memory: the swap steps catch it and set
\* FAILED, an approval leaves the status as it was, and of the local steps
\* the relay wait and the verification set FAILED, the others do not.
FailureStatuses(s) ==
  [LOCAL |-> {"NOT_STARTED", "FAILED"}, APPROVAL |-> {"NOT_STARTED"},
   SWAP |-> {"FAILED"}][KindOf[s]]

\* The step ends with a result, or with an exception, and goes to its finally.
Finish(c, status, tx, raised) ==
  call' = [call EXCEPT ![c] = [AtStep("persist", StepOf(c)) EXCEPT
                                 !.tx = tx, !.status = status, !.raised = raised]]

Enter(c, tx) ==
  registry' = [registry EXCEPT ![WorkerOf[c]][StepOf(c)] =
                                 [status |-> "SUCCESS", tx |-> tx]]

Succeed(c, tx) == Finish(c, "SUCCESS", tx, FALSE) /\ Enter(c, tx)

\* The hash of a failed broadcast stays in a local variable of the call.
Fail(c) ==
  /\ \E status \in FailureStatuses(StepOf(c)) : Finish(c, status, NoTx, TRUE)
  /\ UNCHANGED registry

AddCause(s, cause) == causes' = [causes EXCEPT ![s] = @ \cup {cause}]

(***************************************************************************)
(* Starting a call.  The plan is saved unless it exists; a failed save is  *)
(* logged and ignored.                                                     *)
(***************************************************************************)
Start(c) ==
  /\ At(c, "idle")
  /\ call' = [call EXCEPT ![c] = AtStep("acquire", 1)]
  /\ \/ rows[1] = Absent /\ rows' = [s \in Steps |-> NotDone]
     \/ (rows[1] # Absent \/ "store" \in Faults) /\ UNCHANGED rows
  /\ UNCHANGED <<leaseVars, registry, chain, causes>>

(***************************************************************************)
(* The lease of the step.                                                  *)
(***************************************************************************)
Acquire(c) ==
  LET s == StepOf(c) IN
  /\ At(c, "acquire")
  /\ Leases!AcquireLease(c, s)
  /\ call' = [call EXCEPT ![c].pc = "check"]
  /\ IF \E d \in Calls : grant[d].res = s
       THEN AddCause(s, "overlap")
       ELSE UNCHANGED causes
  /\ UNCHANGED <<rows, registry, chain>>

\* Variant: waits for the lease instead of throwing.
RefusedWaits(c) ==
  /\ At(c, "acquire")
  /\ ~CanAcquire(leases[StepOf(c)], WorkerOf[c], now)
  /\ UNCHANGED vars

\* LeaseLockConflictError, thrown before the try block.
Refused(c) ==
  /\ At(c, "acquire")
  /\ ~CanAcquire(leases[StepOf(c)], WorkerOf[c], now)
  /\ call' = [call EXCEPT ![c].pc = "threw"]
  /\ UNCHANGED <<leaseVars, rows, registry, chain, causes>>

(***************************************************************************)
(* The idempotency check: the row first, then this process's registry; and *)
(* the guard on recorded uncertain transactions.                           *)
(***************************************************************************)
\* Variants: asks the process only; takes any finished row for done.
RecordedHere(c)  == registry[WorkerOf[c]][StepOf(c)].status = "SUCCESS"
RecordedEnded(c) == rows[StepOf(c)].status \in StepDone \/ RecordedHere(c)

RecordedDone(c) ==
  \/ rows[StepOf(c)].status = "SUCCESS"
  \/ registry[WorkerOf[c]][StepOf(c)].status = "SUCCESS"

\* The row's hash is preferred to the registry's.
RecordedTx(c) ==
  IF rows[StepOf(c)].tx # NoTx THEN rows[StepOf(c)].tx
                               ELSE registry[WorkerOf[c]][StepOf(c)].tx

Skip(c) ==
  /\ At(c, "check")
  /\ RecordedDone(c)
  /\ Succeed(c, RecordedTx(c))
  /\ UNCHANGED <<leaseVars, rows, chain, causes>>

\* RecoveryRequiredError: the status in memory stays as it was.
Blocked(c) ==
  /\ At(c, "check")
  /\ ~RecordedDone(c)
  /\ StepOf(c) \in UncertainSteps
  /\ Finish(c, "NOT_STARTED", NoTx, TRUE)
  /\ UNCHANGED <<leaseVars, rows, registry, chain, causes>>

\* Those records are settled while calls run: a call may find none at any step.
Proceed(c) ==
  /\ At(c, "check")
  /\ ~RecordedDone(c)
  /\ call' = [call EXCEPT ![c].pc = "run"]
  /\ UNCHANGED <<leaseVars, rows, registry, chain, causes>>

(***************************************************************************)
(* The step itself.                                                        *)
(***************************************************************************)
\* A step without a transaction, or an approval the allowance makes needless.
RunLocal(c) ==
  /\ At(c, "run")
  /\ KindOf[StepOf(c)] \in {"LOCAL", "APPROVAL"}
  /\ Succeed(c, NoTx)
  /\ UNCHANGED <<leaseVars, rows, chain, causes>>

\* The relay wait enters its success, then the tracker's state machine, by
\* then COMPLETED, refuses the transition to the confirmation and throws.
LocalThrows(c) ==
  /\ At(c, "run")
  /\ KindOf[StepOf(c)] = "LOCAL"
  /\ Finish(c, "SUCCESS", NoTx, TRUE)
  /\ Enter(c, NoTx)
  /\ UNCHANGED <<leaseVars, rows, chain, causes>>

\* Quote refresh, verification, balance, allowance, eth_call and gas failures.
RunFails(c) ==
  /\ At(c, "run")
  /\ Fail(c)
  /\ UNCHANGED <<leaseVars, rows, chain, causes>>

\* After the preflight the pending nonce is read; a failed read leaves it to
\* the signer, which fills it in when it sends.
Prepare(c) ==
  /\ At(c, "run")
  /\ StepOf(c) \in TxSteps
  /\ \E nonce \in {Len(chain) + 1, AtSend} :
       call' = [call EXCEPT ![c] = [AtStep("send", StepOf(c)) EXCEPT !.nonce = nonce]]
  /\ UNCHANGED <<leaseVars, rows, registry, chain, causes>>

Usable(nonce) == nonce \in {AtSend, Len(chain) + 1}

Accepted(c) ==
  /\ At(c, "send")
  /\ Usable(call[c].nonce)
  /\ chain' = Append(chain, [step |-> StepOf(c), by |-> c, state |-> "pending"])

Broadcast(c) ==
  /\ Accepted(c)
  /\ call' = [call EXCEPT ![c] = [AtStep("wait", StepOf(c)) EXCEPT !.tx = Len(chain) + 1]]
  /\ UNCHANGED <<leaseVars, rows, registry, causes>>

\* BroadcastUncertainError: the network took the transaction, the answer is lost.
BroadcastUncertain(c) ==
  /\ "response" \in Faults
  /\ Accepted(c)
  /\ Fail(c)
  /\ AddCause(StepOf(c), "unseen")
  /\ UNCHANGED <<leaseVars, rows>>

\* Rejected in the wallet, refused for its nonce, or never reached a node.
NotSent(c) ==
  /\ At(c, "send")
  /\ Fail(c)
  /\ UNCHANGED <<leaseVars, rows, chain, causes>>

\* The network executes transactions in nonce order.
Mine ==
  /\ \E i \in Pending, state \in {"mined", "reverted"} :
       /\ \A j \in Pending : i <= j
       /\ chain' = [chain EXCEPT ![i].state = state]
  /\ UNCHANGED <<leaseVars, rows, registry, call, causes>>

\* Variant: any receipt counts as success.
ReceiptAny(c) ==
  /\ At(c, "wait")
  /\ chain[call[c].tx].state # "pending"
  /\ Succeed(c, call[c].tx)
  /\ UNCHANGED <<leaseVars, rows, chain, causes>>

Receipt(c) ==
  /\ At(c, "wait")
  /\ chain[call[c].tx].state = "mined"
  /\ Succeed(c, call[c].tx)
  /\ UNCHANGED <<leaseVars, rows, chain, causes>>

ReceiptReverted(c) ==
  /\ At(c, "wait")
  /\ chain[call[c].tx].state = "reverted"
  /\ Fail(c)
  /\ UNCHANGED <<leaseVars, rows, chain, causes>>

\* tx.wait throws, or the mined swap is rejected for its output.
ReceiptLost(c) ==
  /\ At(c, "wait")
  /\ \/ "response" \in Faults
     \/ "output" \in Faults /\ KindOf[StepOf(c)] = "SWAP"
                            /\ chain[call[c].tx].state = "mined"
  /\ Fail(c)
  /\ AddCause(StepOf(c), "unseen")
  /\ UNCHANGED <<leaseVars, rows, chain>>

(***************************************************************************)
(* The finally block: the row is written if its status may become the new  *)
(* one, and whatever that write throws is swallowed; the lease is released *)
(* by worker id.                                                           *)
(***************************************************************************)
Writable(row, status) == row # Absent /\ ValidStep(row.status, status)

Persist(c) ==
  LET s   == StepOf(c)
      new == [status |-> call[c].status, tx |-> call[c].tx] IN
  /\ At(c, "persist")
  /\ \/ Writable(rows[s], new.status) /\ rows' = [rows EXCEPT ![s] = new]
     \/ ~Writable(rows[s], new.status) /\ UNCHANGED rows
     \/ "store" \in Faults /\ UNCHANGED rows
  /\ IF new.status = "SUCCESS" /\ rows'[s].status # "SUCCESS"
       THEN AddCause(s, "unrecorded")
       ELSE UNCHANGED causes
  /\ call' = [call EXCEPT ![c].pc = "release"]
  /\ UNCHANGED <<leaseVars, registry, chain>>

\* Variant: goes on after a failed step.
AfterFailureOn(c) ==
  IF StepOf(c) = N THEN AtStep("returned", N) ELSE AtStep("acquire", StepOf(c) + 1)

AfterRelease(c) ==
  IF call[c].raised THEN AtStep("threw", StepOf(c))
  ELSE IF StepOf(c) = N THEN AtStep("returned", N)
  ELSE AtStep("acquire", StepOf(c) + 1)

Release(c) ==
  /\ At(c, "release")
  /\ Leases!ReleaseLease(c)
  /\ call' = [call EXCEPT ![c] = AfterRelease(c)]
  /\ UNCHANGED <<rows, registry, chain, causes>>

(***************************************************************************)
(* A worker's process dies: its calls and its registry are gone.           *)
(***************************************************************************)
CallsOf(w) == {c \in Calls : WorkerOf[c] = w /\ call[c].pc \in Working}

\* A broadcast or a success the row does not show yet.
Unrecorded(w) ==
  {StepOf(c) : c \in {d \in CallsOf(w) : At(d, "wait") \/ At(d, "persist")}}

Crash(w) ==
  /\ "crash" \in Faults
  /\ CallsOf(w) # {}
  /\ grant' = [c \in Calls |-> IF WorkerOf[c] = w THEN Leases!NoGrant ELSE grant[c]]
  /\ call' = [c \in Calls |-> IF c \in CallsOf(w) THEN AtStep("crashed", StepOf(c))
                                                 ELSE call[c]]
  /\ registry' = [registry EXCEPT ![w] = [s \in Steps |-> NotDone]]
  /\ causes' = [s \in Steps |-> IF s \in Unrecorded(w) THEN causes[s] \cup {"unrecorded"}
                                                      ELSE causes[s]]
  /\ UNCHANGED <<leases, now, listed, claimed, reclaimed, rows, chain>>

\* The other users of the lease table: recovery, and time.
LeaseStep ==
  /\ \/ \E v \in Recoverers : Leases!ListExpiredLeases(v) \/ Leases!ReclaimListed(v)
     \/ Leases!Tick
  /\ UNCHANGED <<rows, registry, chain, call, causes>>

Advance(c) ==
  \/ Acquire(c)
  \/ Refused(c)
  \/ Skip(c)
  \/ Blocked(c)
  \/ Proceed(c)
  \/ RunLocal(c)
  \/ LocalThrows(c)
  \/ RunFails(c)
  \/ Prepare(c)
  \/ Broadcast(c)
  \/ BroadcastUncertain(c)
  \/ NotSent(c)
  \/ Receipt(c)
  \/ ReceiptReverted(c)
  \/ ReceiptLost(c)
  \/ Persist(c)
  \/ Release(c)

Next ==
  \/ \E c \in Calls : Start(c) \/ Advance(c)
  \/ Mine
  \/ \E w \in Workers : Crash(w)
  \/ LeaseStep

Spec == Init /\ [][Next]_vars

\* The event loop runs every started call on, and the network keeps mining.
Fairness ==
  /\ \A c \in Calls : WF_vars(Advance(c))
  /\ WF_vars(Mine)

FairSpec == Spec /\ Fairness

(***************************************************************************)
(* Properties.                                                             *)
(***************************************************************************)
\* What says a step is done (a SUCCESS row, or an entry of some process's
\* registry) is backed by a mined transaction of that very step, for a swap;
\* stale rows, skips and rewrites of the hash by a second run included.
DoneIsMined ==
  \A s \in SwapSteps :
    LET Backed(record) == record.status = "SUCCESS" => record.tx \in Mined(s) IN
    Backed(rows[s]) /\ \A w \in Workers : Backed(registry[w][s])

\* A transaction of a step is broadcast only after every earlier swap of the
\* plan was mined: the plan's order holds on chain across calls, workers,
\* retries, crashes and recorded results.
OrderOnChain ==
  \A i \in DOMAIN chain : \A s \in SwapSteps :
    s < chain[i].step => \E j \in Mined(s) : j < i

\* A call that returns a receipt leaves every swap of the plan mined.
ReturnedIsExecuted ==
  \A c \in Calls : At(c, "returned") => \A s \in SwapSteps : Mined(s) # {}

\* A swap executes twice only if two runs of the step overlapped (a lease ran
\* out, or one worker id came twice), or a run ended without seeing what its
\* broadcast became, or a success was never written to the step's row.
DuplicateHasCause ==
  \A s \in SwapSteps : causes[s] = {} => \A i, j \in Mined(s) : i = j

\* Not guaranteed: each swap of a plan executes at most once, however often.
\* "Re-executing an already executed step returns existing result without
\* re-broadcast"; the code breaks it.
MinedAtMostOnce ==
  \A s \in SwapSteps : \A i, j \in Mined(s) : i = j

\* Not guaranteed: two workers never run one step at a time ("Another worker is actively
\* executing this step."); the code breaks it, for it never renews a lease.
OneWorkerPerStep ==
  \A c, d \in Calls :
    call[c].pc \in Holding /\ call[d].pc \in Holding /\ StepOf(c) = StepOf(d)
      => WorkerOf[c] = WorkerOf[d]

\* Not guaranteed: nobody broadcasts a swap again while the transaction of an earlier run of
\* it is still in the mempool ("Must be reconciled before execution can
\* continue."); the code breaks it, for it records no uncertain transaction.
NoRebroadcastInFlight ==
  \A i, j \in DOMAIN chain :
    i < j /\ chain[i].step \in SwapSteps /\ chain[i].step = chain[j].step
      => chain[i].state # "pending"

\* Every call that starts ends: it returns, throws or dies with its worker.
CallsEnd == \A c \in Calls : At(c, "acquire") ~> call[c].pc \in Ended
=============================================================================
