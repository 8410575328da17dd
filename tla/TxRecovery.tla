------------------------------ MODULE TxRecovery ------------------------------
(***************************************************************************)
(* Recovery of broadcasts of one swap whose answer was lost.  executeTrade *)
(* tries the swap again and again; the program that calls it keeps a       *)
(* transaction record for every try whose answer it missed; recovery       *)
(* engines (recoverAll) compare the records with the chain and write the   *)
(* records and the row of the step.  Recovery awaits between any two of    *)
(* its queries and writes, so each is an action, and                       *)
(* recoverUncertainTransaction takes no lease.                             *)
(*                                                                         *)
(* No code under packages/ or apps/ creates transaction records: the       *)
(* calling program is external, and writes what the repository's tests     *)
(* write and BroadcastUncertainError carries.                              *)
(***************************************************************************)
EXTENDS RepositoryRules, Sequences, FiniteSetsExt

CONSTANTS
  MaxTries,      \* bound on the tries of the swap
  MaxNonce,      \* bound on the user's transactions
  Recoverers,    \* recovery engines
  Faults         \* a subset of FaultKinds

\* late: an unanswered request reaches a node later; nonce: the adapter could
\* not read the nonce; unread: the pending count fails in recovery; rpc: another
\* query of recovery fails; wallet: the user sends something else; write: the
\* row is not written; crash: a recovery engine dies.
FaultKinds == {"late", "nonce", "unread", "rpc", "wallet", "write", "crash"}

ASSUME TxAssumption ==
  /\ MaxTries \in Nat \ {0}
  /\ MaxNonce \in Nat
  /\ NoWorker \notin Recoverers
  /\ Faults \subseteq FaultKinds

VARIABLES
  chain,     \* the user's transactions in nonce order: hash and state
  wire,      \* requests that may still reach a node: try and nonce
  records,   \* the transaction records, one per try
  row,       \* the step's row: status and hash
  call,      \* executeTrade: where it is, its try, its nonce, the step's status
  rec,       \* per recovery engine: where it is and what it has read
  lease,     \* the owner of the lease "plan:<id>"
  odd        \* history, per try: it was late, its pending count was unread

vars == <<chain, wire, records, row, call, rec, lease, odd>>
network == <<chain, wire>>

Tries   == 1..MaxTries
NoHash  == 0
Foreign(n) == MaxTries + n    \* a transaction with nonce n that is not the swap's
Hashes  == 0..(MaxTries + MaxNonce)
NoNonce == 0

Unused  == [state |-> "NONE", nonce |-> NoNonce, hash |-> NoHash]
TxRecord == [state : TransactionStates \cup {"NONE"}, nonce : Nat, hash : Hashes]

\* Variant: what recovery could not resolve no longer counts.
UncertainFresh == {"BROADCAST_UNCERTAIN"}

Uncertain == {"BROADCAST_UNCERTAIN", "RECOVERY_REQUIRED"}

CallAt == {"idle", "send", "wait", "finally", "record", "over"}
RecAt  == {"idle", "next", "receipt", "discover", "latest", "pending", "fallback",
           "row", "read", "after", "afterRow"}
Verdict == {"NONE", "CONFIRMED", "REVERTED"}

\* A recovery engine: the records it still has to treat, the one it treats, its
\* copy of it, the verdict and hash it found.  In recoverPlan (inPlan) also the
\* copies of the step's records.
Idle == [pc |-> "idle", todo |-> {}, at |-> 1, copy |-> Unused, verdict |-> "NONE",
         hash |-> NoHash, inPlan |-> FALSE, copies |-> [k \in Tries |-> Unused]]

TypeOK ==
  /\ chain \in Seq([hash : Hashes \ {NoHash}, state : {"pending", "mined", "reverted"}])
  /\ wire \subseteq Tries \X Nat
  /\ records \in [Tries -> TxRecord]
  /\ row \in [status : {"NOT_STARTED", "SUCCESS", "FAILED"}, hash : Hashes]
  /\ call \in [pc : CallAt, at : Tries \cup {0}, nonce : Nat,
               status : {"NOT_STARTED", "SUCCESS", "FAILED"}, unanswered : BOOLEAN]
  /\ rec \in [Recoverers -> [pc : RecAt, todo : SUBSET Tries, at : Tries, copy : TxRecord,
                             verdict : Verdict, hash : Hashes, inPlan : BOOLEAN,
                             copies : [Tries -> TxRecord]]]
  /\ lease \in Recoverers \cup {NoWorker}
  /\ odd \in [Tries -> SUBSET {"late", "unread"}]

Init ==
  /\ chain = <<>>
  /\ wire = {}
  /\ records = [k \in Tries |-> Unused]
  /\ row = [status |-> "NOT_STARTED", hash |-> NoHash]
  /\ call = [pc |-> "idle", at |-> 0, nonce |-> NoNonce, status |-> "NOT_STARTED",
             unanswered |-> FALSE]
  /\ rec = [v \in Recoverers |-> Idle]
  /\ lease = NoWorker
  /\ odd = [k \in Tries |-> {}]

(***************************************************************************)
(* The chain and the wallet.                                               *)
(***************************************************************************)
Settled(i) == chain[i].state # "pending"
LatestNonce  == Cardinality({i \in DOMAIN chain : Settled(i)}) + 1
PendingNonce == Len(chain) + 1

InState(hash, state) == \E i \in DOMAIN chain : chain[i] = [hash |-> hash, state |-> state]
Live(k) == InState(k, "pending") \/ InState(k, "mined")

Accepted(hash) == Append(chain, [hash |-> hash, state |-> "pending"])

Mine ==
  /\ \E i \in DOMAIN chain, state \in {"mined", "reverted"} :
       /\ ~Settled(i)
       /\ \A j \in 1..(i - 1) : Settled(j)
       /\ chain' = [chain EXCEPT ![i].state = state]
  /\ UNCHANGED <<wire, records, row, call, rec, lease, odd>>

Wallet ==
  /\ "wallet" \in Faults
  /\ Len(chain) < MaxNonce
  /\ chain' = Accepted(Foreign(PendingNonce))
  /\ UNCHANGED <<wire, records, row, call, rec, lease, odd>>

\* A delayed request reaches a node, which takes it if its nonce is still free.
Arrive ==
  /\ \E request \in wire :
       /\ wire' = wire \ {request}
       /\ chain' = IF request[2] = PendingNonce /\ Len(chain) < MaxNonce
                   THEN Accepted(request[1]) ELSE chain
  /\ UNCHANGED <<records, row, call, rec, lease, odd>>

(***************************************************************************)
(* executeTrade on the swap, and the program that calls it.                *)
(***************************************************************************)
\* A retry goes on unless the row says SUCCESS or a record is uncertain.
Retry ==
  /\ call.pc = "idle"
  /\ call.at < MaxTries
  /\ row.status # "SUCCESS"
  /\ \A k \in Tries : records[k].state \notin Uncertain
  /\ \E nonce \in {PendingNonce} \cup (IF "nonce" \in Faults THEN {NoNonce} ELSE {}) :
       call' = [call EXCEPT !.pc = "send", !.at = @ + 1, !.nonce = nonce]
  /\ UNCHANGED <<network, records, row, rec, lease, odd>>

Usable == call.nonce \in {NoNonce, PendingNonce} /\ Len(chain) < MaxNonce

Answered ==
  /\ call.pc = "send"
  /\ Usable
  /\ chain' = Accepted(call.at)
  /\ call' = [call EXCEPT !.pc = "wait"]
  /\ UNCHANGED <<wire, records, row, rec, lease, odd>>

NotSent ==
  /\ call.pc = "send"
  /\ call' = [call EXCEPT !.pc = "finally", !.status = "FAILED", !.unanswered = FALSE]
  /\ UNCHANGED <<network, records, row, rec, lease, odd>>

\* No answer: the node took the transaction, never will, or may take it later.
Unanswered ==
  /\ call.pc = "send"
  /\ \/ Usable /\ chain' = Accepted(call.at) /\ UNCHANGED <<wire, odd>>
     \/ UNCHANGED <<network, odd>>
     \/ /\ "late" \in Faults
        /\ wire' = wire \cup {<<call.at, IF call.nonce = NoNonce THEN PendingNonce ELSE call.nonce>>}
        /\ odd' = [odd EXCEPT ![call.at] = @ \cup {"late"}]
        /\ UNCHANGED chain
  /\ call' = [call EXCEPT !.pc = "finally", !.status = "FAILED", !.unanswered = TRUE]
  /\ UNCHANGED <<records, row, rec, lease>>

SwapReceipt ==
  /\ call.pc = "wait"
  /\ \E outcome \in {<<"mined", "SUCCESS">>, <<"reverted", "FAILED">>} :
       /\ InState(call.at, outcome[1])
       /\ call' = [call EXCEPT !.pc = "finally", !.status = outcome[2], !.unanswered = FALSE]
  /\ UNCHANGED <<network, records, row, rec, lease, odd>>

\* A refused or failed write of the row is swallowed.
Finally ==
  /\ call.pc = "finally"
  /\ \/ /\ ValidStep(row.status, call.status)
        /\ row' = [status |-> call.status,
                   hash |-> IF call.status = "SUCCESS" THEN call.at ELSE row.hash]
     \/ /\ ~ValidStep(row.status, call.status) \/ "write" \in Faults
        /\ UNCHANGED row
  /\ call' = [call EXCEPT !.pc = IF call.status = "SUCCESS" THEN "over"
                                 ELSE IF call.unanswered THEN "record" ELSE "idle"]
  /\ UNCHANGED <<network, records, rec, lease, odd>>

\* The caller records the broadcast, with or without the hash the wallet knows.
RecordUncertain ==
  /\ call.pc = "record"
  /\ \E hash \in {NoHash, call.at} :
       records' = [records EXCEPT ![call.at] =
                     [state |-> "BROADCAST_UNCERTAIN", nonce |-> call.nonce, hash |-> hash]]
  /\ call' = [call EXCEPT !.pc = "idle"]
  /\ UNCHANGED <<network, row, rec, lease, odd>>

(***************************************************************************)
(* recoverAll.  A write of a record or a row throws when the repository    *)
(* refuses it; nothing catches that but the try around the nonce check,    *)
(* so the whole of recoverAll ends there.                                  *)
(***************************************************************************)
Goto(v, pc) == rec' = [rec EXCEPT ![v].pc = pc]

\* Ending recoverPlan, also by an exception, releases its lease.
End(v) ==
  /\ rec' = [rec EXCEPT ![v] = Idle]
  /\ lease' = IF rec[v].inPlan /\ lease = v THEN NoWorker ELSE lease

\* The record is dealt with.
Treated(r) == [Idle EXCEPT !.pc = "next", !.todo = r.todo \ {r.at}, !.inPlan = r.inPlan,
                           !.copies = r.copies]

\* recoverUncertainTransaction returns to recoverAll or to recoverPlan.
Return(v) ==
  rec' = [rec EXCEPT ![v] = IF rec[v].inPlan
            THEN [rec[v] EXCEPT !.pc = "after", !.copy = Unused, !.verdict = "NONE", !.hash = NoHash]
            ELSE Treated(rec[v])]

\* Variant: the repository accepts any change of state.
WritableAlways(v, state) == TRUE

\* updateTransaction.
Writable(v, state) == ValidTransaction(records[rec[v].at].state, state)
Write(v, state) == records' = [records EXCEPT ![rec[v].at].state = state]

\* The record gets the verdict of the chain, then the row is due.
Judge(v, state, hash, newHash, then) ==
  \/ /\ Writable(v, state)
     /\ records' = [records EXCEPT ![rec[v].at].state = state, ![rec[v].at].hash = newHash]
     /\ rec' = [rec EXCEPT ![v].pc = then, ![v].verdict = state, ![v].hash = hash]
     /\ UNCHANGED lease
  \/ /\ ~Writable(v, state)
     /\ End(v)
     /\ UNCHANGED records

\* Variant: any receipt counts as a success.
ChainVerdictAny(hash) ==
  IF InState(hash, "mined") \/ InState(hash, "reverted") THEN "CONFIRMED" ELSE "NONE"

ChainVerdict(hash) ==
  CASE InState(hash, "mined")    -> "CONFIRMED"
    [] InState(hash, "reverted") -> "REVERTED"
    [] OTHER                     -> "NONE"

Begin(v) ==
  /\ rec[v].pc = "idle"
  /\ rec' = [rec EXCEPT ![v] = [Idle EXCEPT !.pc = "next",
                                  !.todo = {k \in Tries : records[k].state \in Uncertain}]]
  /\ UNCHANGED <<network, records, row, call, lease, odd>>

\* The next record.  recoverPlan takes it for uncertain if its copy says so;
\* the record itself is read again.
NextRecord(v) ==
  /\ rec[v].pc = "next"
  /\ rec[v].todo # {}
  /\ LET k == Min(rec[v].todo)
         inner == ~rec[v].inPlan \/ rec[v].copies[k].state = "BROADCAST_UNCERTAIN"
     IN rec' = [rec EXCEPT ![v].at = k,
                           ![v].copy = IF inner THEN records[k] ELSE @,
                           ![v].pc = IF ~inner THEN "after"
                                     ELSE IF records[k].hash # NoHash THEN "receipt"
                                     ELSE "discover"]
  /\ UNCHANGED <<network, records, row, call, lease, odd>>

\* The receipt of the known hash; a failed query counts as pending.
QueryReceipt(v) ==
  /\ rec[v].pc = "receipt"
  /\ LET hash == rec[v].copy.hash
     IN \/ /\ ChainVerdict(hash) # "NONE"
           /\ Judge(v, ChainVerdict(hash), hash, records[rec[v].at].hash, "row")
        \/ /\ ChainVerdict(hash) = "NONE" \/ "rpc" \in Faults
           /\ Goto(v, "discover")
           /\ UNCHANGED <<records, lease>>
  /\ UNCHANGED <<network, row, call, odd>>

\* Variant: the comparison of nonces is off by one.
DiscoveredLater(v) ==
  LET nonce == rec[v].copy.nonce
  IN IF nonce # NoNonce /\ LatestNonce > nonce + 1 THEN chain[nonce].hash ELSE NoHash

\* Whatever was mined with the nonce is taken for the swap.  A failed query, or
\* a block older than the last twenty, finds nothing.
Discovered(v) ==
  LET nonce == rec[v].copy.nonce
  IN IF nonce # NoNonce /\ LatestNonce > nonce THEN chain[nonce].hash ELSE NoHash

Discover(v) ==
  /\ rec[v].pc = "discover"
  /\ LET hash == Discovered(v)
     IN \/ InState(hash, "mined") /\ Judge(v, "CONFIRMED", hash, hash, "row")
        \/ /\ ~InState(hash, "mined") \/ "rpc" \in Faults
           /\ Goto(v, "latest")
           /\ UNCHANGED <<records, lease>>
  /\ UNCHANGED <<network, row, call, odd>>

RowStatus(verdict) == IF verdict = "CONFIRMED" THEN "SUCCESS" ELSE "FAILED"

\* The row gets the verdict; the record already has it.
WriteRow(v) ==
  /\ rec[v].pc \in {"row", "afterRow"}
  /\ LET status == RowStatus(rec[v].verdict)
     IN \/ /\ ValidStep(row.status, status)
           /\ row' = [status |-> status,
                      hash |-> IF status = "SUCCESS" THEN rec[v].hash ELSE row.hash]
           /\ IF rec[v].pc = "row" THEN Return(v)
              ELSE rec' = [rec EXCEPT ![v] = Treated(rec[v])]
           /\ UNCHANGED lease
        \/ /\ ~ValidStep(row.status, status)
           /\ End(v)
           /\ UNCHANGED row
  /\ UNCHANGED <<network, records, call, odd>>

\* The nonce check.  A refused write inside its try leads to the fallback.
ReadLatest(v) ==
  /\ rec[v].pc = "latest"
  /\ LET nonce == rec[v].copy.nonce
         used  == nonce # NoNonce /\ LatestNonce > nonce
     IN \/ used /\ Writable(v, "RECOVERY_REQUIRED") /\ Write(v, "RECOVERY_REQUIRED") /\ Return(v)
        \/ LatestNonce = nonce /\ Goto(v, "pending") /\ UNCHANGED records
        \/ /\ \/ "rpc" \in Faults
              \/ nonce = NoNonce
              \/ LatestNonce < nonce
              \/ used /\ ~Writable(v, "RECOVERY_REQUIRED")
           /\ Goto(v, "fallback")
           /\ UNCHANGED records
  /\ UNCHANGED <<network, row, call, lease, odd>>

\* A failed read of the pending count is replaced by the latest one.
ReadPending(v) ==
  /\ rec[v].pc = "pending"
  /\ \E unread \in {FALSE} \cup (IF "unread" \in Faults THEN {TRUE} ELSE {}) :
       LET unseen == unread \/ PendingNonce = rec[v].copy.nonce
       IN \/ /\ unseen /\ Writable(v, "BROADCAST_FAILED")
             /\ Write(v, "BROADCAST_FAILED")
             /\ Return(v)
             /\ odd' = [odd EXCEPT ![rec[v].at] = IF unread THEN @ \cup {"unread"} ELSE @]
          \/ /\ ~unseen \/ ~Writable(v, "BROADCAST_FAILED")
             /\ Goto(v, "fallback")
             /\ UNCHANGED <<records, odd>>
  /\ UNCHANGED <<network, row, call, lease>>

Fallback(v) ==
  /\ rec[v].pc = "fallback"
  /\ \/ /\ Writable(v, "RECOVERY_REQUIRED")
        /\ Write(v, "RECOVERY_REQUIRED")
        /\ Return(v)
        /\ UNCHANGED lease
     \/ /\ ~Writable(v, "RECOVERY_REQUIRED")
        /\ End(v)
        /\ UNCHANGED records
  /\ UNCHANGED <<network, row, call, odd>>

\* The plan is recovered, under its lease, only if its row is neither SUCCESS
\* nor FAILED.
StartPlan(v) ==
  /\ rec[v].pc = "next" /\ rec[v].todo = {} /\ ~rec[v].inPlan
  /\ IF row.status = "NOT_STARTED" /\ lease \in {NoWorker, v}
     THEN /\ lease' = v
          /\ rec' = [rec EXCEPT ![v].pc = "read", ![v].inPlan = TRUE]
     ELSE End(v)
  /\ UNCHANGED <<network, records, row, call, odd>>

ReadPlan(v) ==
  /\ rec[v].pc = "read"
  /\ rec' = [rec EXCEPT ![v].pc = "next", ![v].copies = records,
                        ![v].todo = IF row.status = "SUCCESS" THEN {}
                                    ELSE {k \in Tries : records[k] # Unused}]
  /\ UNCHANGED <<network, records, row, call, lease, odd>>

\* recoverPlan asks again for the hash in its copy of the record.
QueryCopy(v) ==
  /\ rec[v].pc = "after"
  /\ LET hash == rec[v].copies[rec[v].at].hash
     IN \/ /\ ChainVerdict(hash) # "NONE"
           /\ Judge(v, ChainVerdict(hash), hash, records[rec[v].at].hash, "afterRow")
        \/ /\ ChainVerdict(hash) = "NONE" \/ "rpc" \in Faults
           /\ rec' = [rec EXCEPT ![v] = Treated(rec[v])]
           /\ UNCHANGED <<records, lease>>
  /\ UNCHANGED <<network, row, call, odd>>

EndPlan(v) ==
  /\ rec[v].pc = "next" /\ rec[v].todo = {} /\ rec[v].inPlan
  /\ End(v)
  /\ UNCHANGED <<network, records, row, call, odd>>

\* The engine dies where it is; its lease stays until it lapses.
Crash(v) ==
  /\ "crash" \in Faults
  /\ rec[v].pc # "idle"
  /\ rec' = [rec EXCEPT ![v] = Idle]
  /\ UNCHANGED <<network, records, row, call, lease, odd>>

Lapse ==
  /\ lease # NoWorker
  /\ lease' = NoWorker
  /\ UNCHANGED <<network, records, row, call, rec, odd>>

RecoverStep(v) ==
  \/ NextRecord(v) \/ QueryReceipt(v) \/ Discover(v) \/ WriteRow(v)
  \/ ReadLatest(v) \/ ReadPending(v) \/ Fallback(v)
  \/ StartPlan(v) \/ ReadPlan(v) \/ QueryCopy(v) \/ EndPlan(v)

CallStep == Answered \/ NotSent \/ Unanswered \/ SwapReceipt \/ Finally \/ RecordUncertain

Next ==
  \/ Mine \/ Wallet \/ Arrive
  \/ Retry \/ CallStep
  \/ Lapse
  \/ \E v \in Recoverers : Begin(v) \/ RecoverStep(v) \/ Crash(v)

Spec == Init /\ [][Next]_vars

\* Transactions are mined, recovery goes on, and its caller runs it again.
Fairness ==
  /\ WF_vars(Mine)
  /\ \A v \in Recoverers : WF_vars(Begin(v) \/ RecoverStep(v))

LiveSpec == Spec /\ Fairness

(***************************************************************************)
(* Properties.                                                             *)
(***************************************************************************)

\* A record says CONFIRMED or REVERTED only of a transaction the chain settled
\* so, and recovery calls a broadcast failed only while the swap it sent is not
\* on the chain, unless its request was delayed or the pending count unread.
VerdictsHold ==
  /\ TypeOK
  /\ \A k \in Tries :
       /\ records[k].state = "CONFIRMED" => InState(records[k].hash, "mined")
       /\ records[k].state = "REVERTED"  => InState(records[k].hash, "reverted")
       /\ records[k].state = "BROADCAST_FAILED" /\ odd[k] = {} => ~Live(k)

\* A row that says SUCCESS names a mined transaction: the one executeTrade saw,
\* or that of a record which was CONFIRMED before.
SuccessIsBacked ==
  row.status = "SUCCESS" =>
    /\ InState(row.hash, "mined")
    /\ \/ row.hash = call.at
       \/ \E k \in Tries : records[k].state = "CONFIRMED" /\ row.hash = records[k].hash

\* executeTrade sends the swap beside an earlier try that may still execute or
\* has executed only if recovery confirmed that try and could not write the
\* row, or gave it up on a delayed request or an unread pending count.
RebroadcastHasCause ==
  [][call'.at # call.at =>
       \A k \in 1..call.at :
         Live(k) \/ (\E n \in 1..MaxNonce : <<k, n>> \in wire /\ n = PendingNonce) =>
           \/ records[k].state = "CONFIRMED"
           \/ records[k].state = "BROADCAST_FAILED" /\ odd[k] # {}]_vars

\* Recovery that runs again and again decides every uncertain record, unless
\* its nonce went to a transaction that reverted and that it does not name:
\* nonce discovery ignores a reverted transaction.
UncertainDecided ==
  \A k \in Tries :
    records[k].state \in Uncertain ~>
      \/ records[k].state \notin Uncertain
      \/ \E i \in DOMAIN chain : /\ i = records[k].nonce
                                /\ chain[i].state = "reverted"
                                /\ chain[i].hash # records[k].hash

\* Not guaranteed: "confirmed transaction discovered during recovery is NEVER rebroadcast."
ConfirmedNeverRebroadcast ==
  [][call'.at # call.at => \A k \in Tries : records[k].state # "CONFIRMED"]_vars

\* Not guaranteed: recovery confirms a step only by a transaction of that step.
ConfirmedIsOurs ==
  \A k \in Tries : records[k].state = "CONFIRMED" => records[k].hash = k
=============================================================================
