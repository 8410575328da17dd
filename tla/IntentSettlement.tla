-------------------------- MODULE IntentSettlement --------------------------
(***************************************************************************)
(* Who else writes the rows of a cross-chain intent while its trade runs   *)
(* or after it is gone: the recovery engine's recoverIntent, in several    *)
(* workers under the intent's lease, and the status reconciler, which      *)
(* takes no lease.  Both read the row, then ask the provider and the       *)
(* destination chain, then write; every await separates two actions, so    *)
(* what they write may rest on a row that has changed since.               *)
(***************************************************************************)
EXTENDS RelayTracking

CONSTANTS
  Workers,     \* recovery workers
  MaxVisits,   \* bound on the recoveries and reconciliations that are begun
  Injected     \* the engine was given RPC providers (else it posts to a URL)

ASSUME SettlementAssumption ==
  NoWorker \notin Workers /\ MaxVisits \in Nat /\ Injected \in BOOLEAN

VARIABLES
  source,   \* the source transaction and step row a repository client recorded
  lease,    \* the intent row's lease: owner, and whether its time is over
  rec,      \* per worker: the local state of its recoverIntent
  recon,    \* the local state of the reconciler's reconcileOrder
  lapsed,   \* history: workers whose lease ended while they were at work
  visits    \* recoveries and reconciliations begun

ownVars == <<source, lease, rec, recon, lapsed, visits>>
vars == <<relayVars, ownVars>>

Recovering == {"claim", "source", "provider", "fill", "intent", "record", "hash",
               "order", "release"}
Resting == [pc |-> "idle", hash |-> FALSE, provider |-> None, receipt |-> None]
Idle    == [pc |-> "idle", status |-> None, hash |-> FALSE, ordered |-> FALSE]

SettlementTypeOK ==
  /\ TypeOK
  /\ source \in [tx : {None, "PENDING", "CONFIRMED", "REVERTED"}, step : {None, "ACTIVE", "FAILED"}]
  /\ lease \in [owner : Workers \cup {NoWorker}, over : BOOLEAN]
  /\ rec \in [Workers -> [pc : Recovering \cup {"idle"}, status : SettlementStates \cup {None},
                          hash : BOOLEAN, ordered : BOOLEAN]]
  /\ recon \in [pc : {"idle", "provider", "receipt", "write", "intent", "record"},
                hash : BOOLEAN, provider : SettlementStates \cup {None},
                receipt : {None, "CONFIRMED", "REVERTED"}]
  /\ lapsed \subseteq Workers
  /\ visits \in 0..MaxVisits

Init ==
  /\ RelayInit
  /\ source = [tx |-> None, step |-> None]
  /\ lease = [owner |-> NoWorker, over |-> FALSE]
  /\ rec = [w \in Workers |-> Idle]
  /\ recon = Resting
  /\ lapsed = {}
  /\ visits = 0

(***************************************************************************)
(* A client of the repository that keeps its own intents: createIntent,    *)
(* createStep and atomicRecordSourceSubmission, without the coordinator.   *)
(***************************************************************************)
RecordSourceSubmission ==
  /\ At("idle")
  /\ row.intent = None
  /\ row' = [row EXCEPT !.intent = "FULFILLING", !.order = "FULFILLING"]
  /\ source' = [tx |-> "PENDING", step |-> "ACTIVE"]
  /\ UNCHANGED <<job, bridge, trade, engine, machine, relay, lease, rec, recon, lapsed, visits>>

MineSource ==
  /\ source.tx = "PENDING"
  /\ \/ source' = [source EXCEPT !.tx = "CONFIRMED"] /\ bridge' = [bridge EXCEPT !.order = "SENT"]
     \/ source' = [source EXCEPT !.tx = "REVERTED"] /\ UNCHANGED bridge
  /\ UNCHANGED <<job, trade, engine, machine, relay, row, lease, rec, recon, lapsed, visits>>

(***************************************************************************)
(* recoverIntent.                                                          *)
(***************************************************************************)
Write(r) == row' = r /\ UNCHANGED <<job, bridge, trade, engine, machine, relay>>

Visit == visits < MaxVisits /\ visits' = visits + 1

RecAt(w, pc)   == rec[w].pc = pc
RecTo(w, pc)   == rec' = [rec EXCEPT ![w].pc = pc]
RecOnly        == UNCHANGED <<relayVars, source, lease, recon, lapsed, visits>>
Inside(w)      == rec[w].pc \in Recovering \ {"claim"}

\* updateIntent by one who awaits it: applied and on to pc, or thrown.
Update(w, s, h, pc) ==
  IF ValidSettlement(row.intent, s)
  THEN Write([row EXCEPT !.intent = s, !.hash = h]) /\ RecTo(w, pc)
  ELSE UNCHANGED relayVars /\ RecTo(w, "release")

\* Variant: a failing read counts as a reverted transaction.
QueriedReverted(tx) ==
  {[NONE |-> "PENDING", PENDING |-> "PENDING", SUCCESS |-> "CONFIRMED", CONFIRMED |-> "CONFIRMED",
    REVERTED |-> "REVERTED"][tx]} \cup (IF "rpc" \in Faults THEN {"REVERTED"} ELSE {})

\* queryTransactionStatus: a failing read is PENDING, but UNKNOWN_MOCKED when
\* the engine posts to the chain's public endpoint itself.
Queried(tx) ==
  {[NONE |-> "PENDING", PENDING |-> "PENDING", SUCCESS |-> "CONFIRMED", CONFIRMED |-> "CONFIRMED",
    REVERTED |-> "REVERTED"][tx]} \cup
  (IF "rpc" \notin Faults THEN {} ELSE IF Injected THEN {"PENDING"} ELSE {"UNKNOWN_MOCKED"})

\* Variant: a pending transaction is enough.
AcceptedPending == {"CONFIRMED", "UNKNOWN_MOCKED", "PENDING"}

Accepted == {"CONFIRMED", "UNKNOWN_MOCKED"}

RecoverRead(w) ==
  /\ RecAt(w, "idle")
  /\ row.intent # None
  /\ rec' = [rec EXCEPT ![w] = [pc |-> "claim", status |-> row.intent, hash |-> row.hash,
                                ordered |-> FALSE]]
  /\ Visit
  /\ UNCHANGED <<relayVars, source, lease, recon, lapsed>>

\* Variant: a worker waits for the lease.
RecoverClaimWaits(w) ==
  /\ RecAt(w, "claim")
  /\ lease.owner \in {NoWorker, w} \/ lease.over
  /\ lease' = [owner |-> w, over |-> FALSE]
  /\ lapsed' = lapsed \ {w}
  /\ RecTo(w, "source")
  /\ UNCHANGED <<relayVars, source, recon, visits>>

RecoverClaim(w) ==
  /\ RecAt(w, "claim")
  /\ \/ /\ lease.owner \in {NoWorker, w} \/ lease.over
        /\ lease' = [owner |-> w, over |-> FALSE]
        /\ lapsed' = lapsed \ {w}
        /\ RecTo(w, "source")
     \/ /\ lease.owner \notin {NoWorker, w} /\ ~lease.over
        /\ rec' = [rec EXCEPT ![w] = Idle]
        /\ UNCHANGED <<lease, lapsed>>
  /\ UNCHANGED <<relayVars, source, recon, visits>>

\* The order is read, then the source transaction the row's copy names.
RecoverSource(w) ==
  LET on == IF row.order # None THEN "provider" ELSE "hash"
      ordered == [rec EXCEPT ![w].ordered = row.order # None]
  IN  /\ RecAt(w, "source")
      /\ \/ /\ source.tx = None
            /\ rec' = [ordered EXCEPT ![w].pc = on] /\ UNCHANGED <<relayVars, source>>
         \/ \E q \in IF source.tx = None THEN {} ELSE Queried(source.tx) :
              CASE q = "REVERTED" ->
                     /\ Update(w, "FAILED", row.hash, "release")
                     /\ source' = IF ValidSettlement(row.intent, "FAILED")
                                  THEN [source EXCEPT !.step = "FAILED"] ELSE source
                [] q = "CONFIRMED" /\ rec[w].status = "CREATED" ->
                     Update(w, "FULFILLING", row.hash, on) /\ UNCHANGED source
                [] OTHER ->
                     /\ rec' = [ordered EXCEPT ![w].pc = on]
                     /\ UNCHANGED <<relayVars, source>>
      /\ UNCHANGED <<lease, recon, lapsed, visits>>

\* Of the providers' answers only a fill is acted upon here.
RecoverProvider(w) ==
  /\ RecAt(w, "provider")
  /\ \E a \in Answers : RecTo(w, IF a = "DESTINATION_FILLED" THEN "fill" ELSE "hash")
  /\ RecOnly

RecoverFill(w) ==
  /\ RecAt(w, "fill")
  /\ \E q \in Queried(bridge.tx) :
       \/ q \in Accepted /\ Write(WithOrder(row, "SETTLED", TRUE)) /\ RecTo(w, "intent")
       \/ q = "REVERTED" /\ Update(w, "FAILED", row.hash, "release")
       \/ q = "PENDING" /\ RecTo(w, "hash") /\ UNCHANGED relayVars
  /\ UNCHANGED <<source, lease, recon, lapsed, visits>>

\* Variant: the intent is settled without its hash.
RecoverIntentRowBare(w) ==
  /\ RecAt(w, "intent")
  /\ Update(w, "SETTLED", row.hash, "record")
  /\ UNCHANGED <<source, lease, recon, lapsed, visits>>

RecoverIntentRow(w) ==
  /\ RecAt(w, "intent")
  /\ Update(w, "SETTLED", TRUE, "record")
  /\ UNCHANGED <<source, lease, recon, lapsed, visits>>

RecoverRecord(w) ==
  /\ RecAt(w, "record")
  /\ Write([row EXCEPT !.settled = TRUE])
  /\ RecTo(w, "release")
  /\ UNCHANGED <<source, lease, recon, lapsed, visits>>

\* The hash and the status are those of the copy read at the start.
RecoverHash(w) ==
  /\ RecAt(w, "hash")
  /\ \/ /\ rec[w].hash /\ rec[w].status \notin {"SETTLED", "FAILED"}
        /\ \E q \in Queried(bridge.tx) :
             \/ q \in Accepted /\ Update(w, "SETTLED", row.hash, "order")
             \/ q = "REVERTED" /\ Update(w, "FAILED", row.hash, "release")
             \/ q = "PENDING" /\ RecTo(w, "release") /\ UNCHANGED relayVars
     \/ /\ ~rec[w].hash \/ rec[w].status \in {"SETTLED", "FAILED"}
        /\ RecTo(w, "release") /\ UNCHANGED relayVars
  /\ UNCHANGED <<source, lease, recon, lapsed, visits>>

RecoverOrderRow(w) ==
  /\ RecAt(w, "order")
  /\ Write(IF rec[w].ordered THEN WithOrder(row, "SETTLED", TRUE) ELSE row)
  /\ RecTo(w, "record")
  /\ UNCHANGED <<source, lease, recon, lapsed, visits>>

FreeLease == [owner |-> NoWorker, over |-> FALSE]

\* Variant: the lease is released whoever holds it.
RecoverReleaseAny(w) ==
  /\ RecAt(w, "release")
  /\ lease' = FreeLease
  /\ rec' = [rec EXCEPT ![w] = Idle]
  /\ UNCHANGED <<relayVars, source, recon, lapsed, visits>>

RecoverRelease(w) ==
  /\ RecAt(w, "release")
  /\ lease' = IF lease.owner = w THEN FreeLease ELSE lease
  /\ rec' = [rec EXCEPT ![w] = Idle]
  /\ UNCHANGED <<relayVars, source, recon, lapsed, visits>>

\* The 30 s of the lease are over; nothing renews it.
LapseLease ==
  /\ lease.owner # NoWorker /\ ~lease.over
  /\ lease' = [lease EXCEPT !.over = TRUE]
  /\ lapsed' = IF Inside(lease.owner) THEN lapsed \cup {lease.owner} ELSE lapsed
  /\ UNCHANGED <<relayVars, source, rec, recon, visits>>

CrashRecoverer(w) ==
  /\ "crash" \in Faults
  /\ ~RecAt(w, "idle")
  /\ rec' = [rec EXCEPT ![w] = Idle]
  /\ RecOnly

(***************************************************************************)
(* reconcileOrder.                                                         *)
(***************************************************************************)
ReconRest == UNCHANGED <<source, lease, rec, lapsed, visits>>

ReconRead ==
  /\ recon.pc = "idle"
  /\ row.order # None
  /\ recon' = [recon EXCEPT !.pc = "provider", !.hash = row.orderHash]
  /\ Visit
  /\ UNCHANGED <<relayVars, source, lease, rec, lapsed>>

ReconProvider ==
  /\ recon.pc = "provider"
  /\ \E a \in Answers : recon' = [recon EXCEPT !.pc = "receipt", !.provider = a]
  /\ UNCHANGED relayVars /\ ReconRest

\* The receipt of the hash the provider, or else the order's copy, names.
ReconReceipt ==
  /\ recon.pc = "receipt"
  /\ \E r \in {None} \cup
       (IF recon.hash \/ recon.provider = "DESTINATION_FILLED"
        THEN {[NONE |-> None, PENDING |-> None, SUCCESS |-> "CONFIRMED",
               REVERTED |-> "REVERTED"][bridge.tx]} ELSE {}) :
       recon' = [recon EXCEPT !.pc = "write", !.receipt = r]
  /\ UNCHANGED relayVars /\ ReconRest

\* The priorities of the evidence: a conflict, the receipt, the provider.
ReconVerdict ==
  LET filled == recon.provider = "DESTINATION_FILLED"
  IN  IF filled /\ recon.receipt = "REVERTED" THEN "FAILED"
      ELSE IF recon.receipt = "CONFIRMED" THEN "SETTLED"
      ELSE IF recon.provider \in {"DESTINATION_FILLED", "REFUND_PENDING", "FAILED"} THEN recon.provider
      ELSE None

ReconWrite ==
  /\ recon.pc = "write"
  /\ LET v == ReconVerdict
     IN  /\ IF v = None THEN UNCHANGED relayVars
            ELSE Write(WithOrder(row, v, IF v \in {"SETTLED", "DESTINATION_FILLED"}
                                         THEN TRUE ELSE row.orderHash))
         /\ recon' = IF v = "SETTLED" THEN [Resting EXCEPT !.pc = "intent"] ELSE Resting
  /\ ReconRest

ReconIntent ==
  /\ recon.pc = "intent"
  /\ Write(WithIntent(row, "SETTLED", TRUE))
  /\ recon' = [recon EXCEPT !.pc = "record"]
  /\ ReconRest

ReconRecord ==
  /\ recon.pc = "record"
  /\ Write([row EXCEPT !.settled = TRUE])
  /\ recon' = Resting
  /\ ReconRest

(***************************************************************************)
(* The composition.                                                        *)
(***************************************************************************)
Recover(w) ==
  \/ RecoverClaim(w) \/ RecoverSource(w) \/ RecoverProvider(w) \/ RecoverFill(w)
  \/ RecoverIntentRow(w) \/ RecoverRecord(w) \/ RecoverHash(w) \/ RecoverOrderRow(w)
  \/ RecoverRelease(w)

Reconcile ==
  ReconRead \/ ReconProvider \/ ReconReceipt \/ ReconWrite \/ ReconIntent \/ ReconRecord

\* The coordinator does not run a trade whose rows another client keeps; the
\* bridge and the chain go on in any case.
Trade ==
  /\ BridgeStep \/ ClaimUnlock \/ MineFill \/ (source.tx = None /\ RelayNext)
  /\ UNCHANGED ownVars

Next ==
  \/ Trade \/ RecordSourceSubmission \/ MineSource
  \/ \E w \in Workers : RecoverRead(w) \/ Recover(w) \/ CrashRecoverer(w)
  \/ LapseLease \/ Reconcile

Spec == Init /\ [][Next]_vars /\ \A w \in Workers : WF_vars(Recover(w))

(***************************************************************************)
(* Properties.                                                             *)
(***************************************************************************)
\* Whoever writes it, a row that says SETTLED and a settlement record rest on
\* a fill transaction that was mined and did not revert.
SettlementIsFilled ==
  /\ SettlementTypeOK
  /\ row.settled \/ "SETTLED" \in {row.intent, row.order} => bridge.tx = "SUCCESS"

\* Although writers erase and keep hashes by turns and write over copies they
\* read earlier, a settled intent names its fill transaction.
SettledIsNamed == row.intent = "SETTLED" => row.hash

\* An intent is FAILED or waits for a refund over a mined fill only if the
\* tracker took a receipt it could not read, or not yet, for a failure, or if
\* the solver had claimed its unlocked deposit, which reads as a refund: no
\* recoverer and no reconciler undoes a fill, in whatever order they write.
FailedFillWasDoubted ==
  row.intent \in {"FAILED", "REFUND_PENDING"} /\ bridge.tx = "SUCCESS"
    => trade.doubted \/ bridge.order = "CLAIMED"

\* A worker inside recoverIntent whose lease has not ended holds it: neither
\* the release nor the crash of another worker takes it away.
InsideHoldsLease ==
  \A w \in Workers : Inside(w) /\ w \notin lapsed => lease.owner = w

\* A recovery that was begun ends, whatever the trade, the reconciler and the
\* other workers do meanwhile.
RecoveryEnds ==
  \A w \in Workers : RecAt(w, "claim") ~> RecAt(w, "idle")

\* Not guaranteed: a fill that is mined is not reported as a failed intent.
FilledIsNotFailed ==
  ~(row.intent = "FAILED" /\ bridge.tx = "SUCCESS")
=============================================================================
