---------------------------- MODULE RelayTracking ----------------------------
(***************************************************************************)
(* A cross-chain trade after its deposit: the coordinator's relay wait     *)
(* asks the tracker to poll the bridge provider until the order settles;   *)
(* the tracker moves the repository's rows, the intent engine (through the *)
(* onStateChange callback) and the state machine of the user interface,    *)
(* each of which refuses moves its own table does not list.  A refusal     *)
(* inside the poll loop is caught there and the loop polls again.  The     *)
(* destination steps follow, and a trade may be run again, in the same     *)
(* process or after a crash.                                               *)
(*                                                                         *)
(* The order, the deposit and the fill transaction belong to the bridge.   *)
(***************************************************************************)
EXTENDS RepositoryRules, TradeStatus, Sequences

CONSTANTS
  Jobs,       \* the quotes a trade may run: a subset of AllJobs
  MaxPolls,   \* polls of one call before maxPollDurationMs is over
  MaxRuns,    \* calls of executeTrade for this quote
  Faults      \* what may go wrong: a subset of FaultKinds

\* rpc: a receipt read fails or its logs are rejected; crash: the process dies.
FaultKinds == {"rpc", "crash"}

None  == "NONE"

\* buildPlan makes the first two; executeTrade takes a caller's plan as well.
Tails == {<<"VERIFY", "COMPLETE">>, <<"SWAP", "VERIFY", "COMPLETE">>,
          <<"APPROVAL", "SWAP", "VERIFY", "COMPLETE">>}

\* A quote is of a bridge provider, has an intent or not, its caller skips the
\* wait (skipDestinationWait) or not, and its plan has destination steps after
\* the relay wait.
Providers == {"across", "stargate", "debridge"}
AllJobs == [provider : Providers, intent : BOOLEAN, skip : BOOLEAN, tail : Tails]

ASSUME RelayAssumption ==
  /\ Jobs \subseteq AllJobs
  /\ MaxPolls \in Nat \ {0}
  /\ MaxRuns \in Nat \ {0}
  /\ Faults \subseteq FaultKinds

VARIABLES
  job,      \* the quote that is traded
  bridge,   \* the provider's order and the fill transaction
  trade,    \* the local state of the executeTrade call
  engine,   \* the intent's status in intentStore
  machine,  \* the status of the state machine
  relay,    \* the BRIDGE_RELAY_WAIT step: executedStepRegistry and plan row
  row       \* the repository's intent, provider order and settlement

relayVars == <<job, bridge, trade, engine, machine, relay, row>>

EndedCalls == {"returned", "threw", "timedOut", "refunded", "crashed"}
PCs == {"idle", "source", "relay", "polling", "verifying", "tail"} \cup EndedCalls

\* History: seen, this call has had a decisive answer; restarted, a process
\* of this trade has died; doubted, a fill was rejected that had not reverted.
TypeOK ==
  /\ job \in Jobs
  /\ bridge \in [order : {None, "SENT", "FILLED", "CLAIMED", "REFUNDING", "FAILED"},
                 tx : {None, "PENDING", "SUCCESS", "REVERTED"}]
  /\ trade \in [pc : PCs, polls : 0..MaxPolls, step : 1..5, hash : {None, "fill", "swap"},
                runs : 0..MaxRuns, seen : BOOLEAN, restarted : BOOLEAN, doubted : BOOLEAN]
  /\ engine \in SettlementStates \cup {None}
  /\ machine \in Statuses
  /\ relay \in [memory : BOOLEAN, row : {"PENDING", "SUCCESS", "FAILED"}, hash : BOOLEAN]
  /\ row \in [intent : SettlementStates \cup {None}, hash : BOOLEAN,
              order : SettlementStates \cup {None}, orderHash : BOOLEAN, settled : BOOLEAN]

RelayInit ==
  /\ job \in Jobs
  /\ bridge = [order |-> None, tx |-> None]
  /\ trade = [pc |-> "idle", polls |-> 0, step |-> 1, hash |-> None, runs |-> 0,
              seen |-> FALSE, restarted |-> FALSE, doubted |-> FALSE]
  /\ engine = None
  /\ machine = "IDLE"
  /\ relay = [memory |-> FALSE, row |-> "PENDING", hash |-> FALSE]
  /\ row = [intent |-> None, hash |-> FALSE, order |-> None, orderHash |-> FALSE,
            settled |-> FALSE]

(***************************************************************************)
(* Writes of the repository whose rejection is caught and dropped.         *)
(***************************************************************************)
\* updateIntent; h says whether the row has a destination hash afterwards.
WithIntent(r, s, h) ==
  IF r.intent # None /\ ValidSettlement(r.intent, s)
  THEN [r EXCEPT !.intent = s, !.hash = h] ELSE r

\* updateProviderOrder: no table to obey.
WithOrder(r, s, h) ==
  IF r.order = None THEN r ELSE [r EXCEPT !.order = s, !.orderHash = h]

(***************************************************************************)
(* The bridge and the destination chain.                                   *)
(***************************************************************************)
\* What the getStatus of each provider makes of an order that has ended.  A
\* solver of deBridge that has filled an order then claims the deposit it
\* unlocked, and the reading does not tell that from a cancelled order.
AcrossReads   == [FILLED |-> "DESTINATION_FILLED", REFUNDING |-> "REFUND_PENDING"]
StargateReads == [FILLED |-> "DESTINATION_FILLED", FAILED |-> "FAILED"]
DebridgeReads == [FILLED |-> "DESTINATION_FILLED", REFUNDING |-> "REFUND_PENDING",
                  CLAIMED |-> "REFUND_PENDING"]
Reads == [across |-> AcrossReads, stargate |-> StargateReads,
          debridge |-> DebridgeReads][job.provider]

BridgeStep ==
  /\ bridge.order = "SENT"
  /\ \E o \in DOMAIN Reads \ {"CLAIMED"} :
       bridge' = [order |-> o, tx |-> IF o = "FILLED" THEN "PENDING" ELSE None]
  /\ UNCHANGED <<job, trade, engine, machine, relay, row>>

ClaimUnlock ==
  /\ "CLAIMED" \in DOMAIN Reads
  /\ bridge.order = "FILLED" /\ bridge.tx = "SUCCESS"
  /\ bridge' = [bridge EXCEPT !.order = "CLAIMED"]
  /\ UNCHANGED <<job, trade, engine, machine, relay, row>>

MineFill ==
  /\ bridge.tx = "PENDING"
  /\ \E t \in {"SUCCESS", "REVERTED"} : bridge' = [bridge EXCEPT !.tx = t]
  /\ UNCHANGED <<job, trade, engine, machine, relay, row>>

\* getStatus: an HTTP error, an unknown answer or a fill without its hash reads
\* as still fulfilling, an unreachable provider as unavailable.
Answers ==
  {"FULFILLING", "TRACKING_UNAVAILABLE"} \cup
    (IF bridge.order \in DOMAIN Reads THEN {Reads[bridge.order]} ELSE {})

\* Variant: a receipt that is missing counts as verified.
VerdictsPending ==
  {bridge.tx # "REVERTED"} \cup (IF "rpc" \in Faults THEN {FALSE} ELSE {})

\* verifyDestinationSettlement: a receipt that is missing, reverted,
\* unreadable or rejected is not verified.
Verdicts ==
  {bridge.tx = "SUCCESS"} \cup (IF "rpc" \in Faults THEN {FALSE} ELSE {})

(***************************************************************************)
(* executeTrade up to the relay wait.                                      *)
(***************************************************************************)
At(pc) == trade.pc = pc

\* registerIntent, and the moves to SIGNED and SUBMITTED.
Registered ==
  LET created == IF row.intent = None THEN [row EXCEPT !.intent = "CREATED"] ELSE row
  IN  WithIntent(WithIntent(created, "SIGNED", FALSE), "SUBMITTED", FALSE)

Start ==
  /\ At("idle") \/ trade.pc \in EndedCalls
  /\ trade.runs < MaxRuns
  /\ machine' = "IDLE"
  /\ \/ /\ job.intent /\ engine # None                 \* duplicate order id or nonce
        /\ trade' = [trade EXCEPT !.pc = "threw", !.runs = @ + 1, !.seen = FALSE]
        /\ UNCHANGED <<engine, row>>
     \/ /\ job.intent => engine = None
        /\ engine' = IF job.intent THEN "SUBMITTED" ELSE None
        /\ row' = IF job.intent THEN Registered ELSE row
        /\ trade' = [trade EXCEPT !.pc = "source", !.runs = @ + 1, !.polls = 0,
                                  !.step = 1, !.hash = None, !.seen = FALSE]
  /\ UNCHANGED <<job, bridge, relay>>

\* The steps up to the deposit: executed, or skipped as recorded.
Deposit ==
  /\ At("source")
  /\ \/ /\ bridge.order = None
        /\ bridge' = [bridge EXCEPT !.order = "SENT"]
        /\ machine' = "BRIDGE_IN_FLIGHT"
        /\ trade' = [trade EXCEPT !.pc = "relay"]
     \/ /\ bridge.order # None
        /\ machine' = "CONFIRMING"
        /\ trade' = [trade EXCEPT !.pc = "relay"]
        /\ UNCHANGED bridge
     \/ /\ bridge.order = None                         \* a source step fails
        /\ machine' = "FAILED"
        /\ trade' = [trade EXCEPT !.pc = "threw"]
        /\ UNCHANGED bridge
  /\ UNCHANGED <<job, engine, relay, row>>

(***************************************************************************)
(* The relay wait.                                                         *)
(***************************************************************************)
RelayDone == relay.memory \/ relay.row = "SUCCESS"

\* updatePlanStep in the finally block: FAILED and SUCCESS are terminal.
Written(status) == IF relay.row = "PENDING" THEN status ELSE relay.row

SkipRelay ==
  /\ At("relay")
  /\ RelayDone
  /\ ValidStatus(machine, "CONFIRMING")
  /\ machine' = "CONFIRMING"
  /\ trade' = [trade EXCEPT !.pc = "tail", !.hash = IF relay.hash THEN "fill" ELSE None]
  /\ relay' = [relay EXCEPT !.memory = TRUE]
  /\ UNCHANGED <<job, bridge, engine, row>>

\* registerOrder creates the order row, or overwrites the one that is there.
EnterRelay ==
  /\ At("relay")
  /\ ~RelayDone
  /\ machine' = "BRIDGE_IN_FLIGHT"
  /\ row' = [row EXCEPT !.order = "FULFILLING", !.orderHash = FALSE]
  /\ IF job.skip
     THEN /\ relay' = [memory |-> TRUE, row |-> Written("SUCCESS"), hash |-> FALSE]
          /\ trade' = [trade EXCEPT !.pc = "tail"]
     ELSE trade' = [trade EXCEPT !.pc = "polling"] /\ UNCHANGED relay
  /\ UNCHANGED <<job, bridge, engine>>

\* onStateChange(s): the intent engine refuses s by throwing, else it moves
\* and writes the row on top of the tracker's own writes r (h: with a hash).
Told(s) == job.intent => ValidIntent(engine, s)

\* Variant: the engine moves without asking its table.
TellUnchecked(r, s, h) ==
  /\ engine' = IF job.intent THEN s ELSE engine
  /\ row' = IF job.intent THEN WithIntent(r, s, h) ELSE r

Tell(r, s, h) ==
  /\ engine' = IF job.intent /\ Told(s) THEN s ELSE engine
  /\ row' = IF job.intent /\ Told(s) THEN WithIntent(r, s, h) ELSE r

\* Then the state machine, which may refuse as well.
Shown(s, status) == Told(s) /\ ValidStatus(machine, status)
Show(s, status)  == machine' = IF Shown(s, status) THEN status ELSE machine

\* The loop takes up another poll; what a poll throws leads back to it.
Polling == At("polling") /\ trade.polls < MaxPolls
Counted == [trade EXCEPT !.polls = @ + 1]

FailedStep == [relay EXCEPT !.row = Written("FAILED")]

PollRunning ==
  /\ Polling
  /\ \/ /\ "FULFILLING" \in Answers
        /\ Tell(WithOrder(row, "FULFILLING", row.orderHash), "FULFILLING", FALSE)
     \/ /\ "TRACKING_UNAVAILABLE" \in Answers
        /\ Tell(row, "TRACKING_UNAVAILABLE", FALSE)
  /\ trade' = Counted
  /\ UNCHANGED <<job, bridge, machine, relay>>

PollFilled ==
  /\ Polling
  /\ "DESTINATION_FILLED" \in Answers
  /\ Tell(row, "DESTINATION_FILLED", TRUE)
  /\ Show("DESTINATION_FILLED", "BRIDGE_DESTINATION_CONFIRMED")
  /\ trade' = [Counted EXCEPT !.seen = TRUE, !.pc =
                 IF Shown("DESTINATION_FILLED", "BRIDGE_DESTINATION_CONFIRMED")
                 THEN "verifying" ELSE "polling"]
  /\ UNCHANGED <<job, bridge, relay>>

\* REFUND_PENDING and FAILED: order, intent, callback, state machine, return.
PollUndone ==
  /\ Polling
  /\ \E s \in Answers \cap {"REFUND_PENDING", "FAILED"} :
       /\ Tell(WithIntent(WithOrder(row, s, row.orderHash), s, row.hash), s, FALSE)
       /\ Show(s, s)
       /\ trade' = [Counted EXCEPT !.seen = TRUE, !.pc =
                      IF ~Shown(s, s) THEN "polling"
                      ELSE IF s = "FAILED" THEN "threw" ELSE "refunded"]
       /\ relay' = IF Shown(s, s) THEN FailedStep ELSE relay
  /\ UNCHANGED <<job, bridge>>

SettledRow == [WithIntent(WithOrder(row, "SETTLED", TRUE), "SETTLED", TRUE)
                 EXCEPT !.settled = TRUE]

\* The fill is verified.  On return the coordinator records the step and
\* moves the state machine, which the tracker has just completed.
VerifyFill ==
  /\ At("verifying")
  /\ TRUE \in Verdicts
  /\ Tell(SettledRow, "SETTLED", TRUE)
  /\ Show("SETTLED", "COMPLETED")
  /\ IF Shown("SETTLED", "COMPLETED")
     THEN /\ relay' = [memory |-> TRUE, row |-> Written("SUCCESS"), hash |-> TRUE]
          /\ trade' = [trade EXCEPT !.hash = "fill", !.pc =
                         IF ValidStatus("COMPLETED", "BRIDGE_DESTINATION_CONFIRMED")
                         THEN "tail" ELSE "threw"]
     ELSE trade' = [trade EXCEPT !.pc = "polling"] /\ UNCHANGED relay
  /\ UNCHANGED <<job, bridge>>

\* The fill is not verified: whatever the reason, the order has failed.
RejectFill ==
  /\ At("verifying")
  /\ FALSE \in Verdicts
  /\ Tell(WithIntent(WithOrder(row, "FAILED", row.orderHash), "FAILED", row.hash),
          "FAILED", FALSE)
  /\ Show("FAILED", "FAILED")
  /\ trade' = [trade EXCEPT !.pc = IF Shown("FAILED", "FAILED") THEN "threw" ELSE "polling",
                            !.doubted = @ \/ bridge.tx # "REVERTED"]
  /\ relay' = IF Shown("FAILED", "FAILED") THEN FailedStep ELSE relay
  /\ UNCHANGED <<job, bridge>>

\* Variant: a time-out the engine refuses is tried for ever.
TimeOutAgain ==
  /\ At("polling")
  /\ trade.polls > 0
  /\ Shown("TRACKING_TIMEOUT", "TRACKING_TIMEOUT")
  /\ Tell(row, "TRACKING_TIMEOUT", FALSE)
  /\ machine' = "TRACKING_TIMEOUT"
  /\ trade' = [trade EXCEPT !.pc = "timedOut"]
  /\ relay' = FailedStep
  /\ UNCHANGED <<job, bridge>>

\* maxPollDurationMs is over.  The callback is outside the loop's try, so a
\* refusal leaves trackUntilSettled as an exception and the step as it was.
TimeOut ==
  /\ At("polling")
  /\ trade.polls > 0
  /\ Tell(row, "TRACKING_TIMEOUT", FALSE)
  /\ Show("TRACKING_TIMEOUT", "TRACKING_TIMEOUT")
  /\ IF Shown("TRACKING_TIMEOUT", "TRACKING_TIMEOUT")
     THEN trade' = [trade EXCEPT !.pc = "timedOut"] /\ relay' = FailedStep
     ELSE trade' = [trade EXCEPT !.pc = "threw"] /\ UNCHANGED relay
  /\ UNCHANGED <<job, bridge>>

(***************************************************************************)
(* The destination steps.                                                  *)
(***************************************************************************)
InTail(kind) == At("tail") /\ job.tail[trade.step] = kind
NextStep     == [trade EXCEPT !.step = @ + 1]
Threw        == [trade EXCEPT !.pc = "threw"]

\* The status after an attempt to move to FAILED.
Failing(status) == IF ValidStatus(status, "FAILED") THEN "FAILED" ELSE status

\* Nothing to do (no destination signer, or the allowance is there), or an
\* approval transaction that is mined or throws.
DestinationApproval ==
  /\ InTail("APPROVAL")
  /\ \/ trade' = NextStep /\ UNCHANGED machine
     \/ /\ ValidStatus(machine, "APPROVING")
        /\ \/ machine' = "APPROVED" /\ trade' = NextStep
           \/ machine' = "APPROVING" /\ trade' = Threw
     \/ ~ValidStatus(machine, "APPROVING") /\ trade' = Threw /\ UNCHANGED machine
  /\ UNCHANGED <<job, bridge, engine, relay, row>>

DestinationSwap ==
  /\ InTail("SWAP")
  /\ \/ /\ ValidStatus(machine, "SIGNING")
        /\ machine' = "CONFIRMING"
        /\ trade' = [NextStep EXCEPT !.hash = "swap"]
     \/ /\ machine' = Failing(IF ValidStatus(machine, "SIGNING") THEN "SIGNING" ELSE machine)
        /\ trade' = Threw
  /\ UNCHANGED <<job, bridge, engine, relay, row>>

\* A destination transaction, if the call knows one and has not skipped the
\* wait, is verified once more; the state machine completes in any case.
DestinationVerify ==
  /\ InTail("VERIFY")
  /\ LET checked == ~job.skip /\ trade.hash # None
         verdicts == IF trade.hash = "swap" THEN Verdicts \cup {TRUE} ELSE Verdicts
         completes == ValidStatus(machine, "COMPLETED")
     IN  \/ /\ checked => TRUE \in verdicts
            /\ machine' = IF completes THEN "COMPLETED" ELSE machine
            /\ trade' = IF completes THEN NextStep ELSE Threw
         \/ /\ checked /\ FALSE \in verdicts
            /\ machine' = Failing(machine)
            /\ trade' = Threw
  /\ UNCHANGED <<job, bridge, engine, relay, row>>

SettlementComplete ==
  /\ InTail("COMPLETE")
  /\ ValidStatus(machine, "COMPLETED")
  /\ machine' = "COMPLETED"
  /\ trade' = [trade EXCEPT !.pc = "returned"]
  /\ UNCHANGED <<job, bridge, engine, relay, row>>

\* The process dies: the intent store, the registry and the state machine go.
CrashTrade ==
  /\ "crash" \in Faults
  /\ ~At("idle")
  /\ ~At("crashed")
  /\ trade' = [trade EXCEPT !.pc = "crashed", !.restarted = TRUE]
  /\ engine' = None
  /\ machine' = "IDLE"
  /\ relay' = [relay EXCEPT !.memory = FALSE, !.hash = relay.row = "SUCCESS" /\ @]
  /\ UNCHANGED <<job, bridge, row>>

(***************************************************************************)
(* Next and its fairness: the event loop resumes every await and fires     *)
(* every timer, so a poll is followed by another or by the time-out.       *)
(***************************************************************************)
Advance ==
  \/ Deposit \/ SkipRelay \/ EnterRelay
  \/ PollRunning \/ PollFilled \/ PollUndone \/ VerifyFill \/ RejectFill \/ TimeOut
  \/ DestinationApproval \/ DestinationSwap \/ DestinationVerify \/ SettlementComplete

RelayNext == Start \/ Advance \/ BridgeStep \/ ClaimUnlock \/ MineFill \/ CrashTrade

RelaySpec == RelayInit /\ [][RelayNext]_relayVars /\ WF_relayVars(Advance)

(***************************************************************************)
(* Properties.                                                             *)
(***************************************************************************)
\* The repository's copy of the transition table never lets the row and the
\* intent engine part while the process lives: both move or both refuse,
\* though the tracker writes the row before it tells the engine.
EngineAndRowAgree ==
  TypeOK /\ (engine # None /\ ~trade.restarted => row.intent = engine)

\* A trade that does not skip the wait shows COMPLETED only over a fill that
\* was mined, in this call or, for a call run again, in an earlier one.
CompletedIsFilled ==
  machine = "COMPLETED" /\ ~job.skip => bridge.tx = "SUCCESS"

\* A call that was started ends: it returns, throws, times out or dies.
CallEnds == At("source") ~> trade.pc \in EndedCalls

\* Not guaranteed: a call does not give up over a decisive answer of the provider.
AnswerTakenUp ==
  At("timedOut") => ~trade.seen

\* Not guaranteed: once the relay is settled the call goes on to the destination steps.
SettledCallGoesOn ==
  At("threw") /\ trade.hash = "fill" => machine # "COMPLETED"
=============================================================================
