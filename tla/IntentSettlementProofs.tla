----------------------- MODULE IntentSettlementProofs -----------------------
(***************************************************************************)
(* The two ends of an order.  Off chain, the relay wait alone (RelaySpec), *)
(* then beside the recoverers and the reconciler (Spec): type correctness, *)
(* what the rows and the state machine may say of the fill, and the        *)
(* intent's lease.  For every set of quotes and workers, every number of   *)
(* polls, calls and visits and every choice of faults.  On chain, the      *)
(* escrow and its treasury account for every coin, and a refund never      *)
(* lacks its coins, for any assets, amounts, fees and number of orders.    *)
(***************************************************************************)
EXTENDS IntentSettlement, Escrow, WellFoundedInduction, FiniteSetTheorems, TLAPS

Rows == [intent : SettlementStates \cup {None}, hash : BOOLEAN,
         order : SettlementStates \cup {None}, orderHash : BOOLEAN, settled : BOOLEAN]

Orders == [order : {None, "SENT", "FILLED", "CLAIMED", "REFUNDING", "FAILED"},
           tx : {None, "PENDING", "SUCCESS", "REVERTED"}]

Trades == [pc : PCs, polls : 0..MaxPolls, step : 1..5, hash : {None, "fill", "swap"},
           runs : 0..MaxRuns, seen : BOOLEAN, restarted : BOOLEAN, doubted : BOOLEAN]

Relays == [memory : BOOLEAN, row : {"PENDING", "SUCCESS", "FAILED"}, hash : BOOLEAN]

Typed ==
  /\ job \in Jobs
  /\ bridge \in Orders
  /\ trade \in Trades
  /\ engine \in SettlementStates \cup {None}
  /\ machine \in Statuses
  /\ relay \in Relays
  /\ row \in Rows

\* A call's counter of destination steps names one of its plan.
StepOK ==
  /\ trade.pc \in {"source", "relay", "polling", "verifying"} => trade.step = 1
  /\ At("tail") => trade.step \in 1..Len(job.tail)

\* A fill transaction exists only once the order is filled; a claim follows
\* the unlock, hence the fill.
OrderOK ==
  /\ bridge.order \in {None, "SENT", "REFUNDING", "FAILED"} => bridge.tx = None
  /\ bridge.order = "CLAIMED" => bridge.tx = "SUCCESS"

RelayInv == Typed /\ StepOK /\ OrderOK

-----------------------------------------------------------------------------
(***************************************************************************)
(* The tables and the helpers.                                             *)
(***************************************************************************)
Tellable == {"FULFILLING", "TRACKING_UNAVAILABLE", "TRACKING_TIMEOUT", "DESTINATION_FILLED",
             "REFUND_PENDING", "FAILED", "SETTLED"}

LEMMA StatesAre ==
  /\ Tellable \cup {"CREATED", "SIGNED", "SUBMITTED"} \subseteq SettlementStates
  /\ None \notin SettlementStates
BY DEF Tellable, SettlementStates, SettlementTransitions, None

LEMMA StatusesAre ==
  {"IDLE", "CONFIRMING", "BRIDGE_IN_FLIGHT", "FAILED", "BRIDGE_DESTINATION_CONFIRMED",
   "REFUND_PENDING", "COMPLETED", "TRACKING_TIMEOUT", "APPROVED", "APPROVING", "SIGNING"}
    \subseteq Statuses
BY DEF Statuses, StatusTransitions, EndedStatuses

\* What the engine's table admits the repository's admits, and the tracker
\* writes no row before the engine's refusal that the engine would refuse.
LEMMA TablesAgree ==
  ASSUME NEW e \in SettlementStates, NEW s \in Tellable
  PROVE  /\ ValidIntent(e, s) => ValidSettlement(e, s)
         /\ s \in {"REFUND_PENDING", "FAILED"} /\ ValidSettlement(e, s) => ValidIntent(e, s)
<1>1. e \in {"CREATED", "SIGNED", "SUBMITTED", "ACCEPTED", "FULFILLING", "DESTINATION_FILLED",
             "VERIFIED", "SETTLING", "SETTLED", "FAILED", "REFUND_PENDING", "REFUNDED",
             "CANCELLED", "EXPIRED", "REJECTED", "TRACKING_TIMEOUT", "TRACKING_UNAVAILABLE"}
  BY DEF SettlementStates, SettlementTransitions
<1>2. s \in Tellable
  OBVIOUS
<1> QED
  BY <1>1, <1>2 DEF Tellable, ValidIntent, ValidSettlement, IntentTransitions,
                    SettlementTransitions, Untracked

LEMMA FilledMaySettle == ValidIntent("DESTINATION_FILLED", "SETTLED")
BY DEF ValidIntent, IntentTransitions

LEMMA NewMaySubmit ==
  ValidSettlement("CREATED", "SIGNED") /\ ValidSettlement("SIGNED", "SUBMITTED")
BY DEF ValidSettlement, SettlementTransitions

\* A provider's reading is of the order it names.
LEMMA AnswersAre ==
  ASSUME job \in AllJobs
  PROVE  /\ Answers \subseteq Tellable \ {"SETTLED", "TRACKING_TIMEOUT"}
         /\ "DESTINATION_FILLED" \in Answers => bridge.order = "FILLED"
         /\ "REFUND_PENDING" \in Answers => bridge.order \in {"REFUNDING", "CLAIMED"}
         /\ "FAILED" \in Answers => bridge.order = "FAILED"
         /\ DOMAIN Reads \subseteq {"FILLED", "REFUNDING", "FAILED", "CLAIMED"}
<1> USE DEF Answers, Reads, Tellable, AcrossReads, StargateReads, DebridgeReads
<1>1. job.provider \in {"across", "stargate", "debridge"}
  BY DEF AllJobs, Providers
<1>2. CASE job.provider = "across"
  BY <1>2
<1>3. CASE job.provider = "stargate"
  BY <1>3
<1>4. CASE job.provider = "debridge"
  BY <1>4
<1> QED
  BY <1>1, <1>2, <1>3, <1>4

LEMMA JobIs == Typed => job \in AllJobs
BY RelayAssumption DEF Typed

\* The step after one that is not the last is a step of the plan.
LEMMA TailGoesOn ==
  ASSUME NEW t \in Tails, NEW n \in 1..Len(t)
  PROVE  /\ n \in 1..4
         /\ t[n] # "COMPLETE" => n + 1 \in 1..Len(t)
<1>1. CASE t = <<"VERIFY", "COMPLETE">>
  BY <1>1
<1>2. CASE t = <<"SWAP", "VERIFY", "COMPLETE">>
  BY <1>2
<1>3. CASE t = <<"APPROVAL", "SWAP", "VERIFY", "COMPLETE">>
  BY <1>3
<1> QED
  BY <1>1, <1>2, <1>3 DEF Tails

LEMMA WithIntentTyped ==
  ASSUME NEW r \in Rows, NEW s \in SettlementStates, NEW h \in BOOLEAN
  PROVE  WithIntent(r, s, h) \in Rows
BY DEF WithIntent, Rows

LEMMA WithOrderTyped ==
  ASSUME NEW r \in Rows, NEW s \in SettlementStates, NEW h \in BOOLEAN
  PROVE  /\ WithOrder(r, s, h) \in Rows
         /\ WithOrder(r, s, h).intent = r.intent
         /\ WithOrder(r, s, h).hash = r.hash
         /\ WithOrder(r, s, h).settled = r.settled
         /\ WithOrder(r, s, h).order \in {r.order, s}
BY DEF WithOrder, Rows

\* An intent's row is left as it is, or moves to the given state.
LEMMA WithIntentMoves ==
  ASSUME NEW r \in Rows, NEW s \in SettlementStates, NEW h \in BOOLEAN
  PROVE  /\ WithIntent(r, s, h).order = r.order
         /\ WithIntent(r, s, h).settled = r.settled
         /\ \/ WithIntent(r, s, h) = r
            \/ /\ r.intent # None /\ ValidSettlement(r.intent, s)
               /\ WithIntent(r, s, h).intent = s
               /\ WithIntent(r, s, h).hash = h
         /\ r.intent # None /\ ValidSettlement(r.intent, s)
              => WithIntent(r, s, h).intent = s /\ WithIntent(r, s, h).hash = h
BY DEF WithIntent, Rows

LEMMA TellTyped ==
  ASSUME Typed, NEW r \in Rows, NEW s \in SettlementStates, NEW h \in BOOLEAN, Tell(r, s, h)
  PROVE  row' \in Rows /\ engine' \in SettlementStates \cup {None}
BY WithIntentTyped DEF Tell, Typed

LEMMA ShowTyped ==
  ASSUME Typed, NEW s, NEW status \in Statuses, Show(s, status)
  PROVE  machine' \in Statuses
BY DEF Show, Typed

-----------------------------------------------------------------------------
(***************************************************************************)
(* The trade's steps, alone or beside others: types, and the bridge.       *)
(***************************************************************************)
LEMMA TypesAre == Typed <=> TypeOK
BY DEF Typed, TypeOK, Orders, Trades, Relays, Rows

LEMMA RelayInvInit == RelayInit => RelayInv
<1> SUFFICES ASSUME RelayInit PROVE RelayInv
  OBVIOUS
<1>1. Typed
  BY RelayAssumption, StatesAre, StatusesAre
     DEF RelayInit, Typed, PCs, EndedCalls, Orders, Trades, Relays, Rows
<1>2. StepOK /\ OrderOK
  BY DEF RelayInit, StepOK, OrderOK, At, None
<1> QED
  BY <1>1, <1>2 DEF RelayInv

\* The provider's order and the fill move by themselves.
LEMMA BridgeMoves ==
  ASSUME RelayInv, BridgeStep \/ ClaimUnlock \/ MineFill
  PROVE  /\ RelayInv'
         /\ UNCHANGED <<job, trade, engine, machine, relay, row>>
         /\ bridge.order # None /\ bridge'.order # None
         /\ bridge.tx = "SUCCESS" => bridge'.tx = "SUCCESS"
         /\ bridge.tx = "REVERTED" => bridge'.tx = "REVERTED"
         /\ bridge.order = "CLAIMED" => bridge'.order = "CLAIMED"
         /\ bridge.order \in {"REFUNDING", "FAILED"} => bridge'.order = bridge.order
<1> USE DEF RelayInv, StepOK, OrderOK, At
<1>1. UNCHANGED <<job, trade, engine, machine, relay, row>>
  BY DEF BridgeStep, ClaimUnlock, MineFill
<1>2. /\ bridge' \in Orders
      /\ OrderOK'
      /\ bridge.order # None /\ bridge'.order # None
      /\ bridge.tx = "SUCCESS" => bridge'.tx = "SUCCESS"
      /\ bridge.tx = "REVERTED" => bridge'.tx = "REVERTED"
      /\ bridge.order = "CLAIMED" => bridge'.order = "CLAIMED"
      /\ bridge.order \in {"REFUNDING", "FAILED"} => bridge'.order = bridge.order
  <2> bridge \in Orders
    BY DEF Typed
  <2>1. CASE BridgeStep
    <3> DOMAIN Reads \ {"CLAIMED"} \subseteq {"FILLED", "REFUNDING", "FAILED"}
      BY JobIs, AnswersAre
    <3> PICK o \in {"FILLED", "REFUNDING", "FAILED"} :
          bridge' = [order |-> o, tx |-> IF o = "FILLED" THEN "PENDING" ELSE None]
      BY <2>1 DEF BridgeStep
    <3> QED
      BY <2>1 DEF BridgeStep, Orders, None
  <2>2. CASE ClaimUnlock
    BY <2>2 DEF ClaimUnlock, Orders, None
  <2>3. CASE MineFill
    BY <2>3 DEF MineFill, Orders, None
  <2> QED
    BY <2>1, <2>2, <2>3
<1> QED
  BY <1>1, <1>2 DEF Typed

LEMMA StartTyped ==
  ASSUME RelayInv, Start
  PROVE  RelayInv'
<1> USE DEF RelayInv, Typed
<1>1. trade' \in Trades /\ StepOK'
  <2>1. trade.runs + 1 \in 0..MaxRuns /\ 0 \in 0..MaxPolls
    BY RelayAssumption DEF Typed, Start, Trades
  <2>2. CASE trade' = [trade EXCEPT !.pc = "threw", !.runs = @ + 1, !.seen = FALSE]
    BY <2>1, <2>2 DEF Typed, Trades, PCs, EndedCalls, StepOK, At
  <2>3. CASE trade' = [trade EXCEPT !.pc = "source", !.runs = @ + 1, !.polls = 0,
                                    !.step = 1, !.hash = None, !.seen = FALSE]
    <3>1. trade \in Trades
      BY DEF Typed
    <3>2. trade' \in Trades
      <4> HIDE DEF RelayInv, Typed
      <4>1. trade' = [pc |-> "source", polls |-> 0, step |-> 1, hash |-> None,
                      runs |-> trade.runs + 1, seen |-> FALSE,
                      restarted |-> trade.restarted, doubted |-> trade.doubted]
        BY <2>3, <3>1 DEF Trades
      <4> QED
        BY <2>1, <3>1, <4>1 DEF Trades, PCs
    <3>3. trade'.pc = "source" /\ trade'.step = 1
      BY <2>3, <3>1 DEF Trades
    <3> QED
      BY <3>2, <3>3 DEF StepOK, At
  <2> QED
    BY <2>2, <2>3 DEF Start
<1>2. row' \in Rows
  <2>1. Registered \in Rows
    <3> DEFINE created == IF row.intent = None THEN [row EXCEPT !.intent = "CREATED"] ELSE row
    <3>1. created \in Rows
      BY StatesAre DEF Typed, Rows
    <3>2. WithIntent(created, "SIGNED", FALSE) \in Rows
      BY <3>1, StatesAre, WithIntentTyped
    <3>3. WithIntent(WithIntent(created, "SIGNED", FALSE), "SUBMITTED", FALSE) \in Rows
      BY <3>2, StatesAre, WithIntentTyped
    <3> QED
      BY <3>3 DEF Registered
  <2> QED
    BY <2>1 DEF Typed, Start
<1>3. /\ engine' \in SettlementStates \cup {None}
      /\ machine' \in Statuses
      /\ UNCHANGED <<job, bridge, relay>>
  BY StatesAre, StatusesAre DEF Typed, Start
<1> QED
  BY <1>1, <1>2, <1>3 DEF Typed, OrderOK

LEMMA DepositTyped ==
  ASSUME RelayInv, Deposit
  PROVE  RelayInv'
<1> USE DEF RelayInv, Typed
<1>1. /\ trade' \in Trades /\ StepOK' /\ OrderOK' /\ bridge' \in Orders
      /\ UNCHANGED <<job, engine, relay, row>>
  BY DEF Typed, Deposit, Trades, PCs, EndedCalls, StepOK, At, OrderOK, Orders
<1>2. machine' \in Statuses
  BY StatusesAre DEF Deposit
<1> QED
  BY <1>1, <1>2 DEF Typed

LEMMA FirstStep ==
  ASSUME RelayInv
  PROVE  trade.step \in 1..5 /\ 1 \in 1..Len(job.tail)
<1>1. job.tail \in Tails
  BY JobIs DEF RelayInv, AllJobs
<1>2. \A t \in Tails : 1 \in 1..Len(t)
  BY DEF Tails
<1> QED
  BY <1>1, <1>2 DEF RelayInv, Typed, Trades

LEMMA WaitTyped ==
  ASSUME RelayInv, SkipRelay \/ EnterRelay
  PROVE  RelayInv'
<1> USE DEF RelayInv, Typed
<1>1. UNCHANGED <<job, bridge, engine>>
  BY DEF SkipRelay, EnterRelay
<1>2. trade' \in Trades /\ trade'.step = 1
  <2>1. trade.step = 1
    BY DEF SkipRelay, EnterRelay, StepOK, At
  <2>2. CASE SkipRelay
    BY <2>1, <2>2 DEF Typed, SkipRelay, Trades, PCs
  <2>3. CASE EnterRelay
    BY <2>1, <2>3 DEF Typed, EnterRelay, Trades, PCs
  <2> QED
    BY <2>2, <2>3
<1>3. StepOK'
  BY <1>1, <1>2, FirstStep DEF StepOK, At
<1>4. relay' \in Relays
  <2>1. CASE SkipRelay
    BY <2>1 DEF Typed, SkipRelay, Relays
  <2>2. CASE EnterRelay
    <3>1. PICK w \in {"PENDING", "SUCCESS", "FAILED"} : w = Written("SUCCESS")
      BY DEF Typed, Relays, Written
    <3>2. relay \in Relays
      BY DEF Typed
    <3> HIDE DEF RelayInv, Typed
    <3>3. \/ relay' = relay
          \/ relay' = [memory |-> TRUE, row |-> w, hash |-> FALSE]
      BY <2>2, <3>1 DEF EnterRelay
    <3>4. CASE relay' = relay
      BY <3>2, <3>4
    <3>5. CASE relay' = [memory |-> TRUE, row |-> w, hash |-> FALSE]
      BY <3>5 DEF Relays
    <3> QED
      BY <3>3, <3>4, <3>5
  <2> QED
    BY <2>1, <2>2
<1>5. row' \in Rows /\ machine' \in Statuses
  BY StatesAre, StatusesAre DEF Typed, SkipRelay, EnterRelay, Rows, Tellable
<1> QED
  BY <1>1, <1>2, <1>3, <1>4, <1>5 DEF Typed, OrderOK

\* A poll and a verification lead to the tail only with its first step ahead.
LEMMA PollsTyped ==
  ASSUME RelayInv, trade' \in Trades, trade'.step = trade.step,
         trade.pc \in {"polling", "verifying"}, UNCHANGED job
  PROVE  StepOK'
<1>1. trade.step = 1
  BY DEF RelayInv, StepOK
<1> QED
  BY <1>1, FirstStep DEF StepOK, At

LEMMA CountedIs ==
  ASSUME Typed, Polling
  PROVE  /\ Counted \in Trades
         /\ \A pc \in PCs, b \in BOOLEAN :
              /\ [Counted EXCEPT !.seen = b, !.pc = pc] \in Trades
              /\ [Counted EXCEPT !.seen = b, !.pc = pc].step = trade.step
              /\ [Counted EXCEPT !.seen = b, !.pc = pc].pc = pc
              /\ [Counted EXCEPT !.seen = b, !.pc = pc].restarted = trade.restarted
              /\ [Counted EXCEPT !.seen = b, !.pc = pc].doubted = trade.doubted
         /\ Counted.step = trade.step
         /\ Counted.pc = trade.pc
         /\ Counted.restarted = trade.restarted
         /\ Counted.doubted = trade.doubted
<1>1. trade \in Trades /\ trade.polls + 1 \in 0..MaxPolls
  BY RelayAssumption DEF Typed, Trades, Polling
<1>2. Counted \in Trades
  BY <1>1 DEF Counted, Trades
<1> QED
  BY <1>1, <1>2 DEF Counted, Trades

LEMMA PollRunningTyped ==
  ASSUME RelayInv, PollRunning
  PROVE  RelayInv'
<1>1. UNCHANGED <<job, bridge, machine, relay>> /\ At("polling")
  BY DEF PollRunning, Polling
<1>2. trade' \in Trades /\ trade'.step = trade.step
  BY CountedIs DEF RelayInv, PollRunning
<1>3. row' \in Rows /\ engine' \in SettlementStates \cup {None}
  <2>1. row \in Rows /\ row.orderHash \in BOOLEAN
    BY DEF RelayInv, Typed, Rows
  <2>2. WithOrder(row, "FULFILLING", row.orderHash) \in Rows
    BY <2>1, StatesAre, WithOrderTyped DEF Tellable
  <2> QED
    BY <2>1, <2>2, StatesAre, TellTyped DEF RelayInv, PollRunning, Tellable
<1>4. StepOK'
  BY <1>1, <1>2, PollsTyped DEF At
<1> QED
  BY <1>1, <1>2, <1>3, <1>4 DEF RelayInv, Typed, OrderOK

LEMMA PollFilledTyped ==
  ASSUME RelayInv, PollFilled
  PROVE  RelayInv'
<1>1. UNCHANGED <<job, bridge, relay>> /\ At("polling")
  BY DEF PollFilled, Polling
<1>2. trade' \in Trades /\ trade'.step = trade.step
  <2>1. PICK pc \in {"verifying", "polling"} :
          trade' = [Counted EXCEPT !.seen = TRUE, !.pc = pc]
    BY DEF PollFilled
  <2>2. Typed /\ Polling /\ pc \in PCs
    BY DEF RelayInv, PollFilled, PCs
  <2> QED
    BY <2>1, <2>2, CountedIs
<1>3. row' \in Rows /\ engine' \in SettlementStates \cup {None}
  BY StatesAre, TellTyped DEF RelayInv, Typed, PollFilled, Tellable
<1>4. machine' \in Statuses
  BY StatusesAre, ShowTyped DEF RelayInv, PollFilled
<1>5. StepOK'
  BY <1>1, <1>2, PollsTyped DEF At
<1> QED
  BY <1>1, <1>2, <1>3, <1>4, <1>5 DEF RelayInv, Typed, OrderOK

LEMMA FailedStepTyped == Typed => FailedStep \in Relays
BY DEF Typed, FailedStep, Written, Relays

LEMMA PollUndoneTyped ==
  ASSUME RelayInv, PollUndone
  PROVE  RelayInv'
<1>1. UNCHANGED <<job, bridge>> /\ At("polling")
  BY DEF PollUndone, Polling
<1>2. PICK s \in {"REFUND_PENDING", "FAILED"} :
        /\ Tell(WithIntent(WithOrder(row, s, row.orderHash), s, row.hash), s, FALSE)
        /\ Show(s, s)
        /\ trade' = [Counted EXCEPT !.seen = TRUE, !.pc =
                       IF ~Shown(s, s) THEN "polling"
                       ELSE IF s = "FAILED" THEN "threw" ELSE "refunded"]
        /\ relay' = IF Shown(s, s) THEN FailedStep ELSE relay
  BY DEF PollUndone
<1>3. trade' \in Trades /\ trade'.step = trade.step
  <2>1. PICK pc \in {"polling", "threw", "refunded"} :
          trade' = [Counted EXCEPT !.seen = TRUE, !.pc = pc]
    BY <1>2
  <2>2. Typed /\ Polling /\ pc \in PCs
    BY DEF RelayInv, PollUndone, PCs, EndedCalls
  <2> QED
    BY <2>1, <2>2, CountedIs
<1>4. row' \in Rows /\ engine' \in SettlementStates \cup {None}
  <2>1. row \in Rows /\ row.orderHash \in BOOLEAN /\ row.hash \in BOOLEAN
    BY DEF RelayInv, Typed, Rows
  <2>2. s \in SettlementStates
    BY StatesAre DEF Tellable
  <2>3. WithOrder(row, s, row.orderHash) \in Rows
    BY <2>1, <2>2, WithOrderTyped
  <2>4. WithIntent(WithOrder(row, s, row.orderHash), s, row.hash) \in Rows
    BY <2>1, <2>2, <2>3, WithIntentTyped
  <2> QED
    BY <1>2, <2>2, <2>4, TellTyped DEF RelayInv
<1>5. machine' \in Statuses
  BY <1>2, StatusesAre, ShowTyped DEF RelayInv
<1>6. relay' \in Relays
  BY <1>2, FailedStepTyped DEF RelayInv, Typed
<1>7. StepOK'
  BY <1>1, <1>3, PollsTyped DEF At
<1> QED
  BY <1>1, <1>3, <1>4, <1>5, <1>6, <1>7 DEF RelayInv, Typed, OrderOK

LEMMA SettledRowTyped ==
  ASSUME Typed
  PROVE  SettledRow \in Rows
<1>1. row \in Rows /\ "SETTLED" \in SettlementStates
  BY StatesAre DEF Typed, Tellable
<1>2. WithIntent(WithOrder(row, "SETTLED", TRUE), "SETTLED", TRUE) \in Rows
  BY <1>1, WithOrderTyped, WithIntentTyped
<1> QED
  BY <1>2 DEF SettledRow, Rows

LEMMA VerifyFillTyped ==
  ASSUME RelayInv, VerifyFill
  PROVE  RelayInv'
<1>1. UNCHANGED <<job, bridge>> /\ At("verifying")
  BY DEF VerifyFill
<1>2. trade' \in Trades /\ trade'.step = trade.step
  <2>1. trade \in Trades
    BY DEF RelayInv, Typed
  <2>2. PICK pc \in {"tail", "threw", "polling"} :
          trade' = [trade EXCEPT !.pc = pc] \/ trade' = [trade EXCEPT !.hash = "fill", !.pc = pc]
    BY DEF VerifyFill
  <2> QED
    BY <2>1, <2>2 DEF Trades, PCs, EndedCalls
<1>3. row' \in Rows /\ engine' \in SettlementStates \cup {None}
  BY StatesAre, SettledRowTyped, TellTyped DEF RelayInv, VerifyFill, Tellable
<1>4. machine' \in Statuses
  BY StatusesAre, ShowTyped DEF RelayInv, VerifyFill
<1>5. relay' \in Relays
  <2>1. PICK w \in {"PENDING", "SUCCESS", "FAILED"} : w = Written("SUCCESS")
    BY DEF RelayInv, Typed, Relays, Written
  <2>2. relay' = relay \/ relay' = [memory |-> TRUE, row |-> w, hash |-> TRUE]
    BY <2>1 DEF VerifyFill
  <2>3. CASE relay' = relay
    BY <2>3 DEF RelayInv, Typed
  <2>4. CASE relay' = [memory |-> TRUE, row |-> w, hash |-> TRUE]
    BY <2>4 DEF Relays
  <2> QED
    BY <2>2, <2>3, <2>4
<1>6. StepOK'
  BY <1>1, <1>2, PollsTyped DEF At
<1> QED
  BY <1>1, <1>2, <1>3, <1>4, <1>5, <1>6 DEF RelayInv, Typed, OrderOK

LEMMA RejectFillTyped ==
  ASSUME RelayInv, RejectFill
  PROVE  /\ RelayInv'
         /\ trade'.doubted = (trade.doubted \/ bridge.tx # "REVERTED")
<1>1. UNCHANGED <<job, bridge>> /\ At("verifying")
  BY DEF RejectFill
<1>2. /\ trade' \in Trades /\ trade'.step = trade.step
      /\ trade'.doubted = (trade.doubted \/ bridge.tx # "REVERTED")
  <2>1. trade \in Trades
    BY DEF RelayInv, Typed
  <2>2. PICK pc \in {"threw", "polling"} :
          trade' = [trade EXCEPT !.pc = pc, !.doubted = @ \/ bridge.tx # "REVERTED"]
    BY DEF RejectFill
  <2> QED
    BY <2>1, <2>2 DEF Trades, PCs, EndedCalls
<1>3. row' \in Rows /\ engine' \in SettlementStates \cup {None}
  <2>1. row \in Rows /\ row.orderHash \in BOOLEAN /\ row.hash \in BOOLEAN
        /\ "FAILED" \in SettlementStates
    BY StatesAre DEF RelayInv, Typed, Rows, Tellable
  <2>2. WithIntent(WithOrder(row, "FAILED", row.orderHash), "FAILED", row.hash) \in Rows
    BY <2>1, WithOrderTyped, WithIntentTyped
  <2> QED
    BY <2>1, <2>2, TellTyped DEF RelayInv, RejectFill
<1>4. machine' \in Statuses
  BY StatusesAre, ShowTyped DEF RelayInv, RejectFill
<1>5. relay' \in Relays
  BY FailedStepTyped DEF RelayInv, Typed, RejectFill
<1>6. StepOK'
  BY <1>1, <1>2, PollsTyped DEF At
<1> QED
  BY <1>1, <1>2, <1>3, <1>4, <1>5, <1>6 DEF RelayInv, Typed, OrderOK

LEMMA TimeOutTyped ==
  ASSUME RelayInv, TimeOut
  PROVE  RelayInv'
<1>1. UNCHANGED <<job, bridge>> /\ At("polling")
  BY DEF TimeOut
<1>2. trade' \in Trades /\ trade'.step = trade.step
  BY DEF RelayInv, Typed, TimeOut, Trades, PCs, EndedCalls
<1>3. row' \in Rows /\ engine' \in SettlementStates \cup {None}
  BY StatesAre, TellTyped DEF RelayInv, Typed, TimeOut, Tellable
<1>4. machine' \in Statuses
  BY StatusesAre, ShowTyped DEF RelayInv, TimeOut
<1>5. relay' \in Relays
  BY FailedStepTyped DEF RelayInv, Typed, TimeOut
<1>6. StepOK'
  BY <1>1, <1>2, PollsTyped DEF At
<1> QED
  BY <1>1, <1>2, <1>3, <1>4, <1>5, <1>6 DEF RelayInv, Typed, OrderOK

\* The destination steps and the crash.
LEMMA TailTyped ==
  ASSUME RelayInv,
         DestinationApproval \/ DestinationSwap \/ DestinationVerify \/ SettlementComplete
  PROVE  /\ RelayInv'
         /\ UNCHANGED <<job, bridge, engine, relay, row>>
         /\ At("tail") /\ trade'.pc \in {"tail", "threw", "returned"}
         /\ trade'.restarted = trade.restarted
         /\ trade'.doubted = trade.doubted
<1>1. /\ UNCHANGED <<job, bridge, engine, relay, row>>
      /\ At("tail")
      /\ trade \in Trades
      /\ trade.step \in 1..Len(job.tail)
  BY DEF RelayInv, Typed, StepOK, DestinationApproval, DestinationSwap, DestinationVerify,
         SettlementComplete, InTail
<1>2. /\ trade.step \in 1..4
      /\ job.tail[trade.step] # "COMPLETE" => trade.step + 1 \in 1..Len(job.tail)
  <2>1. job.tail \in Tails
    BY JobIs DEF RelayInv, AllJobs
  <2> QED
    BY <1>1, <2>1, TailGoesOn
<1>3. /\ Threw \in Trades /\ Threw.pc = "threw"
      /\ Threw.restarted = trade.restarted /\ Threw.doubted = trade.doubted
  BY <1>1 DEF Threw, Trades, PCs, EndedCalls
<1>4. /\ NextStep \in Trades /\ NextStep.step = trade.step + 1 /\ NextStep.pc = trade.pc
      /\ NextStep.restarted = trade.restarted /\ NextStep.doubted = trade.doubted
  BY <1>1, <1>2 DEF NextStep, Trades
<1>5. CASE trade' = NextStep /\ job.tail[trade.step] # "COMPLETE"
  <2>1. StepOK' /\ trade'.pc = "tail"
    BY <1>1, <1>2, <1>4, <1>5 DEF StepOK, At
  <2>2. trade' \in Trades
    BY <1>4, <1>5
  <2>3. machine' \in Statuses
    BY <1>1, StatusesAre DEF RelayInv, Typed, DestinationApproval, DestinationSwap,
                        DestinationVerify, SettlementComplete, Failing
  <2> QED
    BY <1>1, <1>4, <1>5, <2>1, <2>2, <2>3 DEF RelayInv, Typed, OrderOK
<1>6. CASE trade' = Threw
  <2>1. StepOK'
    BY <1>3, <1>6 DEF StepOK, At
  <2>2. trade' \in Trades
    BY <1>3, <1>6
  <2>3. machine' \in Statuses
    BY <1>1, StatusesAre DEF RelayInv, Typed, DestinationApproval, DestinationSwap,
                        DestinationVerify, SettlementComplete, Failing
  <2> QED
    BY <1>1, <1>3, <1>6, <2>1, <2>2, <2>3 DEF RelayInv, Typed, OrderOK
<1>7. CASE DestinationSwap /\ machine' = "CONFIRMING" /\ trade' = [NextStep EXCEPT !.hash = "swap"]
  <2>1. /\ trade' \in Trades /\ trade'.step = trade.step + 1 /\ trade'.pc = "tail"
        /\ trade'.restarted = trade.restarted /\ trade'.doubted = trade.doubted
    BY <1>1, <1>4, <1>7 DEF Trades, At
  <2>2. job.tail[trade.step] # "COMPLETE"
    BY <1>7 DEF DestinationSwap, InTail
  <2>3. StepOK'
    BY <1>1, <1>2, <2>1, <2>2 DEF StepOK, At
  <2>4. machine' \in Statuses
    BY <1>7, StatusesAre
  <2> QED
    BY <1>1, <2>1, <2>3, <2>4 DEF RelayInv, Typed, OrderOK
<1>8. CASE SettlementComplete
  <2>1. /\ trade' \in Trades /\ trade'.pc = "returned"
        /\ trade'.restarted = trade.restarted /\ trade'.doubted = trade.doubted
    BY <1>1, <1>8 DEF SettlementComplete, Trades, PCs, EndedCalls
  <2>2. StepOK'
    BY <2>1 DEF StepOK, At
  <2>3. machine' \in Statuses
    BY <1>8, StatusesAre DEF SettlementComplete
  <2> QED
    BY <1>1, <2>1, <2>2, <2>3 DEF RelayInv, Typed, OrderOK
<1>9. CASE DestinationApproval
  BY <1>5, <1>6, <1>9 DEF DestinationApproval, InTail
<1>10. CASE DestinationSwap
  BY <1>6, <1>7, <1>10 DEF DestinationSwap
<1>11. CASE DestinationVerify
  <2>1. job.tail[trade.step] # "COMPLETE"
    BY <1>11 DEF DestinationVerify, InTail
  <2>2. trade' = NextStep \/ trade' = Threw
    BY <1>11 DEF DestinationVerify
  <2> QED
    BY <1>5, <1>6, <2>1, <2>2
<1> QED
  BY <1>8, <1>9, <1>10, <1>11

LEMMA CrashTradeTyped ==
  ASSUME RelayInv, CrashTrade
  PROVE  /\ RelayInv'
         /\ UNCHANGED <<job, bridge, row>>
         /\ ~At("idle") /\ At("crashed")' /\ trade'.restarted = TRUE
         /\ trade'.doubted = trade.doubted
         /\ engine' = None /\ machine' = "IDLE"
         /\ relay'.memory = FALSE /\ relay'.row = relay.row
<1>1. /\ UNCHANGED <<job, bridge, row>> /\ ~At("idle")
      /\ engine' = None /\ machine' = "IDLE"
  BY DEF CrashTrade
<1>2. /\ trade' \in Trades /\ trade'.pc = "crashed" /\ trade'.restarted = TRUE
      /\ trade'.doubted = trade.doubted
  BY DEF RelayInv, Typed, CrashTrade, Trades, PCs, EndedCalls
<1>3. /\ relay' \in Relays /\ relay'.memory = FALSE /\ relay'.row = relay.row
  <2>1. relay \in Relays
    BY DEF RelayInv, Typed
  <2>2. PICK b \in BOOLEAN : b = (relay.row = "SUCCESS" /\ relay.hash)
    OBVIOUS
  <2>3. relay' = [relay EXCEPT !.memory = FALSE, !.hash = b]
    BY <2>2 DEF CrashTrade
  <2> QED
    BY <2>1, <2>3 DEF Relays
<1>4. StepOK'
  BY <1>2 DEF StepOK, At
<1> QED
  BY <1>1, <1>2, <1>3, <1>4, StatusesAre DEF RelayInv, Typed, OrderOK, At

LEMMA RelayInvStep ==
  ASSUME RelayInv, [RelayNext]_relayVars
  PROVE  RelayInv'
<1>1. CASE UNCHANGED relayVars
  BY <1>1 DEF relayVars, RelayInv, Typed, StepOK, OrderOK, At
<1>2. CASE Deposit \/ Start
  BY <1>2, DepositTyped, StartTyped
<1>3. CASE SkipRelay \/ EnterRelay
  BY <1>3, WaitTyped
<1>4. CASE PollRunning \/ PollFilled \/ PollUndone \/ VerifyFill \/ RejectFill \/ TimeOut
  BY <1>4, PollRunningTyped, PollFilledTyped, PollUndoneTyped, VerifyFillTyped, RejectFillTyped,
     TimeOutTyped
<1>5. CASE DestinationApproval \/ DestinationSwap \/ DestinationVerify \/ SettlementComplete
  BY <1>5, TailTyped
<1>6. CASE BridgeStep \/ ClaimUnlock \/ MineFill
  BY <1>6, BridgeMoves
<1>7. CASE CrashTrade
  BY <1>7, CrashTradeTyped
<1> QED
  BY <1>1, <1>2, <1>3, <1>4, <1>5, <1>6, <1>7 DEF RelayNext, Advance

-----------------------------------------------------------------------------
(***************************************************************************)
(* The trade alone: the row follows the engine.                            *)
(***************************************************************************)
Live == {"source", "relay", "polling", "verifying", "tail"}

\* A call under way has an engine state, which it alone moves; the row is
\* created with it and equals it until the process dies; a fill is verified in
\* the state its report led to.
EngineInv ==
  /\ ~job.intent => engine = None
  /\ job.intent /\ trade.pc \in Live => engine # None
  /\ job.intent /\ ~trade.restarted /\ engine = None => row.intent = None
  /\ engine # None /\ ~trade.restarted => row.intent = engine
  /\ job.intent /\ At("verifying") => engine = "DESTINATION_FILLED"

\* Told of s, on top of a row the tracker has or has not moved to s itself,
\* the engine and the row end alike.
LEMMA TellAgrees ==
  ASSUME RelayInv, EngineInv, NEW s \in Tellable, NEW h \in BOOLEAN, NEW g \in BOOLEAN,
         NEW r \in Rows,
         \/ r.intent = row.intent
         \/ /\ r.intent = WithIntent(row, s, g).intent
            /\ \/ s \in {"REFUND_PENDING", "FAILED"}
               \/ s = "SETTLED" /\ At("verifying"),
         trade.pc \in {"polling", "verifying"},
         Tell(r, s, h)
  PROVE  /\ ~job.intent => engine' = None
         /\ job.intent => engine' # None
         /\ engine' # None /\ ~trade.restarted => row'.intent = engine'
         /\ job.intent /\ Told(s) => engine' = s
<1>1. row \in Rows /\ s \in SettlementStates /\ s # None
  BY StatesAre DEF RelayInv, Typed
<1>2. CASE ~job.intent
  BY <1>2 DEF EngineInv, Tell
<1>3. CASE job.intent
  <2>1. engine \in SettlementStates
    BY <1>3 DEF EngineInv, RelayInv, Typed, Live
  <2>2. engine # None
    BY <2>1, StatesAre
  <2>3. engine' # None /\ (Told(s) => engine' = s)
    BY <1>1, <1>3, <2>2 DEF Tell
  <2>4. ASSUME ~trade.restarted PROVE row'.intent = engine'
    <3>1. row.intent = engine
      BY <2>2, <2>4 DEF EngineInv
    <3>2. CASE Told(s)
      <4>1. ValidIntent(engine, s) /\ ValidSettlement(engine, s)
        BY <1>3, <2>1, <3>2, TablesAgree DEF Told
      <4>2. r.intent \in {engine, s}
        BY <1>1, <3>1, WithIntentMoves
      <4>3. r.intent # None /\ ValidSettlement(r.intent, s)
        BY <1>1, <2>2, <4>1, <4>2 DEF ValidSettlement
      <4>4. WithIntent(r, s, h).intent = s
        BY <1>1, <4>3, WithIntentMoves
      <4> QED
        BY <1>3, <3>2, <4>4 DEF Tell
    <3>3. CASE ~Told(s)
      <4>1. ~ValidIntent(engine, s)
        BY <3>3 DEF Told
      <4>2. s = "SETTLED" => ~At("verifying")
        BY <1>3, <4>1, FilledMaySettle DEF EngineInv
      <4>3. ~ValidSettlement(engine, s) \/ r.intent = row.intent
        BY <2>1, <4>1, <4>2, TablesAgree
      <4>4. r.intent = row.intent
        BY <1>1, <3>1, <4>3, WithIntentMoves
      <4> QED
        BY <1>3, <3>1, <3>3, <4>4 DEF Tell
    <3> QED
      BY <3>2, <3>3
  <2> QED
    BY <1>3, <2>3, <2>4
<1> QED
  BY <1>2, <1>3

LEMMA EngineInvInit == RelayInit => EngineInv
BY DEF RelayInit, EngineInv, At, Live

LEMMA PollAgrees ==
  ASSUME RelayInv, EngineInv, PollRunning \/ PollFilled \/ TimeOut
  PROVE  EngineInv'
<1>1. /\ UNCHANGED job /\ trade.pc = "polling" /\ row \in Rows
      /\ row.orderHash \in BOOLEAN
  BY DEF RelayInv, Typed, Rows, PollRunning, PollFilled, TimeOut, Polling, At
<1>2. CASE PollRunning
  <2>1. trade'.pc = "polling" /\ trade'.restarted = trade.restarted
    BY <1>1, <1>2, CountedIs DEF RelayInv, PollRunning
  <2>2. PICK s \in {"FULFILLING", "TRACKING_UNAVAILABLE"},
             r \in {row, WithOrder(row, "FULFILLING", row.orderHash)} : Tell(r, s, FALSE)
    BY <1>2 DEF PollRunning
  <2>3. r \in Rows /\ r.intent = row.intent /\ s \in Tellable
    <3>1. "FULFILLING" \in SettlementStates /\ s \in Tellable
      BY StatesAre DEF Tellable
    <3>2. PICK o : o = WithOrder(row, "FULFILLING", row.orderHash)
      OBVIOUS
    <3>3. o \in Rows /\ o.intent = row.intent
      BY <1>1, <3>1, <3>2, WithOrderTyped
    <3> QED
      BY <1>1, <3>1, <3>2, <3>3
  <2> QED
    BY <1>1, <2>1, <2>2, <2>3, TellAgrees DEF EngineInv, At, Live
<1>3. CASE PollFilled
  <2> DEFINE s == "DESTINATION_FILLED"
  <2>1. PICK pc \in {"verifying", "polling"} :
          /\ trade' = [Counted EXCEPT !.seen = TRUE, !.pc = pc]
          /\ pc = "verifying" => Shown(s, "BRIDGE_DESTINATION_CONFIRMED")
    BY <1>3 DEF PollFilled
  <2>2. Typed /\ Polling /\ pc \in PCs
    BY <1>3 DEF RelayInv, PollFilled, PCs
  <2>3. trade'.pc = pc /\ trade'.restarted = trade.restarted
    BY <2>1, <2>2, CountedIs
  <2>4. s \in Tellable /\ Tell(row, s, TRUE)
    BY <1>3 DEF PollFilled, Tellable
  <2>5. pc = "verifying" => Told(s)
    BY <2>1 DEF Shown
  <2> HIDE DEF s
  <2>6. /\ ~job.intent => engine' = None
        /\ job.intent => engine' # None
        /\ engine' # None /\ ~trade.restarted => row'.intent = engine'
        /\ job.intent /\ Told(s) => engine' = s
    BY <1>1, <2>4, TellAgrees
  <2> QED
    BY <1>1, <2>3, <2>5, <2>6 DEF EngineInv, At, s
<1>4. CASE TimeOut
  <2>1. trade'.pc \in {"timedOut", "threw"} /\ trade'.restarted = trade.restarted
    BY <1>4 DEF TimeOut, RelayInv, Typed, Trades
  <2>2. "TRACKING_TIMEOUT" \in Tellable /\ Tell(row, "TRACKING_TIMEOUT", FALSE)
    BY <1>4 DEF TimeOut, Tellable
  <2> QED
    BY <1>1, <2>1, <2>2, TellAgrees DEF EngineInv, At
<1> QED
  BY <1>2, <1>3, <1>4

LEMMA PollUndoneAgrees ==
  ASSUME RelayInv, EngineInv, PollUndone
  PROVE  EngineInv'
<1>1. UNCHANGED job /\ trade.pc = "polling" /\ row \in Rows
      /\ row.orderHash \in BOOLEAN /\ row.hash \in BOOLEAN
  BY DEF RelayInv, Typed, Rows, PollUndone, Polling, At
<1>2. PICK s \in {"REFUND_PENDING", "FAILED"}, pc \in {"polling", "threw", "refunded"} :
        /\ Tell(WithIntent(WithOrder(row, s, row.orderHash), s, row.hash), s, FALSE)
        /\ trade' = [Counted EXCEPT !.seen = TRUE, !.pc = pc]
  BY DEF PollUndone
<1>3. Typed /\ Polling /\ pc \in PCs
  BY DEF RelayInv, PollUndone, PCs, EndedCalls
<1>4. trade'.pc = pc /\ trade'.restarted = trade.restarted
  BY <1>2, <1>3, CountedIs
<1>5. PICK r : r = WithIntent(WithOrder(row, s, row.orderHash), s, row.hash)
  OBVIOUS
<1>6. s \in Tellable /\ s \in SettlementStates
  BY StatesAre DEF Tellable
<1>7. r \in Rows /\ r.intent = WithIntent(row, s, row.hash).intent
  <2>1. WithOrder(row, s, row.orderHash) \in Rows
        /\ WithOrder(row, s, row.orderHash).intent = row.intent
    BY <1>1, <1>6, WithOrderTyped
  <2> QED
    BY <1>1, <1>5, <1>6, <2>1, WithIntentTyped, WithIntentMoves
<1>8. Tell(r, s, FALSE)
  BY <1>2, <1>5
<1>9. /\ ~job.intent => engine' = None
      /\ job.intent => engine' # None
      /\ engine' # None /\ ~trade.restarted => row'.intent = engine'
  BY <1>1, <1>6, <1>7, <1>8, TellAgrees
<1> QED
  BY <1>1, <1>4, <1>9 DEF EngineInv, At

LEMMA VerdictAgrees ==
  ASSUME RelayInv, EngineInv, VerifyFill \/ RejectFill
  PROVE  EngineInv'
<1>1. UNCHANGED job /\ trade.pc = "verifying" /\ row \in Rows /\ trade \in Trades
      /\ row.orderHash \in BOOLEAN /\ row.hash \in BOOLEAN
  BY DEF RelayInv, Typed, Rows, VerifyFill, RejectFill, At
<1>2. CASE VerifyFill
  <2>1. trade'.pc \in {"tail", "threw", "polling"} /\ trade'.restarted = trade.restarted
    BY <1>1, <1>2 DEF VerifyFill, Trades
  <2>2. Tell(SettledRow, "SETTLED", TRUE)
    BY <1>2 DEF VerifyFill
  <2>3. "SETTLED" \in Tellable /\ "SETTLED" \in SettlementStates
    BY StatesAre DEF Tellable
  <2>4. SettledRow \in Rows /\ SettledRow.intent = WithIntent(row, "SETTLED", TRUE).intent
    <3>1. PICK o : o = WithOrder(row, "SETTLED", TRUE)
      OBVIOUS
    <3>2. o \in Rows /\ o.intent = row.intent
      BY <1>1, <2>3, <3>1, WithOrderTyped
    <3>3. WithIntent(o, "SETTLED", TRUE) \in Rows
      BY <2>3, <3>2, WithIntentTyped
    <3>4. WithIntent(o, "SETTLED", TRUE).intent = WithIntent(row, "SETTLED", TRUE).intent
      BY <1>1, <3>2 DEF WithIntent, Rows
    <3> QED
      BY <3>1, <3>3, <3>4 DEF SettledRow, Rows
  <2>5. /\ ~job.intent => engine' = None
        /\ job.intent => engine' # None
        /\ engine' # None /\ ~trade.restarted => row'.intent = engine'
    BY <1>1, <2>2, <2>3, <2>4, TellAgrees DEF At
  <2> QED
    BY <1>1, <2>1, <2>5 DEF EngineInv, At
<1>3. CASE RejectFill
  <2>1. trade'.pc \in {"threw", "polling"} /\ trade'.restarted = trade.restarted
    BY <1>1, <1>3 DEF RejectFill, Trades
  <2>2. PICK r : r = WithIntent(WithOrder(row, "FAILED", row.orderHash), "FAILED", row.hash)
    OBVIOUS
  <2>3. Tell(r, "FAILED", FALSE)
    BY <1>3, <2>2 DEF RejectFill
  <2>4. "FAILED" \in Tellable /\ "FAILED" \in SettlementStates
    BY StatesAre DEF Tellable
  <2>5. r \in Rows /\ r.intent = WithIntent(row, "FAILED", row.hash).intent
    <3>1. WithOrder(row, "FAILED", row.orderHash) \in Rows
          /\ WithOrder(row, "FAILED", row.orderHash).intent = row.intent
      BY <1>1, <2>4, WithOrderTyped
    <3> QED
      BY <1>1, <2>2, <2>4, <3>1, WithIntentTyped, WithIntentMoves
  <2>6. /\ ~job.intent => engine' = None
        /\ job.intent => engine' # None
        /\ engine' # None /\ ~trade.restarted => row'.intent = engine'
    BY <1>1, <2>3, <2>4, <2>5, TellAgrees
  <2> QED
    BY <1>1, <2>1, <2>6 DEF EngineInv, At
<1> QED
  BY <1>2, <1>3

LEMMA StartAgrees ==
  ASSUME RelayInv, EngineInv, Start
  PROVE  EngineInv'
<1>1. UNCHANGED job /\ trade \in Trades /\ row \in Rows
  BY DEF RelayInv, Typed, Start
<1>2. CASE trade' = [trade EXCEPT !.pc = "threw", !.runs = @ + 1, !.seen = FALSE]
           /\ UNCHANGED <<engine, row>>
  <2>1. trade'.pc = "threw" /\ trade'.restarted = trade.restarted
    BY <1>1, <1>2 DEF Trades
  <2> QED
    BY <1>1, <1>2, <2>1 DEF EngineInv, At, Live
<1>3. CASE /\ job.intent => engine = None
           /\ engine' = IF job.intent THEN "SUBMITTED" ELSE None
           /\ row' = IF job.intent THEN Registered ELSE row
           /\ trade' = [trade EXCEPT !.pc = "source", !.runs = @ + 1, !.polls = 0,
                                     !.step = 1, !.hash = None, !.seen = FALSE]
  <2>1. trade'.pc = "source" /\ trade'.restarted = trade.restarted
    BY <1>1, <1>3 DEF Trades
  <2>2. ASSUME job.intent, ~trade.restarted PROVE Registered.intent = "SUBMITTED"
    <3>1. row.intent = None
      BY <1>3, <2>2 DEF EngineInv
    <3> DEFINE created == [row EXCEPT !.intent = "CREATED"]
    <3>2. created \in Rows /\ created.intent = "CREATED"
      BY <1>1, StatesAre DEF Rows
    <3> HIDE DEF created
    <3>3. PICK signed : signed = WithIntent(created, "SIGNED", FALSE)
      OBVIOUS
    <3>4. "SIGNED" \in SettlementStates /\ "SUBMITTED" \in SettlementStates
          /\ "CREATED" # None /\ "SIGNED" # None
      BY StatesAre DEF None
    <3>5. signed \in Rows /\ signed.intent = "SIGNED"
      <4>1. created.intent # None /\ ValidSettlement(created.intent, "SIGNED")
        BY <3>2, <3>4, NewMaySubmit
      <4>2. WithIntent(created, "SIGNED", FALSE).intent = "SIGNED"
        BY <3>2, <3>4, <4>1, WithIntentMoves
      <4> QED
        BY <3>2, <3>3, <3>4, <4>2, WithIntentTyped
    <3>6. WithIntent(signed, "SUBMITTED", FALSE).intent = "SUBMITTED"
      BY <3>4, <3>5, NewMaySubmit, WithIntentMoves
    <3> QED
      BY <3>1, <3>3, <3>6 DEF Registered, created
  <2>3. "SUBMITTED" # None
    BY DEF None
  <2> QED
    BY <1>1, <1>3, <2>1, <2>2, <2>3 DEF EngineInv, At
<1> QED
  BY <1>2, <1>3 DEF Start

LEMMA EngineInvStep ==
  ASSUME RelayInv, EngineInv, [RelayNext]_relayVars
  PROVE  EngineInv'
<1>1. CASE UNCHANGED relayVars
  BY <1>1 DEF relayVars, EngineInv, At
<1>2. CASE Deposit \/ SkipRelay \/ EnterRelay
  <2>1. UNCHANGED <<job, engine>> /\ trade \in Trades /\ row \in Rows
    BY <1>2 DEF RelayInv, Typed, Deposit, SkipRelay, EnterRelay
  <2>2. /\ trade.pc \in Live
        /\ trade'.pc \in {"relay", "threw", "tail", "polling"}
        /\ trade'.restarted = trade.restarted
    BY <1>2, <2>1 DEF Deposit, SkipRelay, EnterRelay, Trades, At, Live
  <2>3. row'.intent = row.intent
    BY <1>2, <2>1 DEF Deposit, SkipRelay, EnterRelay, Rows
  <2> QED
    BY <2>1, <2>2, <2>3 DEF EngineInv, At, Live
<1>3. CASE DestinationApproval \/ DestinationSwap \/ DestinationVerify \/ SettlementComplete
  BY <1>3, TailTyped DEF EngineInv, At, Live
<1>4. CASE BridgeStep \/ ClaimUnlock \/ MineFill
  BY <1>4, BridgeMoves DEF EngineInv, At
<1>5. CASE CrashTrade
  BY <1>5, CrashTradeTyped DEF EngineInv, At, Live
<1> QED
  BY <1>1, <1>2, <1>3, <1>4, <1>5, StartAgrees, PollAgrees, PollUndoneAgrees, VerdictAgrees
     DEF RelayNext, Advance

\* The row follows the engine while the process lives: the two copies of the
\* transition table never admit a move to one and refuse it to the other.
THEOREM RowFollowsEngine == RelaySpec => []EngineAndRowAgree
<1>1. RelayInit => RelayInv /\ EngineInv
  BY RelayInvInit, EngineInvInit
<1>2. RelayInv /\ EngineInv /\ [RelayNext]_relayVars => RelayInv' /\ EngineInv'
  BY RelayInvStep, EngineInvStep
<1>3. RelayInv /\ EngineInv => EngineAndRowAgree
  BY TypesAre DEF RelayInv, EngineInv, EngineAndRowAgree
<1> QED
  BY <1>1, <1>2, <1>3, PTL DEF RelaySpec

-----------------------------------------------------------------------------
(***************************************************************************)
(* The trade alone: what it shows as completed was filled.                 *)
(***************************************************************************)
\* The step registry, the plan row, the destination steps and the status
\* COMPLETED are each reached through a verified fill only, unless the caller
\* skips the wait.
FilledInv ==
  ~job.skip /\ (relay.memory \/ relay.row = "SUCCESS" \/ At("tail") \/ machine = "COMPLETED")
    => bridge.tx = "SUCCESS"

LEMMA VerdictIsOfFill == TRUE \in Verdicts => bridge.tx = "SUCCESS"
<1> SUFFICES ASSUME TRUE \in Verdicts PROVE bridge.tx = "SUCCESS"
  OBVIOUS
<1>1. TRUE \in {bridge.tx = "SUCCESS"} \/ TRUE \in {FALSE}
  BY DEF Verdicts
<1> QED
  BY <1>1

LEMMA FilledInvStep ==
  ASSUME RelayInv, FilledInv, [RelayNext]_relayVars
  PROVE  FilledInv'
<1> USE DEF FilledInv
<1>0. trade \in Trades /\ relay \in Relays
  BY DEF RelayInv, Typed
<1>1. CASE UNCHANGED relayVars
  BY <1>1 DEF relayVars, At
<1>2. CASE Start
  <2>1. UNCHANGED <<job, bridge, relay>> /\ machine' = "IDLE"
    BY <1>2 DEF Start
  <2>2. trade'.pc \in {"threw", "source"}
    BY <1>0, <1>2 DEF Start, Trades
  <2> QED
    BY <2>1, <2>2 DEF At
<1>3. CASE Deposit
  <2>1. UNCHANGED <<job, relay>> /\ machine' # "COMPLETED" /\ bridge'.tx = bridge.tx
    BY <1>3 DEF Deposit, RelayInv, Typed, Orders
  <2>2. trade'.pc \in {"threw", "relay"}
    BY <1>0, <1>3 DEF Deposit, Trades
  <2> QED
    BY <2>1, <2>2 DEF At
<1>4. CASE SkipRelay
  BY <1>0, <1>4 DEF SkipRelay, RelayDone
<1>5. CASE EnterRelay
  <2>1. UNCHANGED <<job, bridge>> /\ machine' = "BRIDGE_IN_FLIGHT"
    BY <1>5 DEF EnterRelay
  <2>2. ~job.skip => UNCHANGED relay /\ trade' = [trade EXCEPT !.pc = "polling"]
    BY <1>5 DEF EnterRelay
  <2> QED
    BY <1>0, <2>1, <2>2 DEF At, Trades
<1>6. CASE PollRunning \/ PollFilled
  <2>1. UNCHANGED <<job, bridge, relay>>
    BY <1>6 DEF PollRunning, PollFilled
  <2>2. machine' # "COMPLETED" \/ UNCHANGED machine
    BY <1>6 DEF PollRunning, PollFilled, Show
  <2>3. trade'.pc \in {"polling", "verifying"}
    <3>1. Typed /\ Polling /\ trade.pc = "polling"
      BY <1>6 DEF RelayInv, PollRunning, PollFilled, Polling, At
    <3>2. CASE PollRunning
      BY <3>1, <3>2, CountedIs DEF PollRunning
    <3>3. CASE PollFilled
      BY <1>0, <3>1, <3>3, CountedIs DEF PollFilled, PCs
    <3> QED
      BY <1>6, <3>2, <3>3
  <2> QED
    BY <2>1, <2>2, <2>3 DEF At
<1>7. CASE PollUndone \/ RejectFill \/ TimeOut
  <2>1. UNCHANGED <<job, bridge>>
    BY <1>7 DEF PollUndone, RejectFill, TimeOut
  <2>2. machine' # "COMPLETED" \/ UNCHANGED machine
    BY <1>7 DEF PollUndone, RejectFill, TimeOut, Show
  <2>3. trade'.pc \in {"polling", "threw", "refunded", "timedOut"}
    <3>1. CASE PollUndone
      <4>1. PICK pc \in {"polling", "threw", "refunded"} :
              trade' = [Counted EXCEPT !.seen = TRUE, !.pc = pc]
        BY <3>1 DEF PollUndone
      <4>2. Typed /\ Polling /\ pc \in PCs
        BY <3>1 DEF RelayInv, PollUndone, PCs, EndedCalls
      <4> QED
        BY <4>1, <4>2, CountedIs
    <3>2. CASE RejectFill \/ TimeOut
      BY <1>0, <3>2 DEF RejectFill, TimeOut, Trades
    <3> QED
      BY <1>7, <3>1, <3>2
  <2>4. relay' = relay \/ relay' = FailedStep
    BY <1>7 DEF PollUndone, RejectFill, TimeOut
  <2>5. FailedStep.memory = relay.memory /\ (FailedStep.row = "SUCCESS" => relay.row = "SUCCESS")
    BY <1>0 DEF FailedStep, Written, Relays
  <2> QED
    BY <2>1, <2>2, <2>3, <2>4, <2>5 DEF At
<1>8. CASE VerifyFill
  BY <1>8, VerdictIsOfFill DEF VerifyFill
<1>9. CASE DestinationApproval \/ DestinationSwap \/ DestinationVerify \/ SettlementComplete
  BY <1>9, TailTyped
<1>10. CASE BridgeStep \/ ClaimUnlock \/ MineFill
  BY <1>10, BridgeMoves DEF At
<1>11. CASE CrashTrade
  BY <1>11, CrashTradeTyped DEF At
<1> QED
  BY <1>1, <1>2, <1>3, <1>4, <1>5, <1>6, <1>7, <1>8, <1>9, <1>10, <1>11 DEF RelayNext, Advance

\* A trade that waits for its relay shows COMPLETED only over a fill that was
\* mined and verified, in whatever call, process and order of answers.
THEOREM CompletedTradesAreFilled == RelaySpec => []CompletedIsFilled
<1>1. RelayInit => RelayInv /\ FilledInv
  BY RelayInvInit DEF RelayInit, FilledInv, At
<1>2. RelayInv /\ FilledInv /\ [RelayNext]_relayVars => RelayInv' /\ FilledInv'
  BY RelayInvStep, FilledInvStep
<1>3. FilledInv => CompletedIsFilled
  BY DEF FilledInv, CompletedIsFilled
<1> QED
  BY <1>1, <1>2, <1>3, PTL DEF RelaySpec

-----------------------------------------------------------------------------
(***************************************************************************)
(* Beside the recoverers and the reconciler: what an intent's row rests    *)
(* on, and how every writer keeps it so.                                   *)
(***************************************************************************)
Lost      == {"FAILED", "REFUND_PENDING"}
Named     == {"DESTINATION_FILLED", "SETTLED"} \cup Lost
Undecided == {"SIGNED", "SUBMITTED", "FULFILLING", "TRACKING_UNAVAILABLE", "TRACKING_TIMEOUT"}

\* A row with a hash is past the fill or lost, a settled one has its hash; f
\* is true if a fill was mined, d if a loss has a cause.
RowRests(r, f, d) ==
  /\ r.hash => r.intent \in Named
  /\ r.intent = "SETTLED" => r.hash
  /\ r.settled \/ "SETTLED" \in {r.intent, r.order} => f
  /\ r.intent \in Lost => d

\* From r to q the row is not deleted, and its hash goes only with the intent lost.
RowKept(r, q) ==
  /\ r.intent # None => q.intent # None
  /\ r.hash \/ r.intent \in Lost => q.hash \/ q.intent \in Lost

\* The writes of status s, with hash h, that the writers make.
Meant(r, s, h) ==
  \/ s \in Undecided /\ h \in {FALSE, r.hash}
  \/ s \in {"DESTINATION_FILLED", "SETTLED"} /\ h = TRUE
  \/ s = "SETTLED" /\ h = r.hash /\ (r.hash \/ r.intent \in Lost)
  \/ s \in Lost

LEMMA MeantAreStates == Named \cup Undecided \subseteq SettlementStates
BY DEF Named, Lost, Undecided, SettlementStates, SettlementTransitions

\* Past the fill an intent does not return, and a lost one is not settled.
LEMMA NoReturn ==
  ASSUME NEW e \in SettlementStates, NEW s \in Named \cup Undecided, ValidSettlement(e, s)
  PROVE  /\ e \in Named => s \in Named
         /\ e \in Lost => s \in Lost
         /\ e = "SETTLED" => s = "SETTLED"
<1>1. e \in {"CREATED", "SIGNED", "SUBMITTED", "ACCEPTED", "FULFILLING", "DESTINATION_FILLED",
             "VERIFIED", "SETTLING", "SETTLED", "FAILED", "REFUND_PENDING", "REFUNDED",
             "CANCELLED", "EXPIRED", "REJECTED", "TRACKING_TIMEOUT", "TRACKING_UNAVAILABLE"}
  BY DEF SettlementStates, SettlementTransitions
<1> QED
  BY <1>1 DEF Named, Lost, Undecided, ValidSettlement, SettlementTransitions

LEMMA NamesDiffer ==
  /\ Named \cap Undecided = {} /\ Lost \subseteq Named
  /\ "SETTLED" \in Named /\ "SETTLED" \notin Lost /\ "DESTINATION_FILLED" \in Named
  /\ "DESTINATION_FILLED" \notin Lost /\ None \notin Named \cup Undecided
BY DEF Named, Lost, Undecided, None

LEMMA IntentWrite ==
  ASSUME NEW r \in Rows, NEW s, NEW h \in BOOLEAN, NEW f, NEW d,
         RowRests(r, f, d), Meant(r, s, h), s = "SETTLED" => f, s \in Lost => d
  PROVE  /\ WithIntent(r, s, h) \in Rows
         /\ RowRests(WithIntent(r, s, h), f, d)
         /\ RowKept(r, WithIntent(r, s, h))
<1>1. s \in Named \cup Undecided /\ s \in SettlementStates
  BY MeantAreStates, NamesDiffer DEF Meant
<1>2. PICK q : q = WithIntent(r, s, h)
  OBVIOUS
<1>3. q \in Rows
  BY <1>1, <1>2, WithIntentTyped
<1>4. CASE q = r
  BY <1>2, <1>3, <1>4 DEF RowKept
<1>5. CASE q # r
  <2>1. /\ r.intent # None /\ ValidSettlement(r.intent, s) /\ r.intent \in SettlementStates
        /\ q.intent = s /\ q.hash = h /\ q.order = r.order /\ q.settled = r.settled
    BY <1>1, <1>2, <1>5, WithIntentMoves DEF Rows
  <2>2. /\ r.intent \in Named => s \in Named
        /\ r.intent \in Lost => s \in Lost
        /\ r.intent = "SETTLED" => s = "SETTLED"
    BY <1>1, <2>1, NoReturn
  <2>3. r.hash => r.intent \in Named
    BY DEF RowRests
  <2>4. CASE s \in Undecided
    <3>1. ~r.hash /\ r.hash \in BOOLEAN
      BY <2>2, <2>3, <2>4, NamesDiffer DEF Rows
    <3>2. h = FALSE
      BY <2>4, <3>1, NamesDiffer DEF Meant
    <3> QED
      BY <1>2, <1>3, <2>1, <2>2, <2>4, <3>1, <3>2, NamesDiffer DEF RowRests, RowKept
  <2>5. CASE s \in Lost
    BY <1>2, <1>3, <2>1, <2>5, NamesDiffer DEF RowRests, RowKept
  <2>6. CASE s \in {"DESTINATION_FILLED", "SETTLED"}
    <3>1. h = TRUE
      <4>1. h = TRUE \/ (s = "SETTLED" /\ h = r.hash /\ (r.hash \/ r.intent \in Lost))
        BY <2>6, NamesDiffer DEF Meant
      <4>2. r.intent \notin Lost
        BY <2>2, <2>6, NamesDiffer
      <4> QED
        BY <4>1, <4>2
    <3> QED
      BY <1>2, <1>3, <2>1, <2>2, <2>6, <3>1, NamesDiffer DEF RowRests, RowKept
  <2> QED
    BY <1>1, <2>4, <2>5, <2>6 DEF Named
<1> QED
  BY <1>4, <1>5

LEMMA OrderWrite ==
  ASSUME NEW r \in Rows, NEW s \in SettlementStates, NEW h \in BOOLEAN, NEW f, NEW d,
         RowRests(r, f, d), s = "SETTLED" => f
  PROVE  /\ WithOrder(r, s, h) \in Rows
         /\ RowRests(WithOrder(r, s, h), f, d)
         /\ RowKept(r, WithOrder(r, s, h))
<1>1. PICK q : q = WithOrder(r, s, h)
  OBVIOUS
<1>2. /\ q \in Rows /\ q.intent = r.intent /\ q.hash = r.hash /\ q.settled = r.settled
      /\ q.order \in {r.order, s}
  BY <1>1, WithOrderTyped
<1> QED
  BY <1>1, <1>2 DEF RowRests, RowKept

LEMMA SettlementWrite ==
  ASSUME NEW r \in Rows, NEW f, NEW d, RowRests(r, f, d), f
  PROVE  /\ [r EXCEPT !.settled = TRUE] \in Rows
         /\ RowRests([r EXCEPT !.settled = TRUE], f, d)
         /\ RowKept(r, [r EXCEPT !.settled = TRUE])
BY DEF RowRests, RowKept, Rows

LEMMA KeptOn ==
  ASSUME NEW p, NEW q, NEW r, RowKept(p, q), RowKept(q, r)
  PROVE  RowKept(p, r)
BY DEF RowKept

LEMMA TellWrite ==
  ASSUME Typed, NEW r \in Rows, NEW s, NEW h \in BOOLEAN, NEW f, NEW d,
         RowRests(r, f, d), Meant(r, s, h), s = "SETTLED" => f, s \in Lost => d, Tell(r, s, h)
  PROVE  RowRests(row', f, d) /\ RowKept(r, row')
<1>1. row' = r \/ row' = WithIntent(r, s, h)
  BY DEF Tell
<1> QED
  BY <1>1, IntentWrite DEF RowKept

-----------------------------------------------------------------------------
(***************************************************************************)
(* What the rows may rest on, once true, stays true.                       *)
(***************************************************************************)
\* Every read of a receipt either fails or tells the truth: the engine has
\* RPC providers of its own, or its reads do not fail.
Trusted == Injected \/ "rpc" \notin Faults

Filled == Trusted => bridge.tx = "SUCCESS"

Unfilled ==
  bridge.tx = "REVERTED" \/ bridge.order \in {"REFUNDING", "FAILED"} \/ source.tx = "REVERTED"

Doubtful == trade.doubted \/ bridge.order = "CLAIMED" \/ Unfilled

Rests == RowRests(row, Filled, Doubtful)

LEMMA RestsOn ==
  ASSUME NEW r, NEW f, NEW d, NEW g, NEW e, RowRests(r, f, d), f => g, d => e
  PROVE  RowRests(r, g, e)
BY DEF RowRests

\* A trade whose rows are its own keeps what they rest on.
LEMMA TradeKeepsEvidence ==
  ASSUME RelayInv, RelayNext, UNCHANGED source
  PROVE  /\ Filled => Filled'
         /\ bridge.tx = "SUCCESS" => bridge'.tx = "SUCCESS"
         /\ Doubtful => Doubtful'
<1>0. bridge \in Orders /\ trade \in Trades
  BY DEF RelayInv, Typed
<1>1. CASE BridgeStep \/ ClaimUnlock \/ MineFill
  BY <1>1, BridgeMoves DEF Filled, Doubtful, Unfilled
<1>2. CASE Deposit
  <2>1. /\ bridge'.tx = bridge.tx
        /\ bridge'.order = bridge.order \/ bridge.order = None
        /\ trade'.doubted = trade.doubted
    BY <1>0, <1>2 DEF Deposit, Orders, Trades
  <2> QED
    BY <2>1 DEF Filled, Doubtful, Unfilled, None
<1>3. CASE /\ UNCHANGED bridge
           /\ trade.doubted => trade'.doubted
  BY <1>3 DEF Filled, Doubtful, Unfilled
<1>4. CASE Start \/ SkipRelay \/ EnterRelay \/ VerifyFill \/ TimeOut
  BY <1>0, <1>3, <1>4 DEF Start, SkipRelay, EnterRelay, VerifyFill, TimeOut, Trades
<1>5. CASE PollRunning \/ PollFilled \/ PollUndone
  <2>1. Typed /\ Polling /\ UNCHANGED bridge
    BY <1>5 DEF RelayInv, PollRunning, PollFilled, PollUndone
  <2>2. Counted.doubted = trade.doubted
    BY <2>1, CountedIs
  <2>3. PICK pc : trade' = Counted \/ trade' = [Counted EXCEPT !.seen = TRUE, !.pc = pc]
    BY <1>5 DEF PollRunning, PollFilled, PollUndone
  <2>4. trade'.doubted = trade.doubted
    BY <2>1, <2>2, <2>3, CountedIs DEF Trades
  <2> QED
    BY <1>3, <2>1, <2>4
<1>6. CASE RejectFill
  BY <1>3, <1>6, RejectFillTyped DEF RejectFill
<1>7. CASE DestinationApproval \/ DestinationSwap \/ DestinationVerify \/ SettlementComplete
  BY <1>3, <1>7, TailTyped
<1>8. CASE CrashTrade
  BY <1>3, <1>8, CrashTradeTyped
<1> QED
  BY <1>1, <1>2, <1>4, <1>5, <1>6, <1>7, <1>8 DEF RelayNext, Advance

-----------------------------------------------------------------------------
(***************************************************************************)
(* The trade's writes.                                                     *)
(***************************************************************************)
\* An answer that undoes an intent has its cause at the provider.
LEMMA UndoneHasCause ==
  ASSUME RelayInv, NEW s \in Answers \cap Lost
  PROVE  Doubtful
<1>1. /\ s = "REFUND_PENDING" => bridge.order \in {"REFUNDING", "CLAIMED"}
      /\ s = "FAILED" => bridge.order = "FAILED"
  BY JobIs, AnswersAre DEF RelayInv
<1> QED
  BY <1>1 DEF Lost, Doubtful, Unfilled

LEMMA TradeKeepsRests ==
  ASSUME RelayInv, Rests, RelayNext, UNCHANGED source
  PROVE  Rests' /\ RowKept(row, row')
<1>1. PICK f \in BOOLEAN : f = Filled'
  BY DEF Filled
<1>2. PICK d \in BOOLEAN : d = Doubtful'
  BY DEF Doubtful, Unfilled, RelayInv, Typed, Trades
<1>3. /\ row \in Rows /\ Typed /\ RowRests(row, f, d) /\ RowKept(row, row)
      /\ row.hash \in BOOLEAN /\ row.orderHash \in BOOLEAN
  <2>1. RowRests(row, f, d)
    BY <1>1, <1>2, TradeKeepsEvidence, RestsOn DEF Rests
  <2> QED
    BY <2>1 DEF RelayInv, Typed, RowKept, Rows
<1>4. SUFFICES RowRests(row', f, d) /\ RowKept(row, row')
  BY <1>1, <1>2 DEF Rests
<1>5. /\ Filled => f
      /\ bridge.tx = "SUCCESS" => f
      /\ Doubtful => d
  BY <1>1, <1>2, TradeKeepsEvidence DEF Filled
<1>6. CASE UNCHANGED row
  BY <1>3, <1>6
<1>7. CASE Start /\ row' = Registered
  <2> DEFINE created == IF row.intent = None THEN [row EXCEPT !.intent = "CREATED"] ELSE row
  <2>1. created \in Rows /\ RowRests(created, f, d) /\ RowKept(row, created)
    <3>1. CASE row.intent = None
      <4>1. created = [row EXCEPT !.intent = "CREATED"]
        BY <3>1
      <4>2. created \in Rows
        BY <1>3, <4>1, StatesAre DEF Rows
      <4>3. row.hash = FALSE
        BY <1>3, <3>1, NamesDiffer DEF RowRests
      <4>4. "CREATED" \notin Named /\ "CREATED" \notin Lost /\ "CREATED" # "SETTLED"
        BY DEF Named, Lost
      <4>5. None \notin Lost
        BY NamesDiffer
      <4>6. /\ created.intent = "CREATED" /\ created.hash = FALSE
            /\ created.order = row.order /\ created.settled = row.settled
        BY <1>3, <4>1, <4>3 DEF Rows
      <4> HIDE DEF created
      <4> QED
        BY <1>3, <3>1, <4>2, <4>3, <4>4, <4>5, <4>6 DEF RowRests, RowKept
    <3>2. CASE row.intent # None
      BY <1>3, <3>2
    <3> QED
      BY <3>1, <3>2
  <2> HIDE DEF created
  <2>2. PICK signed : signed = WithIntent(created, "SIGNED", FALSE)
    OBVIOUS
  <2>3. /\ Meant(created, "SIGNED", FALSE) /\ Meant(signed, "SUBMITTED", FALSE)
        /\ "SIGNED" \notin Lost /\ "SUBMITTED" \notin Lost
    BY DEF Meant, Undecided, Lost
  <2>4. signed \in Rows /\ RowRests(signed, f, d) /\ RowKept(created, signed)
    BY <2>1, <2>2, <2>3, IntentWrite
  <2>5. row' = WithIntent(signed, "SUBMITTED", FALSE)
    BY <1>7, <2>2 DEF Registered, created
  <2>6. RowRests(row', f, d) /\ RowKept(signed, row')
    BY <2>3, <2>4, <2>5, IntentWrite
  <2> QED
    BY <2>1, <2>4, <2>6, KeptOn
<1>8. CASE EnterRelay
  <2>1. row' \in Rows /\ row'.intent = row.intent /\ row'.hash = row.hash
        /\ row'.settled = row.settled /\ row'.order = "FULFILLING"
    BY <1>3, <1>8, StatesAre DEF EnterRelay, Rows, Tellable
  <2> QED
    BY <1>3, <2>1 DEF RowRests, RowKept
<1>9. CASE PollRunning \/ TimeOut
  <2>1. PICK s \in {"FULFILLING", "TRACKING_UNAVAILABLE", "TRACKING_TIMEOUT"},
             r \in {row, WithOrder(row, "FULFILLING", row.orderHash)} : Tell(r, s, FALSE)
    BY <1>9 DEF PollRunning, TimeOut
  <2>2. r \in Rows /\ RowRests(r, f, d) /\ RowKept(row, r)
    <3>1. "FULFILLING" \in SettlementStates
      BY StatesAre DEF Tellable
    <3> QED
      BY <1>3, <2>1, <3>1, OrderWrite
  <2>3. Meant(r, s, FALSE) /\ s \notin Lost /\ s # "SETTLED"
    BY DEF Meant, Undecided, Lost
  <2>4. RowRests(row', f, d) /\ RowKept(r, row')
    BY <1>3, <2>1, <2>2, <2>3, TellWrite
  <2> QED
    BY <2>2, <2>4, KeptOn
<1>10. CASE PollFilled
  <2>1. Tell(row, "DESTINATION_FILLED", TRUE)
    BY <1>10 DEF PollFilled
  <2>2. Meant(row, "DESTINATION_FILLED", TRUE) /\ "DESTINATION_FILLED" \notin Lost
    BY DEF Meant, Lost
  <2> QED
    BY <1>3, <2>1, <2>2, TellWrite
<1>11. ASSUME NEW s \in Lost, d,
              Tell(WithIntent(WithOrder(row, s, row.orderHash), s, row.hash), s, FALSE)
       PROVE  RowRests(row', f, d) /\ RowKept(row, row')
  <2>1. PICK o : o = WithOrder(row, s, row.orderHash)
    OBVIOUS
  <2>2. PICK r : r = WithIntent(o, s, row.hash)
    OBVIOUS
  <2>3. s \in SettlementStates /\ s # "SETTLED" /\ \A q, h : Meant(q, s, h)
    BY MeantAreStates, NamesDiffer DEF Meant
  <2>4. o \in Rows /\ RowRests(o, f, d) /\ RowKept(row, o)
    BY <1>3, <2>1, <2>3, OrderWrite
  <2>5. r \in Rows /\ RowRests(r, f, d) /\ RowKept(o, r)
    BY <1>3, <1>11, <2>2, <2>3, <2>4, IntentWrite
  <2>6. RowRests(row', f, d) /\ RowKept(r, row')
    BY <1>3, <1>11, <2>1, <2>2, <2>3, <2>5, TellWrite
  <2> QED
    BY <2>4, <2>5, <2>6, KeptOn
<1>12. CASE PollUndone
  <2>1. PICK s \in Answers \cap Lost :
          Tell(WithIntent(WithOrder(row, s, row.orderHash), s, row.hash), s, FALSE)
    BY <1>12 DEF PollUndone, Lost
  <2> QED
    BY <1>5, <1>11, <2>1, UndoneHasCause
<1>13. CASE RejectFill
  <2>1. d
    <3>1. trade'.doubted \/ bridge.tx = "REVERTED"
      BY <1>13, RejectFillTyped
    <3> QED
      BY <1>2, <1>5, <3>1 DEF Doubtful, Unfilled
  <2>2. Tell(WithIntent(WithOrder(row, "FAILED", row.orderHash), "FAILED", row.hash),
             "FAILED", FALSE)
    BY <1>13 DEF RejectFill
  <2>3. "FAILED" \in Lost
    BY DEF Lost
  <2> QED
    BY <1>11, <2>1, <2>2, <2>3
<1>14. CASE VerifyFill
  <2>1. f
    BY <1>5, <1>14, VerdictIsOfFill DEF VerifyFill
  <2>2. "SETTLED" \in SettlementStates /\ "SETTLED" \notin Lost /\ \A q : Meant(q, "SETTLED", TRUE)
    BY MeantAreStates, NamesDiffer DEF Meant
  <2>3. PICK o : o = WithOrder(row, "SETTLED", TRUE)
    OBVIOUS
  <2>4. PICK r : r = WithIntent(o, "SETTLED", TRUE)
    OBVIOUS
  <2>5. o \in Rows /\ RowRests(o, f, d) /\ RowKept(row, o)
    BY <1>3, <2>1, <2>2, <2>3, OrderWrite
  <2>6. r \in Rows /\ RowRests(r, f, d) /\ RowKept(o, r)
    BY <2>1, <2>2, <2>4, <2>5, IntentWrite
  <2>7. SettledRow = [r EXCEPT !.settled = TRUE]
    BY <2>3, <2>4 DEF SettledRow
  <2>8. SettledRow \in Rows /\ RowRests(SettledRow, f, d) /\ RowKept(r, SettledRow)
    BY <2>1, <2>6, <2>7, SettlementWrite
  <2>9. RowRests(row', f, d) /\ RowKept(SettledRow, row')
    BY <1>3, <1>14, <2>1, <2>2, <2>8, TellWrite DEF VerifyFill
  <2> QED
    BY <2>5, <2>6, <2>8, <2>9, KeptOn
<1>15. CASE Start
  <2>1. UNCHANGED row \/ row' = Registered
    BY <1>15 DEF Start
  <2> QED
    BY <1>6, <1>7, <1>15, <2>1
<1>16. CASE \/ Deposit \/ SkipRelay \/ BridgeStep \/ ClaimUnlock \/ MineFill \/ CrashTrade
            \/ DestinationApproval \/ DestinationSwap \/ DestinationVerify \/ SettlementComplete
  <2>1. UNCHANGED row
    BY <1>16 DEF Deposit, SkipRelay, BridgeStep, ClaimUnlock, MineFill, CrashTrade,
       DestinationApproval, DestinationSwap, DestinationVerify, SettlementComplete
  <2> QED
    BY <1>6, <2>1
<1> QED
  BY <1>8, <1>9, <1>10, <1>12, <1>13, <1>14, <1>15, <1>16 DEF RelayNext, Advance

-----------------------------------------------------------------------------
(***************************************************************************)
(* The inductive invariant of the composition.                             *)
(***************************************************************************)
Recs == [pc : Recovering \cup {"idle"}, status : SettlementStates \cup {None},
         hash : BOOLEAN, ordered : BOOLEAN]

Recons == [pc : {"idle", "provider", "receipt", "write", "intent", "record"},
           hash : BOOLEAN, provider : SettlementStates \cup {None},
           receipt : {None, "CONFIRMED", "REVERTED"}]

OwnTyped ==
  /\ source \in [tx : {None, "PENDING", "CONFIRMED", "REVERTED"}, step : {None, "ACTIVE", "FAILED"}]
  /\ lease \in [owner : Workers \cup {NoWorker}, over : BOOLEAN]
  /\ rec \in [Workers -> Recs]
  /\ recon \in Recons
  /\ lapsed \subseteq Workers
  /\ visits \in 0..MaxVisits

\* Rows another client keeps are there before their deposit is mined, and
\* their trade is not run here.
SourceOK ==
  /\ source.tx # None => At("idle") /\ row.intent # None
  /\ source.tx \in {"PENDING", "REVERTED"} => bridge.order = None
  /\ At("idle") /\ bridge.order # None => source.tx = "CONFIRMED"

\* What worker w goes by: the row it read is there; it settles over a fill
\* only; a hash it copied is still in the row, unless the intent was lost.
WorkerOK(w) ==
  /\ ~RecAt(w, "idle") => row.intent # None
  /\ rec[w].pc \in {"intent", "order", "record"} => Filled
  /\ rec[w].hash => row.hash \/ row.intent \in Lost

LeaseOK(w) == Inside(w) /\ w \notin lapsed => lease.owner = w /\ ~lease.over

ReconOK ==
  recon.receipt = "CONFIRMED" \/ recon.pc \in {"intent", "record"} => bridge.tx = "SUCCESS"

SettlementInv ==
  /\ RelayInv
  /\ OwnTyped
  /\ Rests
  /\ SourceOK
  /\ \A w \in Workers : WorkerOK(w)
  /\ \A w \in Workers : LeaseOK(w)
  /\ ReconOK

LEMMA SettlementInvInit == Init => SettlementInv
<1> SUFFICES ASSUME Init PROVE SettlementInv
  OBVIOUS
<1>1. RelayInv
  BY RelayInvInit DEF Init
<1>2. OwnTyped
  BY SettlementAssumption DEF Init, OwnTyped, Recs, Recons, Idle, Resting
<1>3. Rests
  BY NamesDiffer DEF Init, RelayInit, Rests, RowRests, None
<1>4. SourceOK /\ ReconOK
  BY DEF Init, RelayInit, SourceOK, ReconOK, Resting, None
<1>5. \A w \in Workers : WorkerOK(w) /\ LeaseOK(w)
  BY DEF Init, WorkerOK, LeaseOK, Idle, RecAt, Inside, Recovering
<1> QED
  BY <1>1, <1>2, <1>3, <1>4, <1>5 DEF SettlementInv

\* A step that keeps the evidence and the row's promises keeps what a worker
\* that stays where it is goes by.
LEMMA WorkerStays ==
  ASSUME NEW w \in Workers, WorkerOK(w), rec'[w] = rec[w], Filled => Filled', RowKept(row, row')
  PROVE  WorkerOK(w)'
BY DEF WorkerOK, RecAt, RowKept

LEMMA LeaseStays ==
  ASSUME NEW w \in Workers, LeaseOK(w), rec'[w] = rec[w], UNCHANGED <<lease, lapsed>>
  PROVE  LeaseOK(w)'
BY DEF LeaseOK, Inside

\* A trade is left idle, or its order was on its way.
LEMMA TradeLeavesIdle ==
  ASSUME RelayInv, RelayNext
  PROVE  \/ trade'.pc # "idle"
         \/ (BridgeStep \/ ClaimUnlock \/ MineFill)
<1>0. trade \in Trades
  BY DEF RelayInv, Typed
<1>1. CASE \/ Start \/ Deposit \/ SkipRelay \/ EnterRelay \/ VerifyFill \/ RejectFill \/ TimeOut
           \/ CrashTrade
  BY <1>0, <1>1 DEF Start, Deposit, SkipRelay, EnterRelay, VerifyFill, RejectFill, TimeOut,
     CrashTrade, Trades, At
<1>2. CASE DestinationApproval \/ DestinationSwap \/ DestinationVerify \/ SettlementComplete
  BY <1>2, TailTyped
<1>3. CASE PollRunning \/ PollFilled \/ PollUndone
  <2>1. Typed /\ Polling /\ trade.pc = "polling"
    BY <1>3 DEF RelayInv, PollRunning, PollFilled, PollUndone, Polling, At
  <2>2. Counted \in Trades /\ Counted.pc = "polling"
    BY <2>1, CountedIs
  <2>3. PICK pc \in {"polling", "verifying", "threw", "refunded"} :
          trade' = Counted \/ trade' = [Counted EXCEPT !.seen = TRUE, !.pc = pc]
    BY <1>3 DEF PollRunning, PollFilled, PollUndone
  <2> QED
    BY <2>2, <2>3 DEF Trades
<1> QED
  BY <1>1, <1>2, <1>3 DEF RelayNext, Advance

LEMMA TradeStep ==
  ASSUME SettlementInv, Trade
  PROVE  SettlementInv'
<1>1. RelayNext /\ UNCHANGED ownVars
  BY DEF Trade, RelayNext
<1>2. UNCHANGED <<source, lease, rec, recon, lapsed, visits>>
  BY <1>1 DEF ownVars
<1>3. RelayInv'
  BY <1>1, RelayInvStep DEF SettlementInv
<1>4. Rests' /\ RowKept(row, row')
  BY <1>1, <1>2, TradeKeepsRests DEF SettlementInv
<1>5. (Filled => Filled') /\ (bridge.tx = "SUCCESS" => bridge'.tx = "SUCCESS")
  BY <1>1, <1>2, TradeKeepsEvidence DEF SettlementInv
<1>6. SourceOK'
  <2>1. CASE BridgeStep \/ ClaimUnlock \/ MineFill
    <3>1. UNCHANGED <<trade, row>> /\ bridge.order # None
      BY <2>1, BridgeMoves DEF SettlementInv
    <3> QED
      BY <1>2, <3>1 DEF SettlementInv, SourceOK, At
  <2>2. CASE source.tx = None /\ trade'.pc # "idle"
    BY <1>2, <2>2 DEF SourceOK, At, None
  <2> QED
    BY <1>1, <2>1, <2>2, TradeLeavesIdle DEF Trade, SettlementInv
<1>7. \A w \in Workers : WorkerOK(w)'
  BY <1>2, <1>4, <1>5, WorkerStays DEF SettlementInv
<1>8. \A w \in Workers : LeaseOK(w)'
  BY <1>2, LeaseStays DEF SettlementInv
<1>9. OwnTyped' /\ ReconOK'
  BY <1>2, <1>5 DEF SettlementInv, OwnTyped, ReconOK
<1> QED
  BY <1>3, <1>4, <1>6, <1>7, <1>8, <1>9 DEF SettlementInv

-----------------------------------------------------------------------------
(***************************************************************************)
(* A write of the row alone, by whoever makes it.                          *)
(***************************************************************************)
LEMMA RowWritten ==
  ASSUME SettlementInv, UNCHANGED <<job, bridge, trade, engine, machine, relay>>,
         source'.tx = source.tx,
         row' \in Rows, RowRests(row', Filled, Doubtful), RowKept(row, row')
  PROVE  /\ RelayInv' /\ Rests' /\ SourceOK'
         /\ Filled' = Filled
         /\ bridge'.tx = bridge.tx
<1>1. RelayInv'
  BY DEF SettlementInv, RelayInv, Typed, StepOK, OrderOK, At
<1>2. Rests'
  BY DEF Rests, RowRests, Filled, Doubtful, Unfilled
<1>3. SourceOK'
  BY DEF SettlementInv, SourceOK, At, RowKept
<1> QED
  BY <1>1, <1>2, <1>3 DEF Filled

LEMMA RowUntouched ==
  ASSUME SettlementInv, UNCHANGED relayVars
  PROVE  /\ UNCHANGED <<job, bridge, trade, engine, machine, relay>>
         /\ row' = row
         /\ row' \in Rows /\ RowRests(row', Filled, Doubtful) /\ RowKept(row, row')
BY DEF SettlementInv, RelayInv, Typed, Rests, RowKept, relayVars

\* An awaited update is applied, and its writer goes on, or refused.
LEMMA Updated ==
  ASSUME SettlementInv, NEW w \in Workers, ~RecAt(w, "idle"),
         NEW s, NEW h \in BOOLEAN, NEW pc \in Recovering, Update(w, s, h, pc),
         Meant(row, s, h), s = "SETTLED" => Filled, s \in Lost => Doubtful
  PROVE  /\ UNCHANGED <<job, bridge, trade, engine, machine, relay>>
         /\ row' \in Rows /\ RowRests(row', Filled, Doubtful) /\ RowKept(row, row')
         /\ RecTo(w, pc) \/ RecTo(w, "release")
<1>1. /\ row \in Rows /\ row.intent # None
      /\ RowRests(row, Filled, Doubtful) /\ RowKept(row, row)
  BY DEF SettlementInv, RelayInv, Typed, Rests, WorkerOK, RowKept
<1>2. CASE ValidSettlement(row.intent, s)
  <2>1. row' = WithIntent(row, s, h) /\ RecTo(w, pc)
        /\ UNCHANGED <<job, bridge, trade, engine, machine, relay>>
    BY <1>1, <1>2 DEF Update, Write, WithIntent
  <2> QED
    BY <1>1, <2>1, IntentWrite
<1>3. CASE ~ValidSettlement(row.intent, s)
  <2>1. UNCHANGED relayVars /\ RecTo(w, "release")
    BY <1>3 DEF Update
  <2> QED
    BY <2>1, RowUntouched
<1> QED
  BY <1>2, <1>3

\* A worker's step in which it alone moves, from inside to pc.
LEMMA WorkerMoves ==
  ASSUME SettlementInv, NEW w \in Workers, Inside(w),
         NEW pc \in Recovering \ {"claim"}, NEW o \in BOOLEAN,
         rec' = [rec EXCEPT ![w].pc = pc] \/ rec' = [rec EXCEPT ![w].ordered = o, ![w].pc = pc],
         UNCHANGED <<job, bridge, trade, engine, machine, relay>>,
         row' \in Rows, RowRests(row', Filled, Doubtful), RowKept(row, row'),
         source' = source \/ source' = [source EXCEPT !.step = "FAILED"],
         UNCHANGED <<lease, recon, lapsed, visits>>,
         pc \in {"intent", "order", "record"} => Filled
  PROVE  SettlementInv'
<1>1. /\ rec \in [Workers -> Recs]
      /\ source'.tx = source.tx
      /\ source' \in [tx : {None, "PENDING", "CONFIRMED", "REVERTED"},
                      step : {None, "ACTIVE", "FAILED"}]
  BY DEF SettlementInv, OwnTyped
<1>2. PICK q \in Recs : /\ rec' = [rec EXCEPT ![w] = q]
                        /\ q.pc = pc /\ q.hash = rec[w].hash
  <2>1. rec[w] \in Recs
    BY <1>1
  <2>2. CASE rec' = [rec EXCEPT ![w].pc = pc]
    <3>1. PICK q : q = [rec[w] EXCEPT !.pc = pc]
      OBVIOUS
    <3>2. q \in Recs /\ q.pc = pc /\ q.hash = rec[w].hash
      BY <2>1, <3>1 DEF Recs
    <3> QED
      BY <2>2, <3>1, <3>2
  <2>3. CASE rec' = [rec EXCEPT ![w].ordered = o, ![w].pc = pc]
    <3>1. PICK q : q = [rec[w] EXCEPT !.ordered = o, !.pc = pc]
      OBVIOUS
    <3>2. q \in Recs /\ q.pc = pc /\ q.hash = rec[w].hash
      BY <2>1, <3>1 DEF Recs
    <3>3. rec' = [rec EXCEPT ![w] = q]
      BY <1>1, <2>3, <3>1
    <3> QED
      BY <3>2, <3>3
  <2> QED
    BY <2>2, <2>3
<1>3. /\ RelayInv' /\ Rests' /\ SourceOK'
      /\ Filled' = Filled
      /\ bridge'.tx = bridge.tx
  BY <1>1, RowWritten
<1>4. /\ rec' \in [Workers -> Recs]
      /\ rec'[w] = q
      /\ \A u \in Workers \ {w} : rec'[u] = rec[u]
  BY <1>1, <1>2
<1>5. OwnTyped' /\ ReconOK'
  BY <1>1, <1>3, <1>4 DEF SettlementInv, OwnTyped, ReconOK
<1>6. ASSUME NEW u \in Workers PROVE WorkerOK(u)'
  <2>1. CASE u # w
    BY <1>3, <1>4, <2>1, WorkerStays DEF SettlementInv
  <2>2. CASE u = w
    <3>1. ~RecAt(w, "idle")
      BY DEF Inside, RecAt, Recovering
    <3>2. row'.intent # None /\ (rec[w].hash => row'.hash \/ row'.intent \in Lost)
      BY <3>1 DEF SettlementInv, WorkerOK, RowKept
    <3> QED
      BY <1>2, <1>3, <1>4, <2>2, <3>2 DEF WorkerOK, RecAt
  <2> QED
    BY <2>1, <2>2
<1>7. ASSUME NEW u \in Workers PROVE LeaseOK(u)'
  <2>1. CASE u # w
    BY <1>4, <2>1, LeaseStays DEF SettlementInv
  <2>2. CASE u = w
    BY <2>2 DEF SettlementInv, LeaseOK
  <2> QED
    BY <2>1, <2>2
<1> QED
  BY <1>3, <1>5, <1>6, <1>7 DEF SettlementInv

-----------------------------------------------------------------------------
(***************************************************************************)
(* recoverIntent.                                                          *)
(***************************************************************************)
\* A query that says reverted is right; one that is accepted is right if
\* reads can be trusted.
LEMMA QueriedTells ==
  ASSUME NEW tx \in {None, "PENDING", "SUCCESS", "CONFIRMED", "REVERTED"}, NEW q \in Queried(tx)
  PROVE  /\ q \in {"PENDING", "CONFIRMED", "REVERTED", "UNKNOWN_MOCKED"}
         /\ q = "REVERTED" => tx = "REVERTED"
         /\ Trusted /\ q \in Accepted => tx \in {"SUCCESS", "CONFIRMED"}
<1> USE DEF Queried, Accepted, Trusted, None
<1>1. CASE tx = None
  BY <1>1
<1>2. CASE tx = "PENDING"
  BY <1>2
<1>3. CASE tx \in {"SUCCESS", "CONFIRMED"}
  BY <1>3
<1>4. CASE tx = "REVERTED"
  BY <1>4
<1> QED
  BY <1>1, <1>2, <1>3, <1>4

LEMMA FillQueried ==
  ASSUME SettlementInv, NEW q \in Queried(bridge.tx)
  PROVE  /\ q \in {"PENDING", "REVERTED"} \cup Accepted
         /\ q = "REVERTED" => Doubtful
         /\ q \in Accepted => Filled
<1>1. bridge.tx \in {None, "PENDING", "SUCCESS", "CONFIRMED", "REVERTED"} /\ bridge.tx # "CONFIRMED"
  BY DEF SettlementInv, RelayInv, Typed, Orders, None
<1> QED
  BY <1>1, QueriedTells DEF Doubtful, Unfilled, Filled, Accepted

LEMMA InsideIs ==
  ASSUME SettlementInv, NEW w \in Workers, Inside(w)
  PROVE  /\ ~RecAt(w, "idle") /\ row.intent # None
         /\ row \in Rows /\ row.hash \in BOOLEAN /\ row.orderHash \in BOOLEAN
         /\ RowRests(row, Filled, Doubtful)
<1>1. ~RecAt(w, "idle")
  BY DEF Inside, RecAt, Recovering
<1> QED
  BY <1>1 DEF SettlementInv, RelayInv, Typed, Rests, WorkerOK, Rows

LEMMA RecoverSourceStep ==
  ASSUME SettlementInv, NEW w \in Workers, RecoverSource(w)
  PROVE  SettlementInv'
<1>1. Inside(w) /\ UNCHANGED <<lease, recon, lapsed, visits>>
  BY DEF RecoverSource, Inside, RecAt, Recovering
<1>2. /\ ~RecAt(w, "idle") /\ row.hash \in BOOLEAN
  BY <1>1, InsideIs
<1>3. PICK on \in {"provider", "hash"} : on = IF row.order # None THEN "provider" ELSE "hash"
  OBVIOUS
<1>4. PICK o \in BOOLEAN : o = (row.order # None)
  OBVIOUS
<1>5. /\ on \in Recovering \ {"claim"} /\ on \notin {"intent", "order", "record"}
      /\ "release" \in Recovering \ {"claim"}
      /\ "release" \notin {"intent", "order", "record"}
  BY DEF Recovering
<1>6. CASE rec' = [rec EXCEPT ![w].ordered = o, ![w].pc = on] /\ UNCHANGED <<relayVars, source>>
  <2>1. /\ UNCHANGED <<job, bridge, trade, engine, machine, relay>>
        /\ row' \in Rows /\ RowRests(row', Filled, Doubtful) /\ RowKept(row, row')
    BY <1>6, RowUntouched
  <2> QED
    BY <1>1, <1>5, <1>6, <2>1, WorkerMoves
<1>7. CASE source.tx # None
  <2>1. PICK q \in Queried(source.tx) :
          CASE q = "REVERTED" ->
                 /\ Update(w, "FAILED", row.hash, "release")
                 /\ source' = IF ValidSettlement(row.intent, "FAILED")
                              THEN [source EXCEPT !.step = "FAILED"] ELSE source
            [] q = "CONFIRMED" /\ rec[w].status = "CREATED" ->
                 Update(w, "FULFILLING", row.hash, on) /\ UNCHANGED source
            [] OTHER ->
                 /\ rec' = [rec EXCEPT ![w].ordered = o, ![w].pc = on]
                 /\ UNCHANGED <<relayVars, source>>
    BY <1>3, <1>4, <1>7 DEF RecoverSource
  <2>2. CASE q = "REVERTED"
    <3>1. Update(w, "FAILED", row.hash, "release")
          /\ (source' = source \/ source' = [source EXCEPT !.step = "FAILED"])
      BY <2>1, <2>2
    <3>2. Doubtful
      <4>1. source.tx \in {None, "PENDING", "SUCCESS", "CONFIRMED", "REVERTED"}
        BY DEF SettlementInv, OwnTyped
      <4> QED
        BY <2>2, <4>1, QueriedTells DEF Doubtful, Unfilled
    <3>3. "FAILED" \in Lost /\ Meant(row, "FAILED", row.hash) /\ "FAILED" # "SETTLED"
      BY DEF Lost, Meant
    <3>4. /\ UNCHANGED <<job, bridge, trade, engine, machine, relay>>
          /\ row' \in Rows /\ RowRests(row', Filled, Doubtful) /\ RowKept(row, row')
          /\ RecTo(w, "release")
      <4>1. "release" \in Recovering
        BY <1>5
      <4> QED
        BY <1>2, <3>1, <3>2, <3>3, <4>1, Updated
    <3> QED
      BY <1>1, <1>5, <3>1, <3>4, WorkerMoves DEF RecTo
  <2>3. CASE q = "CONFIRMED" /\ rec[w].status = "CREATED"
    <3>1. Update(w, "FULFILLING", row.hash, on) /\ UNCHANGED source
      BY <2>1, <2>3
    <3>2. "FULFILLING" \notin Lost /\ Meant(row, "FULFILLING", row.hash)
      BY DEF Lost, Meant, Undecided
    <3>3. /\ UNCHANGED <<job, bridge, trade, engine, machine, relay>>
          /\ row' \in Rows /\ RowRests(row', Filled, Doubtful) /\ RowKept(row, row')
          /\ RecTo(w, on) \/ RecTo(w, "release")
      BY <1>2, <1>5, <3>1, <3>2, Updated
    <3> QED
      BY <1>1, <1>5, <3>1, <3>3, WorkerMoves DEF RecTo
  <2>4. CASE q # "REVERTED" /\ ~(q = "CONFIRMED" /\ rec[w].status = "CREATED")
    BY <1>6, <2>1, <2>4
  <2> QED
    BY <2>2, <2>3, <2>4
<1>8. CASE source.tx = None
  BY <1>3, <1>4, <1>6, <1>8 DEF RecoverSource
<1> QED
  BY <1>7, <1>8

\* The steps that only move the worker.
LEMMA RecoverProviderStep ==
  ASSUME SettlementInv, NEW w \in Workers, RecoverProvider(w)
  PROVE  SettlementInv'
<1>1. Inside(w) /\ UNCHANGED <<source, lease, recon, lapsed, visits>> /\ UNCHANGED relayVars
  BY DEF RecoverProvider, Inside, RecAt, Recovering, RecOnly
<1>2. PICK pc \in {"fill", "hash"} : RecTo(w, pc)
  BY DEF RecoverProvider
<1>3. pc \in Recovering \ {"claim"} /\ pc \notin {"intent", "order", "record"}
  BY DEF Recovering
<1>4. /\ UNCHANGED <<job, bridge, trade, engine, machine, relay>>
      /\ row' \in Rows /\ RowRests(row', Filled, Doubtful) /\ RowKept(row, row')
  BY <1>1, RowUntouched
<1> QED
  BY <1>1, <1>2, <1>3, <1>4, WorkerMoves DEF RecTo

LEMMA RecoverFillStep ==
  ASSUME SettlementInv, NEW w \in Workers, RecoverFill(w)
  PROVE  SettlementInv'
<1>1. Inside(w) /\ UNCHANGED <<source, lease, recon, lapsed, visits>>
  BY DEF RecoverFill, Inside, RecAt, Recovering
<1>2. /\ ~RecAt(w, "idle") /\ row.hash \in BOOLEAN /\ row \in Rows
      /\ RowRests(row, Filled, Doubtful)
  BY <1>1, InsideIs
<1>3. {"intent", "release", "hash"} \subseteq Recovering \ {"claim"}
  BY DEF Recovering
<1>4. PICK q \in Queried(bridge.tx) :
       \/ q \in Accepted /\ Write(WithOrder(row, "SETTLED", TRUE)) /\ RecTo(w, "intent")
       \/ q = "REVERTED" /\ Update(w, "FAILED", row.hash, "release")
       \/ q = "PENDING" /\ RecTo(w, "hash") /\ UNCHANGED relayVars
  BY DEF RecoverFill
<1>5. CASE q \in Accepted /\ Write(WithOrder(row, "SETTLED", TRUE)) /\ RecTo(w, "intent")
  <2>1. Filled
    BY <1>5, FillQueried
  <2>2. "SETTLED" \in SettlementStates
    BY MeantAreStates, NamesDiffer
  <2>3. /\ UNCHANGED <<job, bridge, trade, engine, machine, relay>>
        /\ row' \in Rows /\ RowRests(row', Filled, Doubtful) /\ RowKept(row, row')
    BY <1>2, <1>5, <2>1, <2>2, OrderWrite DEF Write
  <2> QED
    BY <1>1, <1>3, <1>5, <2>1, <2>3, WorkerMoves DEF RecTo
<1>6. CASE q = "REVERTED" /\ Update(w, "FAILED", row.hash, "release")
  <2>1. Doubtful
    BY <1>6, FillQueried
  <2>2. "FAILED" \in Lost /\ Meant(row, "FAILED", row.hash) /\ "FAILED" # "SETTLED"
    BY DEF Lost, Meant
  <2>3. /\ UNCHANGED <<job, bridge, trade, engine, machine, relay>>
        /\ row' \in Rows /\ RowRests(row', Filled, Doubtful) /\ RowKept(row, row')
        /\ RecTo(w, "release")
    BY <1>2, <1>3, <1>6, <2>1, <2>2, Updated
  <2> QED
    BY <1>1, <1>3, <2>3, WorkerMoves DEF RecTo
<1>7. CASE q = "PENDING" /\ RecTo(w, "hash") /\ UNCHANGED relayVars
  <2>1. /\ UNCHANGED <<job, bridge, trade, engine, machine, relay>>
        /\ row' \in Rows /\ RowRests(row', Filled, Doubtful) /\ RowKept(row, row')
    BY <1>7, RowUntouched
  <2> QED
    BY <1>1, <1>3, <1>7, <2>1, WorkerMoves DEF RecTo
<1> QED
  BY <1>4, <1>5, <1>6, <1>7

LEMMA RecoverIntentRowStep ==
  ASSUME SettlementInv, NEW w \in Workers, RecoverIntentRow(w)
  PROVE  SettlementInv'
<1>1. /\ Inside(w) /\ UNCHANGED <<source, lease, recon, lapsed, visits>>
      /\ Update(w, "SETTLED", TRUE, "record")
  BY DEF RecoverIntentRow, Inside, RecAt, Recovering
<1>2. ~RecAt(w, "idle") /\ Filled
  BY <1>1, InsideIs DEF SettlementInv, WorkerOK, RecoverIntentRow, RecAt
<1>3. {"record", "release"} \subseteq Recovering \ {"claim"}
  BY DEF Recovering
<1>4. Meant(row, "SETTLED", TRUE) /\ "SETTLED" \notin Lost
  BY DEF Meant, Lost
<1>5. /\ UNCHANGED <<job, bridge, trade, engine, machine, relay>>
      /\ row' \in Rows /\ RowRests(row', Filled, Doubtful) /\ RowKept(row, row')
      /\ RecTo(w, "record") \/ RecTo(w, "release")
  BY <1>1, <1>2, <1>3, <1>4, Updated
<1> QED
  BY <1>1, <1>2, <1>3, <1>5, WorkerMoves DEF RecTo

LEMMA RecoverRecordStep ==
  ASSUME SettlementInv, NEW w \in Workers, RecoverRecord(w)
  PROVE  SettlementInv'
<1>1. /\ Inside(w) /\ UNCHANGED <<source, lease, recon, lapsed, visits>>
      /\ Write([row EXCEPT !.settled = TRUE]) /\ RecTo(w, "release")
  BY DEF RecoverRecord, Inside, RecAt, Recovering
<1>2. Filled
  BY DEF SettlementInv, WorkerOK, RecoverRecord, RecAt
<1>3. /\ UNCHANGED <<job, bridge, trade, engine, machine, relay>>
      /\ row' \in Rows /\ RowRests(row', Filled, Doubtful) /\ RowKept(row, row')
  BY <1>1, <1>2, InsideIs, SettlementWrite DEF Write
<1>4. "release" \in Recovering \ {"claim"}
  BY DEF Recovering
<1> QED
  BY <1>1, <1>3, <1>4, WorkerMoves DEF RecTo

LEMMA RecoverOrderRowStep ==
  ASSUME SettlementInv, NEW w \in Workers, RecoverOrderRow(w)
  PROVE  SettlementInv'
<1>1. /\ Inside(w) /\ UNCHANGED <<source, lease, recon, lapsed, visits>>
      /\ RecTo(w, "record")
  BY DEF RecoverOrderRow, Inside, RecAt, Recovering
<1>2. Filled
  BY DEF SettlementInv, WorkerOK, RecoverOrderRow, RecAt
<1>3. "SETTLED" \in SettlementStates /\ row \in Rows /\ RowRests(row, Filled, Doubtful)
      /\ RowKept(row, row)
  BY <1>1, MeantAreStates, NamesDiffer, InsideIs DEF RowKept
<1>4. UNCHANGED <<job, bridge, trade, engine, machine, relay>>
      /\ (row' = row \/ row' = WithOrder(row, "SETTLED", TRUE))
  BY DEF RecoverOrderRow, Write
<1>5. row' \in Rows /\ RowRests(row', Filled, Doubtful) /\ RowKept(row, row')
  BY <1>2, <1>3, <1>4, OrderWrite
<1>6. "record" \in Recovering \ {"claim"}
  BY DEF Recovering
<1> QED
  BY <1>1, <1>2, <1>4, <1>5, <1>6, WorkerMoves DEF RecTo

\* The hash was copied when the intent was not lost: if it is not lost now,
\* the row still has it.
LEMMA RecoverHashStep ==
  ASSUME SettlementInv, NEW w \in Workers, RecoverHash(w)
  PROVE  SettlementInv'
<1>1. Inside(w) /\ UNCHANGED <<source, lease, recon, lapsed, visits>>
  BY DEF RecoverHash, Inside, RecAt, Recovering
<1>2. ~RecAt(w, "idle") /\ row.hash \in BOOLEAN
  BY <1>1, InsideIs
<1>3. {"order", "release"} \subseteq Recovering \ {"claim"}
  BY DEF Recovering
<1>4. CASE RecTo(w, "release") /\ UNCHANGED relayVars
  <2>1. /\ UNCHANGED <<job, bridge, trade, engine, machine, relay>>
        /\ row' \in Rows /\ RowRests(row', Filled, Doubtful) /\ RowKept(row, row')
    BY <1>4, RowUntouched
  <2> QED
    BY <1>1, <1>3, <1>4, <2>1, WorkerMoves DEF RecTo
<1>5. ASSUME NEW q \in Queried(bridge.tx), q \in Accepted, rec[w].hash,
             Update(w, "SETTLED", row.hash, "order")
      PROVE  SettlementInv'
  <2>1. Filled
    BY <1>5, FillQueried
  <2>2. Meant(row, "SETTLED", row.hash) /\ "SETTLED" \notin Lost
    BY <1>5, NamesDiffer DEF Meant, SettlementInv, WorkerOK
  <2>3. /\ UNCHANGED <<job, bridge, trade, engine, machine, relay>>
        /\ row' \in Rows /\ RowRests(row', Filled, Doubtful) /\ RowKept(row, row')
        /\ RecTo(w, "order") \/ RecTo(w, "release")
    BY <1>2, <1>3, <1>5, <2>1, <2>2, Updated
  <2> QED
    BY <1>1, <1>3, <2>1, <2>3, WorkerMoves DEF RecTo
<1>6. ASSUME NEW q \in Queried(bridge.tx), q = "REVERTED", Update(w, "FAILED", row.hash, "release")
      PROVE  SettlementInv'
  <2>1. Doubtful
    BY <1>6, FillQueried
  <2>2. "FAILED" \in Lost /\ Meant(row, "FAILED", row.hash) /\ "FAILED" # "SETTLED"
    BY DEF Lost, Meant
  <2>3. /\ UNCHANGED <<job, bridge, trade, engine, machine, relay>>
        /\ row' \in Rows /\ RowRests(row', Filled, Doubtful) /\ RowKept(row, row')
        /\ RecTo(w, "release")
    BY <1>2, <1>3, <1>6, <2>1, <2>2, Updated
  <2> QED
    BY <1>1, <1>3, <2>3, WorkerMoves DEF RecTo
<1> QED
  BY <1>4, <1>5, <1>6 DEF RecoverHash

-----------------------------------------------------------------------------
(***************************************************************************)
(* The lease, the crash and the reading of the row.                        *)
(***************************************************************************)
\* The rows and the trade stay; the worker is at rest, or has just begun.
LEMMA RowsStay ==
  ASSUME SettlementInv, UNCHANGED <<relayVars, source>>
  PROVE  /\ RelayInv' /\ Rests' /\ SourceOK'
         /\ Filled' = Filled
         /\ bridge'.tx = bridge.tx
         /\ RowKept(row, row')
         /\ row' = row
<1>1. UNCHANGED relayVars /\ source' = source
  OBVIOUS
<1> QED
  BY <1>1, RowWritten, RowUntouched

LEMMA WorkerBegins ==
  ASSUME SettlementInv, NEW w \in Workers, NEW q \in Recs, rec' = [rec EXCEPT ![w] = q],
         UNCHANGED <<relayVars, source>>,
         q.pc \in {"idle", "claim", "source"},
         q.pc # "idle" => row.intent # None,
         q.hash => row.hash \/ row.intent \in Lost
  PROVE  /\ RelayInv' /\ Rests' /\ SourceOK'
         /\ rec' \in [Workers -> Recs] /\ rec'[w] = q
         /\ \A u \in Workers : u # w => rec'[u] = rec[u]
         /\ \A u \in Workers : WorkerOK(u)'
         /\ bridge'.tx = bridge.tx
<1>1. /\ RelayInv' /\ Rests' /\ SourceOK'
      /\ Filled' = Filled
      /\ bridge'.tx = bridge.tx
      /\ RowKept(row, row')
      /\ row' = row
  BY RowsStay
<1>2. /\ rec' \in [Workers -> Recs] /\ rec'[w] = q
      /\ \A u \in Workers : u # w => rec'[u] = rec[u]
  BY DEF SettlementInv, OwnTyped
<1>3. WorkerOK(w)'
  BY <1>1, <1>2 DEF WorkerOK, RecAt
<1>4. ASSUME NEW u \in Workers, u # w PROVE WorkerOK(u)'
  BY <1>1, <1>2, <1>4, WorkerStays DEF SettlementInv
<1> QED
  BY <1>1, <1>2, <1>3, <1>4

LEMMA IdleIs == Idle \in Recs /\ Idle.pc = "idle" /\ Idle.hash = FALSE
BY DEF Idle, Recs

\* Out of the lease's reach: nothing is claimed.
LEMMA NotInside ==
  ASSUME NEW w \in Workers, rec'[w].pc \in {"idle", "claim"}
  PROVE  LeaseOK(w)'
BY DEF LeaseOK, Inside, Recovering

LEMMA RecoverReadStep ==
  ASSUME SettlementInv, NEW w \in Workers, RecoverRead(w)
  PROVE  SettlementInv'
<1>1. PICK q : q = [pc |-> "claim", status |-> row.intent, hash |-> row.hash, ordered |-> FALSE]
  OBVIOUS
<1>2. q \in Recs /\ q.pc = "claim" /\ q.hash = row.hash
  BY <1>1 DEF SettlementInv, RelayInv, Typed, Rows, Recs, Recovering
<1>3. /\ rec' = [rec EXCEPT ![w] = q] /\ row.intent # None
      /\ UNCHANGED <<relayVars, source>> /\ UNCHANGED <<lease, recon, lapsed>>
      /\ visits < MaxVisits /\ visits' = visits + 1
  BY <1>1 DEF RecoverRead, Visit
<1>4. /\ RelayInv' /\ Rests' /\ SourceOK'
      /\ rec' \in [Workers -> Recs] /\ rec'[w] = q
      /\ \A u \in Workers : u # w => rec'[u] = rec[u]
      /\ \A u \in Workers : WorkerOK(u)'
      /\ bridge'.tx = bridge.tx
  BY <1>2, <1>3, WorkerBegins
<1>5. \A u \in Workers : LeaseOK(u)'
  BY <1>2, <1>3, <1>4, LeaseStays, NotInside DEF SettlementInv
<1>6. OwnTyped' /\ ReconOK'
  BY <1>3, <1>4, SettlementAssumption DEF SettlementInv, OwnTyped, ReconOK
<1> QED
  BY <1>4, <1>5, <1>6 DEF SettlementInv

\* Whoever takes the lease, no worker inside that still has it loses it.
LEMMA RecoverClaimStep ==
  ASSUME SettlementInv, NEW w \in Workers, RecoverClaim(w)
  PROVE  SettlementInv'
<1>1. /\ rec \in [Workers -> Recs] /\ rec[w].pc = "claim"
      /\ UNCHANGED <<relayVars, source>> /\ UNCHANGED <<recon, visits>>
  BY DEF SettlementInv, OwnTyped, RecoverClaim, RecAt
<1>2. row.intent # None /\ (rec[w].hash => row.hash \/ row.intent \in Lost)
  BY <1>1 DEF SettlementInv, WorkerOK, RecAt
<1>3. CASE /\ lease.owner \in {NoWorker, w} \/ lease.over
           /\ lease' = [owner |-> w, over |-> FALSE]
           /\ lapsed' = lapsed \ {w}
           /\ RecTo(w, "source")
  <2>1. PICK q : q = [rec[w] EXCEPT !.pc = "source"]
    OBVIOUS
  <2>2. q \in Recs /\ q.pc = "source" /\ q.hash = rec[w].hash
    BY <1>1, <2>1 DEF Recs, Recovering
  <2>3. rec' = [rec EXCEPT ![w] = q]
    BY <1>1, <1>3, <2>1 DEF RecTo
  <2>4. /\ RelayInv' /\ Rests' /\ SourceOK'
        /\ rec' \in [Workers -> Recs] /\ rec'[w] = q
        /\ \A u \in Workers : u # w => rec'[u] = rec[u]
        /\ \A u \in Workers : WorkerOK(u)'
        /\ bridge'.tx = bridge.tx
    BY <1>1, <1>2, <2>2, <2>3, WorkerBegins
  <2>5. ASSUME NEW u \in Workers PROVE LeaseOK(u)'
    <3>1. CASE u = w
      BY <1>3, <3>1 DEF LeaseOK
    <3>2. CASE u # w
      <4>1. Inside(u)' => Inside(u)
        BY <2>4, <3>2 DEF Inside
      <4>2. ~(Inside(u) /\ u \notin lapsed)
        BY <1>3, <3>2, SettlementAssumption DEF SettlementInv, LeaseOK
      <4> QED
        BY <1>3, <3>2, <4>1, <4>2 DEF LeaseOK
    <3> QED
      BY <3>1, <3>2
  <2>6. OwnTyped' /\ ReconOK'
    BY <1>1, <1>3, <2>4 DEF SettlementInv, OwnTyped, ReconOK
  <2> QED
    BY <2>4, <2>5, <2>6 DEF SettlementInv
<1>4. CASE rec' = [rec EXCEPT ![w] = Idle] /\ UNCHANGED <<lease, lapsed>>
  <2>1. /\ RelayInv' /\ Rests' /\ SourceOK'
        /\ rec' \in [Workers -> Recs] /\ rec'[w] = Idle
        /\ \A u \in Workers : u # w => rec'[u] = rec[u]
        /\ \A u \in Workers : WorkerOK(u)'
        /\ bridge'.tx = bridge.tx
    BY <1>1, <1>4, IdleIs, WorkerBegins
  <2>2. \A u \in Workers : LeaseOK(u)'
    BY <1>4, <2>1, IdleIs, LeaseStays, NotInside DEF SettlementInv
  <2>3. OwnTyped' /\ ReconOK'
    BY <1>1, <1>4, <2>1 DEF SettlementInv, OwnTyped, ReconOK
  <2> QED
    BY <2>1, <2>2, <2>3 DEF SettlementInv
<1> QED
  BY <1>3, <1>4 DEF RecoverClaim

\* A worker that leaves frees the lease only if it is still its own.
LEMMA RecoverReleaseStep ==
  ASSUME SettlementInv, NEW w \in Workers, RecoverRelease(w)
  PROVE  SettlementInv'
<1>1. /\ rec' = [rec EXCEPT ![w] = Idle] /\ lease' = IF lease.owner = w THEN FreeLease ELSE lease
      /\ UNCHANGED <<relayVars, source>> /\ UNCHANGED <<recon, lapsed, visits>>
  BY DEF RecoverRelease
<1>2. /\ RelayInv' /\ Rests' /\ SourceOK'
      /\ rec' \in [Workers -> Recs] /\ rec'[w] = Idle
      /\ \A u \in Workers : u # w => rec'[u] = rec[u]
      /\ \A u \in Workers : WorkerOK(u)'
      /\ bridge'.tx = bridge.tx
  BY <1>1, IdleIs, WorkerBegins
<1>3. ASSUME NEW u \in Workers PROVE LeaseOK(u)'
  <2>1. CASE u = w
    BY <1>2, <2>1, IdleIs, NotInside
  <2>2. CASE u # w
    <3>1. (Inside(u)' <=> Inside(u)) /\ lapsed' = lapsed
      BY <1>1, <1>2, <2>2 DEF Inside
    <3> QED
      BY <1>1, <2>2, <3>1 DEF SettlementInv, LeaseOK
  <2> QED
    BY <2>1, <2>2
<1>4. OwnTyped' /\ ReconOK'
  BY <1>1, <1>2 DEF SettlementInv, OwnTyped, ReconOK, FreeLease
<1> QED
  BY <1>2, <1>3, <1>4 DEF SettlementInv

LEMMA CrashRecovererStep ==
  ASSUME SettlementInv, NEW w \in Workers, CrashRecoverer(w)
  PROVE  SettlementInv'
<1>1. /\ rec' = [rec EXCEPT ![w] = Idle]
      /\ UNCHANGED <<relayVars, source>> /\ UNCHANGED <<lease, recon, lapsed, visits>>
  BY DEF CrashRecoverer, RecOnly
<1>2. /\ RelayInv' /\ Rests' /\ SourceOK'
      /\ rec' \in [Workers -> Recs] /\ rec'[w] = Idle
      /\ \A u \in Workers : u # w => rec'[u] = rec[u]
      /\ \A u \in Workers : WorkerOK(u)'
      /\ bridge'.tx = bridge.tx
  BY <1>1, IdleIs, WorkerBegins
<1>3. \A u \in Workers : LeaseOK(u)'
  BY <1>1, <1>2, IdleIs, LeaseStays, NotInside DEF SettlementInv
<1>4. OwnTyped' /\ ReconOK'
  BY <1>1, <1>2 DEF SettlementInv, OwnTyped, ReconOK
<1> QED
  BY <1>2, <1>3, <1>4 DEF SettlementInv

LEMMA LapseLeaseStep ==
  ASSUME SettlementInv, LapseLease
  PROVE  SettlementInv'
<1>1. /\ UNCHANGED <<relayVars, source>> /\ UNCHANGED <<rec, recon, visits>>
      /\ lease.owner \in Workers
      /\ lease' = [lease EXCEPT !.over = TRUE]
      /\ lapsed' = IF Inside(lease.owner) THEN lapsed \cup {lease.owner} ELSE lapsed
  BY DEF LapseLease, SettlementInv, OwnTyped
<1>2. /\ RelayInv' /\ Rests' /\ SourceOK'
      /\ Filled' = Filled
      /\ bridge'.tx = bridge.tx
      /\ RowKept(row, row')
      /\ row' = row
  BY <1>1, RowsStay
<1>3. \A u \in Workers : WorkerOK(u)'
  BY <1>1, <1>2, WorkerStays DEF SettlementInv
<1>4. ASSUME NEW u \in Workers PROVE LeaseOK(u)'
  <2>1. Inside(u)' <=> Inside(u)
    BY <1>1 DEF Inside
  <2>2. SUFFICES ASSUME Inside(u), u \notin lapsed' PROVE lease'.owner = u /\ ~lease'.over
    BY <2>1 DEF LeaseOK
  <2>3. u \notin lapsed
    BY <1>1, <2>2
  <2>4. lease.owner = u
    BY <2>2, <2>3 DEF SettlementInv, LeaseOK
  <2> QED
    BY <1>1, <2>2, <2>4
<1>5. OwnTyped' /\ ReconOK'
  BY <1>1, <1>2 DEF SettlementInv, OwnTyped, ReconOK
<1> QED
  BY <1>2, <1>3, <1>4, <1>5 DEF SettlementInv

-----------------------------------------------------------------------------
(***************************************************************************)
(* The reconciler, and the client that keeps its own rows.                 *)
(***************************************************************************)
LEMMA ReconMoves ==
  ASSUME SettlementInv,
         UNCHANGED <<source, lease, rec, lapsed>>, visits' \in 0..MaxVisits,
         UNCHANGED <<job, bridge, trade, engine, machine, relay>>,
         row' \in Rows, RowRests(row', Filled, Doubtful), RowKept(row, row'),
         recon' \in Recons, ReconOK'
  PROVE  SettlementInv'
<1>1. source'.tx = source.tx
  OBVIOUS
<1>2. /\ RelayInv' /\ Rests' /\ SourceOK'
      /\ Filled' = Filled
  BY <1>1, RowWritten
<1>3. \A u \in Workers : WorkerOK(u)'
  BY <1>2, WorkerStays DEF SettlementInv
<1>4. \A u \in Workers : LeaseOK(u)'
  BY LeaseStays DEF SettlementInv
<1>5. OwnTyped'
  BY DEF SettlementInv, OwnTyped
<1> QED
  BY <1>2, <1>3, <1>4, <1>5 DEF SettlementInv

LEMMA RestingIs ==
  /\ Resting \in Recons /\ Resting.receipt = None /\ Resting.pc = "idle"
  /\ [Resting EXCEPT !.pc = "intent"] \in Recons
  /\ [Resting EXCEPT !.pc = "intent"].receipt = None
BY DEF Resting, Recons

LEMMA ReconReadStep ==
  ASSUME SettlementInv, ReconRead \/ ReconProvider \/ ReconReceipt
  PROVE  SettlementInv'
<1>1. UNCHANGED relayVars /\ UNCHANGED <<source, lease, rec, lapsed>>
  BY DEF ReconRead, ReconProvider, ReconReceipt, ReconRest
<1>2. visits' \in 0..MaxVisits
  <2>1. visits \in 0..MaxVisits /\ MaxVisits \in Nat
    BY SettlementAssumption DEF SettlementInv, OwnTyped
  <2>2. UNCHANGED visits \/ (visits < MaxVisits /\ visits' = visits + 1)
    BY DEF ReconRead, ReconProvider, ReconReceipt, ReconRest, Visit
  <2> QED
    BY <2>1, <2>2
<1>3. /\ UNCHANGED <<job, bridge, trade, engine, machine, relay>>
      /\ row' \in Rows /\ RowRests(row', Filled, Doubtful) /\ RowKept(row, row')
  BY <1>1, RowUntouched
<1>4. recon \in Recons /\ row \in Rows
  BY DEF SettlementInv, OwnTyped, RelayInv, Typed
<1>5. CASE ReconRead
  <2>1. recon' \in Recons /\ recon'.pc = "provider" /\ recon'.receipt = recon.receipt
    BY <1>4, <1>5 DEF ReconRead, Recons, Rows
  <2> QED
    BY <1>1, <1>2, <1>3, <2>1, ReconMoves DEF ReconOK, SettlementInv
<1>6. CASE ReconProvider
  <2>1. Answers \subseteq SettlementStates
    BY JobIs, AnswersAre, StatesAre DEF SettlementInv, RelayInv
  <2>2. PICK a \in SettlementStates : recon' = [recon EXCEPT !.pc = "receipt", !.provider = a]
    BY <1>6, <2>1 DEF ReconProvider
  <2>3. recon' \in Recons /\ recon'.pc = "receipt" /\ recon'.receipt = recon.receipt
    BY <1>4, <2>2 DEF Recons
  <2> QED
    BY <1>1, <1>2, <1>3, <2>3, ReconMoves DEF ReconOK, SettlementInv
<1>7. CASE ReconReceipt
  <2>1. bridge.tx \in {None, "PENDING", "SUCCESS", "REVERTED"}
    BY DEF SettlementInv, RelayInv, Typed, Orders
  <2>2. PICK r \in {None} \cup
       (IF recon.hash \/ recon.provider = "DESTINATION_FILLED"
        THEN {[NONE |-> None, PENDING |-> None, SUCCESS |-> "CONFIRMED",
               REVERTED |-> "REVERTED"][bridge.tx]} ELSE {}) :
       recon' = [recon EXCEPT !.pc = "write", !.receipt = r]
    BY <1>7 DEF ReconReceipt
  <2>3. /\ r \in {None, "CONFIRMED", "REVERTED"}
        /\ r = "CONFIRMED" => bridge.tx = "SUCCESS"
    BY <2>1, <2>2 DEF None
  <2>4. recon' \in Recons /\ recon'.pc = "write" /\ recon'.receipt = r
    BY <1>4, <2>2, <2>3 DEF Recons
  <2> QED
    BY <1>1, <1>2, <1>3, <2>3, <2>4, ReconMoves DEF ReconOK
<1> QED
  BY <1>5, <1>6, <1>7

LEMMA ReconWriteStep ==
  ASSUME SettlementInv, ReconWrite \/ ReconIntent \/ ReconRecord
  PROVE  SettlementInv'
<1>1. UNCHANGED <<source, lease, rec, lapsed>> /\ visits' \in 0..MaxVisits
  BY DEF ReconWrite, ReconIntent, ReconRecord, ReconRest, SettlementInv, OwnTyped
<1>2. /\ recon \in Recons /\ row \in Rows /\ row.orderHash \in BOOLEAN
      /\ RowRests(row, Filled, Doubtful) /\ RowKept(row, row)
      /\ UNCHANGED relayVars => row' = row /\ UNCHANGED <<job, bridge, trade, engine, machine, relay>>
  BY DEF SettlementInv, OwnTyped, RelayInv, Typed, Rows, Rests, RowKept, relayVars
<1>3. CASE ReconWrite
  <2>1. PICK v : v = ReconVerdict
    OBVIOUS
  <2>2. /\ v = None \/ v \in SettlementStates
        /\ v = "SETTLED" => bridge.tx = "SUCCESS"
    BY <2>1, StatesAre DEF ReconVerdict, SettlementInv, ReconOK, Tellable, None
  <2>3. PICK h \in BOOLEAN : h = IF v \in {"SETTLED", "DESTINATION_FILLED"}
                                 THEN TRUE ELSE row.orderHash
    BY <1>2
  <2>4. /\ IF v = None THEN UNCHANGED relayVars ELSE Write(WithOrder(row, v, h))
        /\ recon' = IF v = "SETTLED" THEN [Resting EXCEPT !.pc = "intent"] ELSE Resting
    BY <1>3, <2>1, <2>3 DEF ReconWrite
  <2>5. UNCHANGED <<job, bridge, trade, engine, machine, relay>>
    BY <1>2, <2>4 DEF Write
  <2>6. row' \in Rows /\ RowRests(row', Filled, Doubtful) /\ RowKept(row, row')
    <3>1. CASE v = None
      BY <1>2, <2>4, <3>1
    <3>2. CASE v # None
      <4>1. row' = WithOrder(row, v, h) /\ v \in SettlementStates
        BY <2>2, <2>4, <3>2 DEF Write
      <4>2. v = "SETTLED" => Filled
        BY <2>2 DEF Filled
      <4> QED
        BY <1>2, <4>1, <4>2, OrderWrite
    <3> QED
      BY <3>1, <3>2
  <2>7. recon' \in Recons /\ ReconOK'
    BY <2>2, <2>4, <2>5, RestingIs DEF ReconOK, None
  <2> QED
    BY <1>1, <2>5, <2>6, <2>7, ReconMoves
<1>4. CASE ReconIntent
  <2>1. bridge.tx = "SUCCESS" /\ Filled
    BY <1>4 DEF SettlementInv, ReconOK, ReconIntent, Filled
  <2>2. Meant(row, "SETTLED", TRUE) /\ "SETTLED" \notin Lost
    BY DEF Meant, Lost
  <2>3. /\ UNCHANGED <<job, bridge, trade, engine, machine, relay>>
        /\ row' = WithIntent(row, "SETTLED", TRUE)
        /\ recon' = [recon EXCEPT !.pc = "record"]
    BY <1>4 DEF ReconIntent, Write
  <2>4. row' \in Rows /\ RowRests(row', Filled, Doubtful) /\ RowKept(row, row')
    BY <1>2, <2>1, <2>2, <2>3, IntentWrite
  <2>5. recon' \in Recons /\ ReconOK'
    BY <1>2, <2>1, <2>3 DEF Recons, ReconOK
  <2> QED
    BY <1>1, <2>3, <2>4, <2>5, ReconMoves
<1>5. CASE ReconRecord
  <2>1. Filled
    BY <1>5 DEF SettlementInv, ReconOK, ReconRecord, Filled
  <2>2. /\ UNCHANGED <<job, bridge, trade, engine, machine, relay>>
        /\ row' = [row EXCEPT !.settled = TRUE]
        /\ recon' = Resting
    BY <1>5 DEF ReconRecord, Write
  <2>3. row' \in Rows /\ RowRests(row', Filled, Doubtful) /\ RowKept(row, row')
    BY <1>2, <2>1, <2>2, SettlementWrite
  <2>4. recon' \in Recons /\ ReconOK'
    BY <2>2, RestingIs DEF ReconOK, None
  <2> QED
    BY <1>1, <2>2, <2>3, <2>4, ReconMoves
<1> QED
  BY <1>3, <1>4, <1>5

LEMMA SubmissionStep ==
  ASSUME SettlementInv, RecordSourceSubmission
  PROVE  SettlementInv'
<1>1. /\ UNCHANGED <<job, bridge, trade, engine, machine, relay>>
      /\ UNCHANGED <<lease, rec, recon, lapsed, visits>>
      /\ At("idle") /\ row.intent = None
      /\ row' = [row EXCEPT !.intent = "FULFILLING", !.order = "FULFILLING"]
      /\ source' = [tx |-> "PENDING", step |-> "ACTIVE"]
  BY DEF RecordSourceSubmission
<1>2. row \in Rows /\ RowRests(row, Filled, Doubtful)
  BY DEF SettlementInv, RelayInv, Typed, Rests
<1>3. source.tx = None /\ bridge.order = None
  <2>1. source.tx = None
    BY <1>1 DEF SettlementInv, SourceOK
  <2> QED
    BY <1>1, <2>1 DEF SettlementInv, SourceOK, None
<1>4. /\ row' \in Rows /\ row'.intent = "FULFILLING" /\ row'.order = "FULFILLING"
      /\ row'.hash = row.hash /\ row'.settled = row.settled
  BY <1>1, <1>2, StatesAre DEF Rows, Tellable
<1>5. row.hash = FALSE
  BY <1>1, <1>2, NamesDiffer DEF RowRests, Rows
<1>6. "FULFILLING" \notin Named /\ "FULFILLING" # None
  BY DEF Named, Lost, None
<1>7. Rests'
  <2>1. RowRests(row', Filled, Doubtful)
    BY <1>2, <1>4, <1>5, <1>6, NamesDiffer DEF RowRests
  <2> QED
    BY <1>1, <1>4, <1>6, <2>1, NamesDiffer DEF Rests, RowRests, Filled
<1>8. RowKept(row, row')
  BY <1>1, <1>4, <1>5, <1>6, NamesDiffer DEF RowKept
<1>9. RelayInv' /\ SourceOK'
  BY <1>1, <1>3, <1>4, <1>6 DEF SettlementInv, RelayInv, Typed, StepOK, OrderOK, At, SourceOK
<1>10. \A u \in Workers : WorkerOK(u)'
  BY <1>1, <1>8, WorkerStays DEF SettlementInv, Filled
<1>11. \A u \in Workers : LeaseOK(u)'
  BY <1>1, LeaseStays DEF SettlementInv
<1>12. OwnTyped' /\ ReconOK'
  BY <1>1 DEF SettlementInv, OwnTyped, ReconOK
<1> QED
  BY <1>7, <1>9, <1>10, <1>11, <1>12 DEF SettlementInv

LEMMA MineSourceStep ==
  ASSUME SettlementInv, MineSource
  PROVE  SettlementInv'
<1>1. /\ UNCHANGED <<job, trade, engine, machine, relay, row>>
      /\ UNCHANGED <<lease, rec, recon, lapsed, visits>>
      /\ source.tx = "PENDING" /\ source'.tx \in {"CONFIRMED", "REVERTED"}
      /\ source' \in [tx : {None, "PENDING", "CONFIRMED", "REVERTED"},
                      step : {None, "ACTIVE", "FAILED"}]
      /\ bridge \in Orders
  BY DEF MineSource, SettlementInv, OwnTyped, RelayInv, Typed
<1>2. bridge.order = None /\ bridge.tx = None /\ At("idle") /\ row.intent # None
  BY <1>1 DEF SettlementInv, SourceOK, RelayInv, OrderOK, None
<1>3. /\ bridge' \in Orders /\ bridge'.tx = None
      /\ bridge'.order \in {None, "SENT"}
      /\ bridge'.order = "SENT" => source'.tx = "CONFIRMED"
      /\ source'.tx = "REVERTED" => bridge'.order = None
  BY <1>1, <1>2 DEF MineSource, SettlementInv, OwnTyped, Orders, None
<1>4. RelayInv'
  BY <1>1, <1>3 DEF SettlementInv, RelayInv, Typed, StepOK, OrderOK, At, None
<1>5. /\ Filled' = Filled
      /\ Doubtful => Doubtful'
  BY <1>1, <1>2, <1>3 DEF Filled, Doubtful, Unfilled, None
<1>6. Rests'
  BY <1>1, <1>5 DEF SettlementInv, Rests, RowRests
<1>7. SourceOK'
  BY <1>1, <1>2, <1>3 DEF SourceOK, At, None
<1>8. RowKept(row, row')
  BY <1>1 DEF RowKept
<1>9. \A u \in Workers : WorkerOK(u)'
  BY <1>1, <1>5, <1>8, WorkerStays DEF SettlementInv
<1>10. \A u \in Workers : LeaseOK(u)'
  BY <1>1, LeaseStays DEF SettlementInv
<1>11. OwnTyped' /\ ReconOK'
  BY <1>1, <1>2, <1>3 DEF SettlementInv, OwnTyped, ReconOK, None
<1> QED
  BY <1>4, <1>6, <1>7, <1>9, <1>10, <1>11 DEF SettlementInv

-----------------------------------------------------------------------------
(***************************************************************************)
(* The invariant holds, and what follows from it.                          *)
(***************************************************************************)
LEMMA SettlementInvStep == SettlementInv /\ [Next]_vars => SettlementInv'
<1> SUFFICES ASSUME SettlementInv, [Next]_vars PROVE SettlementInv'
  OBVIOUS
<1>1. CASE UNCHANGED vars
  <2>1. UNCHANGED <<relayVars, source>> /\ UNCHANGED <<lease, rec, recon, lapsed, visits>>
    BY <1>1 DEF vars, ownVars
  <2>2. /\ RelayInv' /\ Rests' /\ SourceOK'
        /\ Filled' = Filled
        /\ bridge'.tx = bridge.tx
        /\ RowKept(row, row')
    BY <2>1, RowsStay
  <2>3. \A u \in Workers : WorkerOK(u)' /\ LeaseOK(u)'
    BY <2>1, <2>2, WorkerStays, LeaseStays DEF SettlementInv
  <2>4. OwnTyped' /\ ReconOK'
    BY <2>1, <2>2 DEF SettlementInv, OwnTyped, ReconOK
  <2> QED
    BY <2>2, <2>3, <2>4 DEF SettlementInv
<1>2. CASE Trade \/ RecordSourceSubmission \/ MineSource \/ LapseLease
  BY <1>2, TradeStep, SubmissionStep, MineSourceStep, LapseLeaseStep
<1>3. ASSUME NEW w \in Workers, RecoverRead(w) \/ Recover(w) \/ CrashRecoverer(w)
      PROVE  SettlementInv'
  BY <1>3, RecoverReadStep, RecoverClaimStep, RecoverSourceStep, RecoverProviderStep,
     RecoverFillStep, RecoverIntentRowStep, RecoverRecordStep, RecoverHashStep,
     RecoverOrderRowStep, RecoverReleaseStep, CrashRecovererStep DEF Recover
<1>4. CASE Reconcile
  BY <1>4, ReconReadStep, ReconWriteStep DEF Reconcile
<1> QED
  BY <1>1, <1>2, <1>3, <1>4 DEF Next

LEMMA SettlementInvHolds == Spec => []SettlementInv
BY SettlementInvInit, SettlementInvStep, PTL DEF Spec

\* Where reads of receipts can be trusted, a row that says SETTLED and a
\* settlement record rest on a mined fill: of the tracker's, the recoverers'
\* and the reconciler's stale copies none settles anything else.
THEOREM SettlementsAreFilled ==
  ASSUME Injected \/ "rpc" \notin Faults
  PROVE  Spec => []SettlementIsFilled
<1>1. Trusted
  BY DEF Trusted
<1>2. SettlementInv => SettlementIsFilled
  <2> SUFFICES ASSUME SettlementInv PROVE SettlementIsFilled
    OBVIOUS
  <2>1. SettlementTypeOK
    BY TypesAre DEF SettlementInv, RelayInv, OwnTyped, SettlementTypeOK, Recs, Recons
  <2>2. row.settled \/ "SETTLED" \in {row.intent, row.order} => bridge.tx = "SUCCESS"
    BY <1>1 DEF SettlementInv, Rests, RowRests, Filled
  <2> QED
    BY <2>1, <2>2 DEF SettlementIsFilled
<1> QED
  BY <1>2, SettlementInvHolds, PTL

\* The writers erase and keep hashes by turns and write over older copies,
\* but the status that lets an intent settle is lost before its hash is.
THEOREM SettledIntentsAreNamed == Spec => []SettledIsNamed
<1>1. SettlementInv => SettledIsNamed
  BY DEF SettlementInv, Rests, RowRests, SettledIsNamed
<1> QED
  BY <1>1, SettlementInvHolds, PTL

\* An intent is lost over a mined fill only through the tracker's doubt or a
\* claim that reads as a refund; recoverers and the reconciler undo no fill.
THEOREM FillsAreLostByDoubt == Spec => []FailedFillWasDoubted
<1>1. SettlementInv => FailedFillWasDoubted
  <2> SUFFICES ASSUME SettlementInv, row.intent \in Lost, bridge.tx = "SUCCESS"
               PROVE  trade.doubted \/ bridge.order = "CLAIMED"
    BY DEF FailedFillWasDoubted, Lost
  <2>1. Doubtful
    BY DEF SettlementInv, Rests, RowRests
  <2>2. bridge.order \notin {None, "REFUNDING", "FAILED"}
    BY DEF SettlementInv, RelayInv, OrderOK, None
  <2>3. source.tx # "REVERTED"
    BY <2>2 DEF SettlementInv, SourceOK
  <2> QED
    BY <2>1, <2>2, <2>3 DEF Doubtful, Unfilled
<1> QED
  BY <1>1, SettlementInvHolds, PTL

\* A worker inside recoverIntent keeps the lease it claimed until its time is
\* over: no other's claim, release or crash takes it away.
THEOREM WorkersInsideHoldTheLease == Spec => []InsideHoldsLease
<1>1. SettlementInv => InsideHoldsLease
  BY DEF SettlementInv, LeaseOK, InsideHoldsLease
<1> QED
  BY <1>1, SettlementInvHolds, PTL

-----------------------------------------------------------------------------
(***************************************************************************)
(* The escrow.  First what sums over orders are, as the provers have no    *)
(* induction over data: a set closed under successor is all of Nat.        *)
(***************************************************************************)
\* A product of larger factors is no smaller.
LEMMA MulUp ==
  ASSUME NEW a \in Nat, NEW b \in Nat, NEW c \in Nat, NEW d \in Nat, a <= b, c <= d
  PROVE  a * c <= b * d /\ a * c \in Nat
<1>1. a * c <= b * c
  OBVIOUS
<1>2. b * c <= b * d
  OBVIOUS
<1>3. a * c \in Nat /\ b * c \in Nat /\ b * d \in Nat
  OBVIOUS
<1> QED
  BY <1>1, <1>2, <1>3

\* A quotient is the floor.
LEMMA DivFloor ==
  ASSUME NEW n \in Nat, NEW d \in Nat \ {0}
  PROVE  /\ n \div d \in Nat
         /\ d * (n \div d) <= n
         /\ n < d * (n \div d) + d
OBVIOUS

\* A set of numbers with 0 and the successor of each of its members is Nat.
LEMMA Induction ==
  ASSUME NEW S, 0 \in S, \A k \in Nat : k \in S => k + 1 \in S
  PROVE  \A k \in Nat : k \in S
<1> DEFINE T == {k \in Nat : k \notin S}
<1>1. SUFFICES ASSUME NEW k \in T PROVE FALSE
  OBVIOUS
<1>2. PICK z \in T : \A x \in T : ~ (<<x, z>> \in OpToRel(<, Nat))
  BY <1>1, NatLessThanWellFounded, WFMin
<1>0. z \in Nat /\ z \notin S
  OBVIOUS
<1>3. z # 0 /\ z - 1 \in Nat /\ z - 1 < z /\ z = (z - 1) + 1
  <2>1. z # 0
    BY <1>0
  <2> QED
    BY <1>0, <2>1
<1>4. \A x \in T : ~(x < z)
  BY <1>2 DEF OpToRel
<1>5. z - 1 \in S
  BY <1>0, <1>3, <1>4
<1> QED
  BY <1>0, <1>3, <1>5

\* s holds the partial sums of f.
SumsUp(s, n, f) ==
  /\ s \in [0..n -> Nat]
  /\ s[0] = 0
  /\ \A i \in 1..n : s[i] = s[i - 1] + f[i]

LEMMA PartialSums ==
  ASSUME NEW n \in Nat, NEW f \in [1..n -> Nat]
  PROVE  \E s : SumsUp(s, n, f)
<1> DEFINE S == {k \in Nat : k <= n => \E s : SumsUp(s, k, f)}
<1>1. 0 \in S
  <2>1. SumsUp([i \in 0..0 |-> 0], 0, f)
    BY DEF SumsUp
  <2> QED
    BY <2>1
<1>2. ASSUME NEW k \in Nat, k \in S PROVE k + 1 \in S
  <2> SUFFICES ASSUME k + 1 <= n PROVE \E s : SumsUp(s, k + 1, f)
    OBVIOUS
  <2>1. PICK s : SumsUp(s, k, f)
    BY <1>2
  <2> DEFINE t == [i \in 0..k + 1 |-> IF i = k + 1 THEN s[k] + f[k + 1] ELSE s[i]]
  <2>2. f[k + 1] \in Nat /\ s[k] \in Nat /\ \A i \in 0..k : s[i] \in Nat
    BY <2>1 DEF SumsUp
  <2>3. t \in [0..k + 1 -> Nat] /\ t[0] = 0
    BY <2>1, <2>2 DEF SumsUp
  <2>4. ASSUME NEW i \in 1..k + 1 PROVE t[i] = t[i - 1] + f[i]
    <3>1. CASE i = k + 1
      BY <3>1
    <3>2. CASE i # k + 1
      <4>1. i \in 1..k /\ i - 1 \in 0..k /\ i - 1 # k + 1
        BY <3>2
      <4> QED
        BY <2>1, <4>1 DEF SumsUp
    <3> QED
      BY <3>1, <3>2
  <2>5. SumsUp(t, k + 1, f)
    BY <2>3, <2>4 DEF SumsUp
  <2> QED
    BY <2>5
<1> HIDE DEF S
<1>3. n \in S
  BY <1>1, <1>2, Induction
<1> QED
  BY <1>3 DEF S

LEMMA SumsAgree ==
  ASSUME NEW n \in Nat, NEW f, NEW s, NEW t, SumsUp(s, n, f), SumsUp(t, n, f)
  PROVE  s[n] = t[n]
<1> DEFINE S == {k \in Nat : k <= n => s[k] = t[k]}
<1>1. 0 \in S
  BY DEF SumsUp
<1>2. ASSUME NEW k \in Nat, k \in S PROVE k + 1 \in S
  <2> SUFFICES ASSUME k + 1 <= n PROVE s[k + 1] = t[k + 1]
    OBVIOUS
  <2>1. k + 1 \in 1..n /\ (k + 1) - 1 = k /\ s[k] = t[k]
    BY <1>2
  <2>2. s[k + 1] = s[(k + 1) - 1] + f[k + 1] /\ t[k + 1] = t[(k + 1) - 1] + f[k + 1]
    BY <2>1 DEF SumsUp
  <2> QED
    BY <2>1, <2>2
<1> HIDE DEF S
<1>3. n \in S
  BY <1>1, <1>2, Induction
<1> QED
  BY <1>3 DEF S

\* What Total adds up.
LEMMA TotalIs ==
  ASSUME NEW n \in Nat, NEW f \in [1..n -> Nat], NEW s, SumsUp(s, n, f)
  PROVE  Total(n, f) = s[n]
<1> DEFINE Step(r) == [i \in 0..n |-> IF i = 0 THEN 0 ELSE r[i - 1] + f[i]]
           r == CHOOSE q : q = Step(q)
<1>1. s = Step(s)
  <2>1. s = [i \in 0..n |-> s[i]]
    BY DEF SumsUp
  <2>2. \A i \in 0..n : s[i] = IF i = 0 THEN 0 ELSE s[i - 1] + f[i]
    BY DEF SumsUp
  <2> QED
    BY <2>1, <2>2
<1>2. r = Step(r)
  BY <1>1
<1>3. SumsUp(r, n, f)
  <2> HIDE DEF r
  <2>1. DOMAIN r = 0..n /\ \A i \in 0..n : r[i] = IF i = 0 THEN 0 ELSE r[i - 1] + f[i]
    BY <1>2
  <2> DEFINE S == {k \in Nat : k <= n => r[k] \in Nat}
  <2>2. 0 \in S
    BY <2>1
  <2>3. ASSUME NEW k \in Nat, k \in S PROVE k + 1 \in S
    <3> SUFFICES ASSUME k + 1 <= n PROVE r[k + 1] \in Nat
      OBVIOUS
    <3>1. k + 1 \in 0..n /\ k + 1 \in 1..n /\ (k + 1) - 1 = k /\ k + 1 # 0
      OBVIOUS
    <3>2. f[k + 1] \in Nat /\ r[k] \in Nat
      BY <2>3, <3>1
    <3> QED
      BY <2>1, <3>1, <3>2
  <2> HIDE DEF S
  <2>4. \A k \in Nat : k \in S
    BY <2>2, <2>3, Induction
  <2>5. \A i \in 0..n : r[i] \in Nat
    BY <2>4 DEF S
  <2>6. r = [i \in 0..n |-> r[i]]
    BY <1>2
  <2>7. r \in [0..n -> Nat]
    BY <2>5, <2>6
  <2> QED
    BY <2>1, <2>7 DEF SumsUp
<1>4. Total(n, f) = r[n]
  BY DEF Total
<1> QED
  BY <1>3, <1>4, SumsAgree

LEMMA TotalCounts ==
  ASSUME NEW n \in Nat, NEW f \in [1..n -> Nat]
  PROVE  Total(n, f) \in Nat
<1>1. PICK s : SumsUp(s, n, f)
  BY PartialSums
<1>2. Total(n, f) = s[n] /\ n \in 0..n
  BY <1>1, TotalIs
<1> QED
  BY <1>1, <1>2 DEF SumsUp

\* One more order adds its share.
LEMMA TotalOfMore ==
  ASSUME NEW n \in Nat, NEW f \in [1..n -> Nat], NEW g \in [1..n + 1 -> Nat],
         \A i \in 1..n : g[i] = f[i]
  PROVE  Total(n + 1, g) = Total(n, f) + g[n + 1]
<1>1. PICK s : SumsUp(s, n + 1, g)
  BY PartialSums
<1> DEFINE t == [i \in 0..n |-> s[i]]
<1>2. SumsUp(t, n, f)
  <2>1. t \in [0..n -> Nat] /\ t[0] = 0
    BY <1>1 DEF SumsUp
  <2>2. ASSUME NEW i \in 1..n PROVE t[i] = t[i - 1] + f[i]
    <3>1. i \in 1..n + 1 /\ i \in 0..n /\ i - 1 \in 0..n
      OBVIOUS
    <3> QED
      BY <1>1, <3>1 DEF SumsUp
  <2> QED
    BY <2>1, <2>2 DEF SumsUp
<1>3. Total(n + 1, g) = s[n + 1] /\ Total(n, f) = s[n]
  <2>1. Total(n + 1, g) = s[n + 1]
    BY <1>1, TotalIs
  <2>2. Total(n, f) = t[n]
    BY <1>2, TotalIs
  <2> QED
    BY <2>1, <2>2
<1>4. n + 1 \in 1..n + 1 /\ (n + 1) - 1 = n
  OBVIOUS
<1>5. s[n + 1] = s[n] + g[n + 1]
  BY <1>1, <1>4 DEF SumsUp
<1> QED
  BY <1>3, <1>5

\* An order that is struck out takes its share with it.
LEMMA TotalOfLess ==
  ASSUME NEW n \in Nat, NEW f \in [1..n -> Nat], NEW g \in [1..n -> Nat], NEW o \in 1..n,
         g[o] = 0, \A i \in 1..n : i # o => g[i] = f[i]
  PROVE  Total(n, f) = Total(n, g) + f[o]
<1>1. PICK s : SumsUp(s, n, g)
  BY PartialSums
<1> DEFINE t == [i \in 0..n |-> IF i < o THEN s[i] ELSE s[i] + f[o]]
<1>2. SumsUp(t, n, f)
  <2>1. t \in [0..n -> Nat] /\ t[0] = 0
    BY <1>1 DEF SumsUp
  <2>2. ASSUME NEW i \in 1..n PROVE t[i] = t[i - 1] + f[i]
    <3>1. i \in 0..n /\ i - 1 \in 0..n /\ s[i] = s[i - 1] + g[i] /\ s[i - 1] \in Nat
      BY <1>1 DEF SumsUp
    <3>2. f[i] \in Nat /\ g[i] \in Nat /\ f[o] \in Nat
      OBVIOUS
    <3>3. CASE i < o
      BY <3>1, <3>2, <3>3
    <3>4. CASE i = o
      BY <3>1, <3>2, <3>4
    <3>5. CASE i > o
      BY <3>1, <3>2, <3>5
    <3> QED
      BY <3>3, <3>4, <3>5
  <2> QED
    BY <2>1, <2>2 DEF SumsUp
<1>3. Total(n, g) = s[n]
  BY <1>1, TotalIs
<1>4. Total(n, f) = t[n]
  BY <1>2, TotalIs
<1> QED
  BY <1>3, <1>4

LEMMA TotalOfNone == \A f : f \in [1..0 -> Nat] => Total(0, f) = 0
<1> SUFFICES ASSUME NEW f \in [1..0 -> Nat] PROVE Total(0, f) = 0
  OBVIOUS
<1>1. PICK s : SumsUp(s, 0, f)
  BY PartialSums
<1>2. Total(0, f) = s[0]
  BY <1>1, TotalIs
<1> QED
  BY <1>1, <1>2 DEF SumsUp

LEMMA TotalCovers ==
  ASSUME NEW n \in Nat, NEW f \in [1..n -> Nat], NEW o \in 1..n
  PROVE  f[o] <= Total(n, f)
<1> DEFINE g == [f EXCEPT ![o] = 0]
<1>1. g \in [1..n -> Nat] /\ g[o] = 0 /\ \A i \in 1..n : i # o => g[i] = f[i]
  OBVIOUS
<1> HIDE DEF g
<1>2. Total(n, f) = Total(n, g) + f[o]
  BY <1>1, TotalOfLess
<1>3. Total(n, g) \in Nat /\ f[o] \in Nat
  BY <1>1, TotalCounts
<1> QED
  BY <1>2, <1>3

-----------------------------------------------------------------------------
\* What the orders are.
OrderType == [asset : Assets, net : Nat, fee : Nat, deadline : Deadlines]

LEMMA ByOrder ==
  ASSUME NEW q \in Seq(OrderType)
  PROVE  /\ \A a : [o \in DOMAIN q |-> IF q[o].asset = a THEN q[o].fee ELSE 0]
                     \in [1..Len(q) -> Nat]
         /\ \A a, R : [o \in DOMAIN q |-> IF q[o].asset = a /\ o \notin R THEN q[o].net ELSE 0]
                        \in [1..Len(q) -> Nat]
<1>1. Len(q) \in Nat /\ DOMAIN q = 1..Len(q) /\ \A o \in DOMAIN q : q[o] \in OrderType
  OBVIOUS
<1>2. \A o \in DOMAIN q : q[o].net \in Nat /\ q[o].fee \in Nat
  BY <1>1 DEF OrderType
<1> QED
  BY <1>1, <1>2

LEMMA OrderFacts ==
  ASSUME EscrowTypeOK
  PROVE  /\ orders \in Seq(OrderType)
         /\ Len(orders) \in Nat /\ DOMAIN orders = 1..Len(orders)
         /\ \A o \in 1..Len(orders) : orders[o] \in OrderType
         /\ \A a : Charged(a) \in [1..Len(orders) -> Nat]
         /\ \A a : Deposited(a) \in [1..Len(orders) -> Nat]
<1>1. orders \in Seq(OrderType)
  BY DEF EscrowTypeOK, OrderType
<1>2. /\ Len(orders) \in Nat /\ DOMAIN orders = 1..Len(orders)
      /\ \A o \in 1..Len(orders) : orders[o] \in OrderType
  BY <1>1
<1>3. ASSUME NEW a
      PROVE  Charged(a) \in [1..Len(orders) -> Nat] /\ Deposited(a) \in [1..Len(orders) -> Nat]
  BY <1>1, ByOrder DEF Charged, Deposited
<1> QED
  BY <1>1, <1>2, <1>3

LEMMA FeeFits ==
  ASSUME EscrowTypeOK, NEW r \in Routers, NEW x \in Nat
  PROVE  Fee(r, x) \in Nat /\ Fee(r, x) <= x
<1> DEFINE k == rate[r]
<1>0. rate \in [Routers -> 0..30]
  BY DEF EscrowTypeOK, MaxRate
<1>1. k \in Nat /\ k <= 30
  BY <1>0
<1> HIDE DEF k
<1>2. x * k <= x * 30 /\ x * k \in Nat
  BY <1>1, MulUp
<1>3. /\ (x * k) \div 10000 \in Nat
      /\ 10000 * ((x * k) \div 10000) <= x * k
  BY <1>2, DivFloor
<1>4. Fee(r, x) = (x * k) \div 10000
  BY DEF Fee, Scale, k
<1> QED
  BY <1>2, <1>3, <1>4

\* The accounts of asset b, were D deposited and F charged.
Book(b, D, F) ==
  /\ funds["escrow"][b] = D + given["escrow"][b] + (IF setup.treasury THEN 0 ELSE F)
  /\ collected[b] = swapFees[b] + (IF setup.treasury THEN F ELSE 0)
  /\ funds["treasury"][b] = collected[b] + given["treasury"][b] - withdrawn[b]

Books ==
  \A b \in Assets : Book(b, Total(Len(orders), Deposited(b)), Total(Len(orders), Charged(b)))

LEMMA LedgersAreBooks == LedgersAgree <=> EscrowTypeOK /\ Books
BY DEF LedgersAgree, Books, Book

LEMMA EscrowStarts == EscrowInit => LedgersAgree
<1> SUFFICES ASSUME EscrowInit PROVE LedgersAgree
  OBVIOUS
<1>1. EscrowTypeOK
  <2>1. NoCoins \in [Assets -> Nat]
    BY DEF NoCoins
  <2>2. orders \in Seq(OrderType)
    BY DEF EscrowInit
  <2>3. 0 \in 0..MaxTime /\ 0 \in 0..MaxMoves
    BY EscrowAssumption
  <2>4. rate \in [Routers -> 0..MaxRate]
    BY DEF EscrowInit, MaxRate
  <2> QED
    BY <2>1, <2>2, <2>3, <2>4 DEF EscrowInit, EscrowTypeOK, OrderType
<1>2. Len(orders) = 0
  BY DEF EscrowInit
<1>3. \A b : Total(0, Deposited(b)) = 0 /\ Total(0, Charged(b)) = 0
  BY <1>1, <1>2, OrderFacts, TotalOfNone
<1>4. Books
  BY <1>2, <1>3 DEF Books, Book, EscrowInit, NoCoins, Holders, Routers
<1> QED
  BY <1>1, <1>4, LedgersAreBooks

LEMMA QuietKeeps ==
  ASSUME LedgersAgree, EscrowTypeOK',
         UNCHANGED <<orders, refunded, setup, funds, collected, given, withdrawn, swapFees>>
  PROVE  LedgersAgree'
BY DEF LedgersAgree, Deposited, Charged

LEMMA SettingsKeepTypes ==
  ASSUME EscrowTypeOK,
         \/ \E o \in DOMAIN orders : Fulfill(o)
         \/ \E r \in Routers, bps \in Rates : SetRate(r, bps)
         \/ \E r \in Routers : SetFeeCollector(r)
         \/ SetSolverAuthorization \/ SetEmergencyPause \/ EmergencyPause \/ Resume
         \/ Tick \/ UNCHANGED escrowVars
  PROVE  /\ EscrowTypeOK'
         /\ UNCHANGED <<orders, refunded, setup, funds, collected, given, withdrawn, swapFees>>
<1>1. ASSUME NEW o \in DOMAIN orders, Fulfill(o)
      PROVE  /\ EscrowTypeOK'
             /\ UNCHANGED <<orders, refunded, setup, funds, collected, given, withdrawn, swapFees>>
  BY <1>1 DEF Fulfill, EscrowTypeOK, settings, ledgers
<1>2. ASSUME NEW r \in Routers, NEW bps \in Rates, SetRate(r, bps)
      PROVE  /\ EscrowTypeOK'
             /\ UNCHANGED <<orders, refunded, setup, funds, collected, given, withdrawn, swapFees>>
  <2>1. bps \in 0..MaxRate
    BY <1>2, EscrowAssumption DEF SetRate, MaxRate
  <2>2. rate' \in [Routers -> 0..MaxRate]
    BY <1>2, <2>1 DEF SetRate, EscrowTypeOK
  <2> QED
    BY <1>2, <2>2 DEF SetRate, EscrowTypeOK, ledgers, book
<1>3. ASSUME NEW r \in Routers, SetFeeCollector(r)
      PROVE  /\ EscrowTypeOK'
             /\ UNCHANGED <<orders, refunded, setup, funds, collected, given, withdrawn, swapFees>>
  <2>1. collectors' \subseteq Routers
    BY <1>3 DEF SetFeeCollector, EscrowTypeOK
  <2> QED
    BY <1>3, <2>1 DEF SetFeeCollector, EscrowTypeOK, ledgers, book
<1>4. CASE SetSolverAuthorization
  BY <1>4 DEF SetSolverAuthorization, EscrowTypeOK, ledgers, book
<1>5. CASE SetEmergencyPause \/ EmergencyPause \/ Resume
  BY <1>5 DEF SetEmergencyPause, EmergencyPause, Resume, EscrowTypeOK, settings, ledgers, book
<1>6. CASE Tick
  <2>1. now' \in 0..MaxTime
    BY <1>6, EscrowAssumption DEF Tick, EscrowTypeOK
  <2> QED
    BY <1>6, <2>1 DEF Tick, EscrowTypeOK, settings, ledgers, book
<1>7. CASE UNCHANGED escrowVars
  BY <1>7 DEF escrowVars, EscrowTypeOK, settings, ledgers, book
<1> QED
  BY <1>1, <1>2, <1>3, <1>4, <1>5, <1>6, <1>7

LEMMA MoveCounts == ASSUME EscrowTypeOK, Moved PROVE moves' \in 0..MaxMoves
BY EscrowAssumption DEF EscrowTypeOK, Moved

LEMMA BookTypes ==
  ASSUME EscrowTypeOK, NEW b \in Assets
  PROVE  /\ funds["escrow"][b] \in Nat /\ funds["treasury"][b] \in Nat
         /\ collected[b] \in Nat /\ swapFees[b] \in Nat /\ withdrawn[b] \in Nat
         /\ given["escrow"][b] \in Nat /\ given["treasury"][b] \in Nat
<1>1. /\ funds \in [Holders -> [Assets -> Nat]] /\ given \in [Holders -> [Assets -> Nat]]
      /\ collected \in [Assets -> Nat] /\ swapFees \in [Assets -> Nat]
      /\ withdrawn \in [Assets -> Nat]
  BY DEF EscrowTypeOK
<1> QED
  BY <1>1 DEF Holders, Routers

LEMMA InitiateKeeps ==
  ASSUME LedgersAgree, NEW a \in Assets, NEW x \in Sums, NEW n \in Nonces, NEW d \in Deadlines,
         Initiate(a, x, n, d)
  PROVE  LedgersAgree'
<1>1. PICK fee : fee = IF setup.controller THEN Fee("escrow", x) ELSE 0
  OBVIOUS
<1>2. PICK paid : paid = IF setup.treasury THEN fee ELSE 0
  OBVIOUS
<1>0. EscrowTypeOK /\ Books
  BY LedgersAreBooks
<1>3. x \in Nat /\ fee \in Nat /\ fee <= x /\ paid \in Nat /\ paid <= fee
  <2>1. x \in Nat /\ "escrow" \in Routers
    BY EscrowAssumption DEF Routers
  <2>2. Fee("escrow", x) \in Nat /\ Fee("escrow", x) <= x
    BY <1>0, <2>1, FeeFits
  <2> QED
    BY <1>1, <1>2, <2>1, <2>2
<1> DEFINE new == [asset |-> a, net |-> x - fee, fee |-> fee, deadline |-> d]
<1>4. /\ orders' = Append(orders, new)
      /\ nonces' = nonces \cup {n}
      /\ funds' = [funds EXCEPT !["escrow"][a] = @ + x - paid, !["treasury"][a] = @ + paid]
      /\ collected' = [collected EXCEPT ![a] = @ + paid]
      /\ UNCHANGED <<now, paused, closed, setup, rate, collectors, solving, fulfilled, refunded,
                     moves, given, withdrawn, swapFees>>
  BY <1>1, <1>2 DEF Initiate, settings
<1>5. new \in OrderType /\ new.asset = a /\ new.net = x - fee /\ new.fee = fee
  BY <1>3 DEF OrderType
<1> HIDE DEF new
<1>6. orders \in Seq(OrderType)
  BY <1>0 DEF EscrowTypeOK, OrderType
<1> DEFINE m == Len(orders)
<1>7. /\ orders' \in Seq(OrderType) /\ Len(orders') = m + 1 /\ m \in Nat
      /\ orders'[m + 1] = new /\ \A o \in 1..m : orders'[o] = orders[o]
      /\ DOMAIN orders = 1..m /\ DOMAIN orders' = 1..m + 1
  BY <1>4, <1>5, <1>6
<1>8. /\ funds \in [Holders -> [Assets -> Nat]] /\ collected \in [Assets -> Nat]
      /\ refunded \subseteq 1..m /\ fulfilled \subseteq 1..m
  BY <1>0, <1>7 DEF EscrowTypeOK
<1> HIDE DEF m
<1>9. /\ \A b \in Assets :
           /\ funds'["escrow"][b] = IF b = a THEN funds["escrow"][b] + x - paid
                                             ELSE funds["escrow"][b]
           /\ funds'["treasury"][b] = IF b = a THEN funds["treasury"][b] + paid
                                               ELSE funds["treasury"][b]
           /\ collected'[b] = IF b = a THEN collected[b] + paid ELSE collected[b]
      /\ DOMAIN funds' = Holders
      /\ \A h \in Holders : DOMAIN funds'[h] = Assets
      /\ funds'["router"] = funds["router"]
  BY <1>4, <1>8 DEF Holders, Routers
<1>10. funds' \in [Holders -> [Assets -> Nat]] /\ collected' \in [Assets -> Nat]
  <2>1. ASSUME NEW h \in Holders, NEW b \in Assets PROVE funds'[h][b] \in Nat
    <3>1. funds[h][b] \in Nat
      BY <1>8
    <3>2. CASE h = "escrow"
      BY <3>1, <3>2, <1>3, <1>9
    <3>3. CASE h = "treasury"
      BY <3>1, <3>3, <1>3, <1>9
    <3>4. CASE h = "router"
      BY <3>1, <3>4, <1>9
    <3> QED
      BY <3>2, <3>3, <3>4 DEF Holders, Routers
  <2>2. collected' \in [Assets -> Nat]
    BY <1>3, <1>4, <1>8
  <2>3. funds' = [h \in Holders |-> funds'[h]]
    BY <1>4, <1>8
  <2>4. ASSUME NEW h \in Holders PROVE funds'[h] \in [Assets -> Nat]
    <3>1. funds'[h] = [b \in Assets |-> funds'[h][b]]
      BY <1>4, <1>8, <1>9 DEF Holders, Routers
    <3> QED
      BY <2>1, <3>1
  <2> QED
    BY <2>2, <2>3, <2>4
<1>11. EscrowTypeOK'
  <2>1. orders' \in Seq([asset : Assets, net : Nat, fee : Nat, deadline : Deadlines])
    BY <1>7 DEF OrderType
  <2>2. fulfilled' \cup refunded' \subseteq DOMAIN orders'
    <3>1. fulfilled' \subseteq 1..m /\ refunded' \subseteq 1..m
      BY <1>4, <1>8
    <3>2. 1..m \subseteq DOMAIN orders'
      BY <1>7
    <3> QED
      BY <3>1, <3>2
  <2> QED
    BY <1>0, <1>4, <1>10, <2>1, <2>2 DEF EscrowTypeOK
<1>12. ASSUME NEW b \in Assets
       PROVE  /\ Total(m + 1, Charged(b)') = Total(m, Charged(b)) + (IF b = a THEN fee ELSE 0)
              /\ Total(m + 1, Deposited(b)') = Total(m, Deposited(b)) + (IF b = a THEN x - fee ELSE 0)
  <2>1. /\ Charged(b) \in [1..m -> Nat] /\ Deposited(b) \in [1..m -> Nat]
        /\ Charged(b)' \in [1..m + 1 -> Nat] /\ Deposited(b)' \in [1..m + 1 -> Nat]
    <3>1. Charged(b)' \in [1..m + 1 -> Nat] /\ Deposited(b)' \in [1..m + 1 -> Nat]
      <4>1. orders' \in Seq(OrderType) /\ Len(orders') = m + 1
        BY <1>7
      <4>2. Charged(b)' \in [1..Len(orders') -> Nat]
        BY <4>1, ByOrder DEF Charged
      <4>3. Deposited(b)' \in [1..Len(orders') -> Nat]
        BY <4>1, ByOrder DEF Deposited
      <4> QED
        BY <4>1, <4>2, <4>3
    <3> QED
      BY <3>1, <1>0, OrderFacts DEF m
  <2>2. m + 1 \notin refunded' /\ m + 1 \in DOMAIN orders'
    BY <1>4, <1>7, <1>8
  <2>3. /\ Charged(b)'[m + 1] = IF b = a THEN fee ELSE 0
        /\ Deposited(b)'[m + 1] = IF b = a THEN x - fee ELSE 0
    BY <1>5, <1>7, <2>2 DEF Charged, Deposited
  <2>4. ASSUME NEW o \in 1..m
        PROVE  Charged(b)'[o] = Charged(b)[o] /\ Deposited(b)'[o] = Deposited(b)[o]
    <3>1. o \in DOMAIN orders /\ o \in DOMAIN orders' /\ orders'[o] = orders[o]
      BY <1>7
    <3> QED
      BY <1>4, <3>1 DEF Charged, Deposited
  <2> DEFINE f == Charged(b)
             g == Charged(b)'
             u == Deposited(b)
             v == Deposited(b)'
  <2>5. /\ f \in [1..m -> Nat] /\ g \in [1..m + 1 -> Nat] /\ \A o \in 1..m : g[o] = f[o]
        /\ u \in [1..m -> Nat] /\ v \in [1..m + 1 -> Nat] /\ \A o \in 1..m : v[o] = u[o]
    BY <2>1, <2>4
  <2> HIDE DEF f, g, u, v
  <2>6. /\ Total(m + 1, g) = Total(m, f) + g[m + 1]
        /\ Total(m + 1, v) = Total(m, u) + v[m + 1]
    BY <1>7, <2>5, TotalOfMore
  <2> QED
    BY <2>3, <2>6 DEF f, g, u, v
<1>13. Books'
  <2> SUFFICES ASSUME NEW b \in Assets
               PROVE  Book(b, Total(Len(orders), Deposited(b)), Total(Len(orders), Charged(b)))'
    BY DEF Books
  <2>0. PICK F, D : F = Total(m, Charged(b)) /\ D = Total(m, Deposited(b))
    OBVIOUS
  <2>1. Book(b, D, F)
    BY <1>0, <2>0 DEF Books, m
  <2>2. F \in Nat /\ D \in Nat
    BY <1>0, <1>7, <2>0, OrderFacts, TotalCounts DEF m
  <2>3. /\ Total(Len(orders'), Charged(b)') = F + (IF b = a THEN fee ELSE 0)
        /\ Total(Len(orders'), Deposited(b)') = D + (IF b = a THEN x - fee ELSE 0)
    BY <1>7, <1>12, <2>0
  <2>4. /\ funds["escrow"][b] \in Nat /\ funds["treasury"][b] \in Nat
        /\ collected[b] \in Nat /\ swapFees[b] \in Nat /\ withdrawn[b] \in Nat
        /\ given["escrow"][b] \in Nat /\ given["treasury"][b] \in Nat
    BY <1>0, BookTypes
  <2>5. /\ given' = given /\ withdrawn' = withdrawn /\ swapFees' = swapFees /\ setup' = setup
        /\ x - fee \in Nat
    BY <1>3, <1>4
  <2>6. CASE b = a
    <3>1. /\ funds'["escrow"][b] = funds["escrow"][b] + x - paid
          /\ funds'["treasury"][b] = funds["treasury"][b] + paid
          /\ collected'[b] = collected[b] + paid
      BY <1>9, <2>6
    <3>2. CASE setup.treasury
      <4>1. paid = fee /\ setup'.treasury
        BY <1>2, <2>5, <3>2
      <4>2. /\ funds["escrow"][b] = D + given["escrow"][b]
            /\ collected[b] = swapFees[b] + F
            /\ funds["treasury"][b] = collected[b] + given["treasury"][b] - withdrawn[b]
        BY <2>1, <2>2, <2>4, <3>2 DEF Book
      <4>3. /\ funds'["escrow"][b] = (D + (x - fee)) + given["escrow"][b]
            /\ collected'[b] = swapFees[b] + (F + fee)
            /\ funds'["treasury"][b] = collected'[b] + given["treasury"][b] - withdrawn[b]
        BY <1>3, <2>2, <2>4, <3>1, <4>1, <4>2
      <4>4. /\ Total(Len(orders'), Charged(b)') = F + fee
            /\ Total(Len(orders'), Deposited(b)') = D + (x - fee)
        BY <2>3, <2>6
      <4>5. F + fee \in Nat /\ D + (x - fee) + given["escrow"][b] \in Nat
        BY <1>3, <2>2, <2>4
      <4> QED
        BY <2>4, <2>5, <4>1, <4>3, <4>4, <4>5 DEF Book
    <3>3. CASE ~setup.treasury
      <4>1. paid = 0 /\ ~setup'.treasury
        BY <1>2, <2>5, <3>3
      <4>2. /\ funds["escrow"][b] = D + given["escrow"][b] + F
            /\ collected[b] = swapFees[b]
            /\ funds["treasury"][b] = collected[b] + given["treasury"][b] - withdrawn[b]
        BY <2>1, <2>2, <2>4, <3>3 DEF Book
      <4>3. /\ funds'["escrow"][b] = (D + (x - fee)) + given["escrow"][b] + (F + fee)
            /\ collected'[b] = swapFees[b]
            /\ funds'["treasury"][b] = collected'[b] + given["treasury"][b] - withdrawn[b]
        BY <1>3, <2>2, <2>4, <3>1, <4>1, <4>2
      <4>4. /\ Total(Len(orders'), Charged(b)') = F + fee
            /\ Total(Len(orders'), Deposited(b)') = D + (x - fee)
        BY <2>3, <2>6
      <4>5. F + fee \in Nat /\ D + (x - fee) + given["escrow"][b] \in Nat
        BY <1>3, <2>2, <2>4
      <4> QED
        BY <2>4, <2>5, <4>1, <4>3, <4>4, <4>5 DEF Book
    <3> QED
      BY <3>2, <3>3
  <2>7. CASE b # a
    <3>1. /\ funds'["escrow"][b] = funds["escrow"][b]
          /\ funds'["treasury"][b] = funds["treasury"][b]
          /\ collected'[b] = collected[b]
      BY <1>9, <2>7
    <3>2. Total(Len(orders'), Charged(b)') = F /\ Total(Len(orders'), Deposited(b)') = D
      BY <2>2, <2>3, <2>7
    <3> QED
      BY <2>1, <2>5, <3>1, <3>2 DEF Book
  <2> QED
    BY <2>6, <2>7
<1> QED
  BY <1>11, <1>13, LedgersAreBooks DEF LedgersAgree, Books, Book

\* One entry of a table of balances is written.
LEMMA OnBooks ==
  ASSUME NEW f \in [Holders -> [Assets -> Nat]], NEW h \in Holders, NEW a \in Assets, NEW y \in Nat
  PROVE  /\ [f EXCEPT ![h][a] = y] \in [Holders -> [Assets -> Nat]]
         /\ \A k \in Holders, b \in Assets :
              [f EXCEPT ![h][a] = y][k][b] = IF k = h /\ b = a THEN y ELSE f[k][b]
<1>1. [f[h] EXCEPT ![a] = y] \in [Assets -> Nat]
  OBVIOUS
<1> QED
  BY <1>1

LEMMA SameGap ==
  \A x, y, u, v, d \in Int : x = d + y /\ u - v = x - y => u = d + v
OBVIOUS

LEMMA SameSum ==
  \A x, c, g, w, u, k, h, q \in Int :
    x = c + g - w /\ u - k - h + q = x - c - g + w => u = k + h - q
OBVIOUS

\* A transaction that touches no order keeps the accounts if it keeps their
\* difference.
LEMMA BooksKept ==
  ASSUME LedgersAgree, EscrowTypeOK', UNCHANGED <<orders, refunded, setup>>,
         \A b \in Assets :
           /\ funds'["escrow"][b] - given'["escrow"][b] = funds["escrow"][b] - given["escrow"][b]
           /\ collected'[b] - swapFees'[b] = collected[b] - swapFees[b]
           /\ funds'["treasury"][b] - collected'[b] - given'["treasury"][b] + withdrawn'[b]
                = funds["treasury"][b] - collected[b] - given["treasury"][b] + withdrawn[b]
  PROVE  LedgersAgree'
<1>1. EscrowTypeOK /\ Books
  BY LedgersAreBooks
<1> SUFFICES ASSUME NEW b \in Assets
             PROVE  Book(b, Total(Len(orders), Deposited(b)), Total(Len(orders), Charged(b)))'
  BY DEF LedgersAgree, Books, Book
<1>2. PICK F, D : F = Total(Len(orders), Charged(b)) /\ D = Total(Len(orders), Deposited(b))
  OBVIOUS
<1>3. Book(b, D, F) /\ F \in Nat /\ D \in Nat
  BY <1>1, <1>2, OrderFacts, TotalCounts DEF Books
<1>4. /\ Total(Len(orders), Charged(b))' = F /\ Total(Len(orders), Deposited(b))' = D
      /\ setup' = setup
  BY <1>2 DEF Charged, Deposited
<1>5. /\ funds["escrow"][b] \in Int /\ funds["treasury"][b] \in Int
      /\ collected[b] \in Int /\ swapFees[b] \in Int /\ withdrawn[b] \in Int
      /\ given["escrow"][b] \in Int /\ given["treasury"][b] \in Int
  BY <1>1, BookTypes
<1>6. /\ funds'["escrow"][b] \in Int /\ funds'["treasury"][b] \in Int
      /\ collected'[b] \in Int /\ swapFees'[b] \in Int /\ withdrawn'[b] \in Int
      /\ given'["escrow"][b] \in Int /\ given'["treasury"][b] \in Int
  BY DEF EscrowTypeOK, Holders, Routers
<1>9. /\ funds'["escrow"][b] - given'["escrow"][b] = funds["escrow"][b] - given["escrow"][b]
      /\ collected'[b] - swapFees'[b] = collected[b] - swapFees[b]
      /\ funds'["treasury"][b] - collected'[b] - given'["treasury"][b] + withdrawn'[b]
           = funds["treasury"][b] - collected[b] - given["treasury"][b] + withdrawn[b]
  OBVIOUS
<1>11. F \in Nat /\ D \in Nat
  BY <1>3
<1>10. setup'.treasury = setup.treasury
  BY <1>4
<1>7. CASE setup.treasury
  <2>1. /\ funds["escrow"][b] = D + given["escrow"][b]
        /\ collected[b] = swapFees[b] + F
        /\ funds["treasury"][b] = collected[b] + given["treasury"][b] - withdrawn[b]
    BY <1>3, <1>5, <1>7 DEF Book
  <2>2. /\ funds'["escrow"][b] = D + given'["escrow"][b]
        /\ collected'[b] = swapFees'[b] + F
        /\ funds'["treasury"][b] = collected'[b] + given'["treasury"][b] - withdrawn'[b]
    <3>1. funds'["escrow"][b] = D + given'["escrow"][b]
      BY <1>3, <1>5, <1>6, <1>9, <2>1
    <3>2. collected'[b] = swapFees'[b] + F
      BY <1>3, <1>5, <1>6, <1>9, <2>1
    <3>3. funds'["treasury"][b] = collected'[b] + given'["treasury"][b] - withdrawn'[b]
      BY <1>5, <1>6, <1>9, <2>1
    <3> QED
      BY <3>1, <3>2, <3>3
  <2>3. setup'.treasury
    BY <1>7, <1>10
  <2>4. /\ Total(Len(orders'), Charged(b)') = F /\ Total(Len(orders'), Deposited(b)') = D
        /\ (IF setup'.treasury THEN 0 ELSE F) = 0
        /\ (IF setup'.treasury THEN F ELSE 0) = F
        /\ D + given'["escrow"][b] + 0 = D + given'["escrow"][b]
    BY <1>4, <1>6, <1>11, <2>3
  <2>5. Book(b, D, F)'
    BY <2>2, <2>4 DEF Book
  <2> QED
    BY <2>4, <2>5 DEF Book
<1>8. CASE ~setup.treasury
  <2>1. /\ funds["escrow"][b] = D + given["escrow"][b] + F
        /\ collected[b] = swapFees[b]
        /\ funds["treasury"][b] = collected[b] + given["treasury"][b] - withdrawn[b]
    BY <1>3, <1>5, <1>8 DEF Book
  <2>2. /\ funds'["escrow"][b] = D + given'["escrow"][b] + F
        /\ collected'[b] = swapFees'[b]
        /\ funds'["treasury"][b] = collected'[b] + given'["treasury"][b] - withdrawn'[b]
    <3>1. funds'["escrow"][b] = D + given'["escrow"][b] + F
      <4>1. D + F \in Int /\ funds["escrow"][b] = (D + F) + given["escrow"][b]
        BY <1>5, <1>11, <2>1
      <4>2. funds'["escrow"][b] = (D + F) + given'["escrow"][b]
        BY <1>5, <1>6, <1>9, <4>1, SameGap
      <4> QED
        BY <1>6, <1>11, <4>2
    <3>2. collected'[b] = swapFees'[b]
      BY <1>3, <1>5, <1>6, <1>9, <2>1
    <3>3. funds'["treasury"][b] = collected'[b] + given'["treasury"][b] - withdrawn'[b]
      BY <1>5, <1>6, <1>9, <2>1
    <3> QED
      BY <3>1, <3>2, <3>3
  <2> QED
    BY <1>3, <1>4, <1>6, <1>8, <2>2 DEF Book
<1> QED
  BY <1>7, <1>8

LEMMA RouterSwapKeeps ==
  ASSUME LedgersAgree, NEW x \in Sums, NEW left \in {0, 1}, RouterSwap(x, left)
  PROVE  LedgersAgree'
<1>0. EscrowTypeOK
  BY DEF LedgersAgree
<1>1. PICK fee : fee = Fee("router", x)
  OBVIOUS
<1>2. fee \in Nat /\ Wrapped \in Assets /\ left \in Nat
  <2>1. x \in Nat /\ "router" \in Routers
    BY EscrowAssumption DEF Routers
  <2> QED
    BY <1>0, <1>1, <2>1, FeeFits, EscrowAssumption
<1>3. /\ Moved
      /\ funds' = [funds EXCEPT !["router"][Wrapped] = @ + left, !["treasury"][Wrapped] = @ + fee]
      /\ collected' = [collected EXCEPT ![Wrapped] = @ + fee]
      /\ swapFees' = [swapFees EXCEPT ![Wrapped] = @ + fee]
      /\ UNCHANGED <<now, paused, closed, setup, rate, collectors, solving, orders, nonces,
                     fulfilled, refunded, given, withdrawn>>
  BY <1>1 DEF RouterSwap, settings, book
<1>4. /\ funds \in [Holders -> [Assets -> Nat]]
      /\ collected \in [Assets -> Nat] /\ swapFees \in [Assets -> Nat]
  BY <1>0 DEF EscrowTypeOK
<1>5. /\ "router" \in Holders /\ "treasury" \in Holders /\ "escrow" \in Holders
      /\ funds["router"][Wrapped] + left \in Nat /\ funds["treasury"][Wrapped] + fee \in Nat
  BY <1>2, <1>4 DEF Holders, Routers
<1> DEFINE mid == [funds EXCEPT !["router"][Wrapped] = funds["router"][Wrapped] + left]
<1>6. /\ mid \in [Holders -> [Assets -> Nat]]
      /\ \A k \in Holders, b \in Assets :
           mid[k][b] = IF k = "router" /\ b = Wrapped THEN funds["router"][Wrapped] + left
                                                      ELSE funds[k][b]
  BY <1>2, <1>4, <1>5, OnBooks
<1>7. funds' = [mid EXCEPT !["treasury"][Wrapped] = funds["treasury"][Wrapped] + fee]
  BY <1>2, <1>3, <1>4, <1>5
<1> HIDE DEF mid
<1>8. /\ funds' \in [Holders -> [Assets -> Nat]]
      /\ \A k \in Holders, b \in Assets :
           funds'[k][b] = IF k = "treasury" /\ b = Wrapped THEN funds["treasury"][Wrapped] + fee
                                                           ELSE mid[k][b]
  BY <1>2, <1>5, <1>6, <1>7, OnBooks
<1>9. collected' \in [Assets -> Nat] /\ swapFees' \in [Assets -> Nat]
  BY <1>2, <1>3, <1>4
<1>10. EscrowTypeOK'
  BY <1>0, <1>3, <1>8, <1>9, MoveCounts DEF EscrowTypeOK
<1>11. ASSUME NEW b \in Assets
       PROVE  /\ funds'["escrow"][b] = funds["escrow"][b]
              /\ funds'["treasury"][b] = funds["treasury"][b] + (IF b = Wrapped THEN fee ELSE 0)
              /\ collected'[b] = collected[b] + (IF b = Wrapped THEN fee ELSE 0)
              /\ swapFees'[b] = swapFees[b] + (IF b = Wrapped THEN fee ELSE 0)
  <2>1. /\ funds["escrow"][b] \in Nat /\ funds["treasury"][b] \in Nat
        /\ collected[b] \in Nat /\ swapFees[b] \in Nat
    BY <1>0, BookTypes
  <2>2. funds'["escrow"][b] = funds["escrow"][b]
    BY <1>5, <1>6, <1>8
  <2>3. funds'["treasury"][b] = IF b = Wrapped THEN funds["treasury"][b] + fee
                                               ELSE funds["treasury"][b]
    BY <1>5, <1>6, <1>8
  <2>4. /\ collected'[b] = IF b = Wrapped THEN collected[b] + fee ELSE collected[b]
        /\ swapFees'[b] = IF b = Wrapped THEN swapFees[b] + fee ELSE swapFees[b]
    BY <1>2, <1>3, <1>4
  <2> QED
    BY <1>2, <2>1, <2>2, <2>3, <2>4
<1>12. ASSUME NEW b \in Assets
       PROVE  /\ funds'["escrow"][b] - given'["escrow"][b] = funds["escrow"][b] - given["escrow"][b]
              /\ collected'[b] - swapFees'[b] = collected[b] - swapFees[b]
              /\ funds'["treasury"][b] - collected'[b] - given'["treasury"][b] + withdrawn'[b]
                   = funds["treasury"][b] - collected[b] - given["treasury"][b] + withdrawn[b]
  <2>1. PICK y \in Nat : y = IF b = Wrapped THEN fee ELSE 0
    BY <1>2
  <2>2. given' = given /\ withdrawn' = withdrawn
    BY <1>3
  <2> QED
    BY <1>0, <1>11, <2>1, <2>2, BookTypes
<1> QED
  BY <1>3, <1>10, <1>12, BooksKept

LEMMA TakeOutKeeps ==
  ASSUME LedgersAgree, NEW a \in Assets, NEW x \in Sums \cup {1}, TakeOut(a, x)
  PROVE  LedgersAgree'
<1>0. EscrowTypeOK
  BY DEF LedgersAgree
<1>1. /\ Moved /\ x <= funds["treasury"][a]
      /\ funds' = [funds EXCEPT !["treasury"][a] = @ - x]
      /\ withdrawn' = [withdrawn EXCEPT ![a] = @ + x]
      /\ UNCHANGED <<now, paused, closed, setup, rate, collectors, solving, orders, nonces,
                     fulfilled, refunded, collected, given, swapFees>>
  BY DEF TakeOut, Holds, settings, book
<1>2. /\ funds \in [Holders -> [Assets -> Nat]] /\ withdrawn \in [Assets -> Nat]
      /\ "treasury" \in Holders /\ "escrow" \in Holders
  BY <1>0 DEF EscrowTypeOK, Holders, Routers
<1>3. x \in Nat /\ funds["treasury"][a] \in Nat
  BY <1>2, EscrowAssumption
<1>4. funds["treasury"][a] - x \in Nat
  BY <1>1, <1>3
<1>5. funds' = [funds EXCEPT !["treasury"][a] = funds["treasury"][a] - x]
  BY <1>1, <1>2
<1>6. /\ funds' \in [Holders -> [Assets -> Nat]]
      /\ \A k \in Holders, b \in Assets :
           funds'[k][b] = IF k = "treasury" /\ b = a THEN funds["treasury"][a] - x
                                                     ELSE funds[k][b]
  BY <1>2, <1>4, <1>5, OnBooks
<1>7. withdrawn' \in [Assets -> Nat]
  BY <1>1, <1>2, <1>3
<1>8. EscrowTypeOK'
  BY <1>0, <1>1, <1>6, <1>7, MoveCounts DEF EscrowTypeOK
<1>9. ASSUME NEW b \in Assets
      PROVE  /\ funds'["escrow"][b] - given'["escrow"][b] = funds["escrow"][b] - given["escrow"][b]
             /\ collected'[b] - swapFees'[b] = collected[b] - swapFees[b]
             /\ funds'["treasury"][b] - collected'[b] - given'["treasury"][b] + withdrawn'[b]
                  = funds["treasury"][b] - collected[b] - given["treasury"][b] + withdrawn[b]
  <2>1. PICK y \in Nat : y = IF b = a THEN x ELSE 0
    BY <1>3
  <2>2. funds'["treasury"][b] = funds["treasury"][b] - y /\ withdrawn'[b] = withdrawn[b] + y
    <3>1. funds["treasury"][b] \in Nat /\ withdrawn[b] \in Nat
      BY <1>2
    <3>2. /\ funds'["treasury"][b] = IF b = a THEN funds["treasury"][b] - x
                                              ELSE funds["treasury"][b]
          /\ withdrawn'[b] = IF b = a THEN withdrawn[b] + x ELSE withdrawn[b]
      BY <1>1, <1>2, <1>6
    <3> QED
      BY <2>1, <3>1, <3>2
  <2>3. given' = given /\ collected' = collected /\ swapFees' = swapFees
    BY <1>1
  <2>4. funds'["escrow"][b] = funds["escrow"][b]
    BY <1>2, <1>6
  <2> QED
    BY <1>0, <2>1, <2>2, <2>3, <2>4, BookTypes
<1> QED
  BY <1>1, <1>8, <1>9, BooksKept

LEMMA GiveKeeps ==
  ASSUME LedgersAgree, NEW h \in {"escrow", "treasury"}, NEW a \in Assets, NEW x \in Sums,
         Give(h, a, x)
  PROVE  LedgersAgree'
<1>0. EscrowTypeOK
  BY DEF LedgersAgree
<1>1. /\ Moved
      /\ funds' = [funds EXCEPT ![h][a] = @ + x]
      /\ given' = [given EXCEPT ![h][a] = @ + x]
      /\ UNCHANGED <<now, paused, closed, setup, rate, collectors, solving, orders, nonces,
                     fulfilled, refunded, collected, withdrawn, swapFees>>
  BY DEF Give, settings, book
<1>2. /\ funds \in [Holders -> [Assets -> Nat]] /\ given \in [Holders -> [Assets -> Nat]]
      /\ "treasury" \in Holders /\ "escrow" \in Holders /\ h \in Holders
  BY <1>0 DEF EscrowTypeOK, Holders, Routers
<1>3. x \in Nat /\ funds[h][a] + x \in Nat /\ given[h][a] + x \in Nat
  BY <1>2, EscrowAssumption
<1>4. /\ funds' = [funds EXCEPT ![h][a] = funds[h][a] + x]
      /\ given' = [given EXCEPT ![h][a] = given[h][a] + x]
  BY <1>1, <1>2
<1>5. /\ funds' \in [Holders -> [Assets -> Nat]]
      /\ \A k \in Holders, b \in Assets :
           funds'[k][b] = IF k = h /\ b = a THEN funds[h][a] + x ELSE funds[k][b]
  BY <1>2, <1>3, <1>4, OnBooks
<1>6. /\ given' \in [Holders -> [Assets -> Nat]]
      /\ \A k \in Holders, b \in Assets :
           given'[k][b] = IF k = h /\ b = a THEN given[h][a] + x ELSE given[k][b]
  BY <1>2, <1>3, <1>4, OnBooks
<1>7. EscrowTypeOK'
  BY <1>0, <1>1, <1>5, <1>6, MoveCounts DEF EscrowTypeOK
<1>8. ASSUME NEW b \in Assets
      PROVE  /\ funds'["escrow"][b] - given'["escrow"][b] = funds["escrow"][b] - given["escrow"][b]
             /\ collected'[b] - swapFees'[b] = collected[b] - swapFees[b]
             /\ funds'["treasury"][b] - collected'[b] - given'["treasury"][b] + withdrawn'[b]
                  = funds["treasury"][b] - collected[b] - given["treasury"][b] + withdrawn[b]
  <2>1. ASSUME NEW k \in {"escrow", "treasury"}
        PROVE  \E y \in Nat : funds'[k][b] = funds[k][b] + y /\ given'[k][b] = given[k][b] + y
    <3>1. k \in Holders /\ funds[k][b] \in Nat /\ given[k][b] \in Nat
      BY <1>2
    <3>2. CASE k = h /\ b = a
      BY <1>3, <1>5, <1>6, <3>1, <3>2
    <3>3. CASE ~(k = h /\ b = a)
      <4>1. funds'[k][b] = funds[k][b] + 0 /\ given'[k][b] = given[k][b] + 0
        BY <1>5, <1>6, <3>1, <3>3
      <4> QED
        BY <4>1
    <3> QED
      BY <3>2, <3>3
  <2>2. PICK y \in Nat : /\ funds'["escrow"][b] = funds["escrow"][b] + y
                         /\ given'["escrow"][b] = given["escrow"][b] + y
    BY <2>1
  <2>3. PICK z \in Nat : /\ funds'["treasury"][b] = funds["treasury"][b] + z
                         /\ given'["treasury"][b] = given["treasury"][b] + z
    BY <2>1
  <2>4. withdrawn' = withdrawn /\ collected' = collected /\ swapFees' = swapFees
    BY <1>1
  <2> QED
    BY <1>0, <2>2, <2>3, <2>4, BookTypes
<1> QED
  BY <1>1, <1>7, <1>8, BooksKept

LEMMA RefundKeeps ==
  ASSUME LedgersAgree, NEW o \in DOMAIN orders, Refund(o)
  PROVE  LedgersAgree'
<1>0. EscrowTypeOK /\ Books
  BY LedgersAreBooks
<1>1. PICK a, x : a = orders[o].asset /\ x = orders[o].net
  OBVIOUS
<1>2. /\ o \notin refunded /\ x <= funds["escrow"][a]
      /\ refunded' = refunded \cup {o}
      /\ funds' = [funds EXCEPT !["escrow"][a] = @ - x]
      /\ UNCHANGED <<now, paused, closed, setup, rate, collectors, solving, orders, nonces,
                     fulfilled, collected, moves, given, withdrawn, swapFees>>
  BY <1>1 DEF Refund, Refunded, Open, settings
<1>3. a \in Assets /\ x \in Nat
  BY <1>0, <1>1, OrderFacts DEF OrderType
<1>4. /\ funds \in [Holders -> [Assets -> Nat]]
      /\ "treasury" \in Holders /\ "escrow" \in Holders
  BY <1>0 DEF EscrowTypeOK, Holders, Routers
<1>5. funds["escrow"][a] - x \in Nat
  BY <1>2, <1>3, <1>4
<1>6. funds' = [funds EXCEPT !["escrow"][a] = funds["escrow"][a] - x]
  BY <1>2, <1>3, <1>4
<1>7. /\ funds' \in [Holders -> [Assets -> Nat]]
      /\ \A k \in Holders, b \in Assets :
           funds'[k][b] = IF k = "escrow" /\ b = a THEN funds["escrow"][a] - x ELSE funds[k][b]
  BY <1>3, <1>4, <1>5, <1>6, OnBooks
<1>8. EscrowTypeOK'
  <2>1. fulfilled' \cup refunded' \subseteq DOMAIN orders'
    BY <1>0, <1>2 DEF EscrowTypeOK
  <2> QED
    BY <1>0, <1>2, <1>7, <2>1 DEF EscrowTypeOK
<1>9. ASSUME NEW b \in Assets
      PROVE  Book(b, Total(Len(orders), Deposited(b)), Total(Len(orders), Charged(b)))'
  <2>1. PICK F, D, E : /\ F = Total(Len(orders), Charged(b))
                       /\ D = Total(Len(orders), Deposited(b))
                       /\ E = Total(Len(orders'), Deposited(b)')
    OBVIOUS
  <2>2. Book(b, D, F) /\ F \in Nat /\ D \in Nat
    BY <1>0, <2>1, OrderFacts, TotalCounts DEF Books
  <2>3. Total(Len(orders'), Charged(b)') = F /\ orders' = orders
    BY <1>2, <2>1 DEF Charged
  <2>4. E \in Nat /\ D = E + (IF b = a THEN x ELSE 0)
    <3> DEFINE n == Len(orders)
               f == Deposited(b)
               g == Deposited(b)'
    <3>1. n \in Nat /\ o \in 1..n /\ DOMAIN orders = 1..n /\ f \in [1..n -> Nat]
      BY <1>0, OrderFacts
    <3>2. g \in [1..n -> Nat]
      <4>1. \A i \in DOMAIN orders : orders[i].net \in Nat
        BY <1>0, OrderFacts DEF OrderType
      <4> QED
        BY <2>3, <3>1, <4>1 DEF Deposited
    <3>3. g[o] = 0 /\ f[o] = IF b = a THEN x ELSE 0
      BY <1>1, <1>2, <2>3, <3>1 DEF Deposited
    <3>4. \A i \in 1..n : i # o => g[i] = f[i]
      BY <1>2, <2>3, <3>1 DEF Deposited
    <3>5. D = Total(n, f) /\ E = Total(n, g)
      BY <2>1, <2>3
    <3> HIDE DEF n, f, g
    <3>6. Total(n, f) = Total(n, g) + f[o]
      BY <3>1, <3>2, <3>3, <3>4, TotalOfLess
    <3>7. Total(n, g) \in Nat
      BY <3>1, <3>2, TotalCounts
    <3> QED
      BY <3>3, <3>5, <3>6, <3>7
  <2>5. /\ funds["escrow"][b] \in Nat /\ given["escrow"][b] \in Nat
    BY <1>0, BookTypes
  <2>6. /\ funds'["escrow"][b] = IF b = a THEN funds["escrow"][b] - x ELSE funds["escrow"][b]
        /\ funds'["treasury"][b] = funds["treasury"][b]
        /\ given' = given /\ collected' = collected /\ withdrawn' = withdrawn
        /\ swapFees' = swapFees /\ setup' = setup
    BY <1>2, <1>4, <1>7
  <2>7. PICK y \in Nat : y = IF b = a THEN x ELSE 0
    BY <1>3
  <2>8. funds'["escrow"][b] = funds["escrow"][b] - y /\ D = E + y
    BY <2>4, <2>5, <2>6, <2>7
  <2>9. PICK v \in Nat : v = IF setup.treasury THEN 0 ELSE F
    BY <2>2
  <2>10. funds["escrow"][b] = D + given["escrow"][b] + v
    BY <2>2, <2>9 DEF Book
  <2>11. funds'["escrow"][b] = E + given["escrow"][b] + v
    <3>1. E \in Nat
      BY <2>4
    <3>2. funds["escrow"][b] = (E + y) + given["escrow"][b] + v
      BY <2>8, <2>10
    <3> QED
      BY <2>5, <2>8, <3>1, <3>2
  <2>12. Book(b, E, F)'
    BY <2>2, <2>6, <2>9, <2>11 DEF Book
  <2> QED
    BY <2>1, <2>3, <2>12 DEF Book
<1> QED
  BY <1>8, <1>9 DEF LedgersAgree, Book

LEMMA EscrowStep == LedgersAgree /\ [EscrowNext]_escrowVars => LedgersAgree'
<1> SUFFICES ASSUME LedgersAgree, [EscrowNext]_escrowVars PROVE LedgersAgree'
  OBVIOUS
<1>0. EscrowTypeOK
  BY DEF LedgersAgree
<1>1. CASE \E a \in Assets, x \in Sums, n \in Nonces, d \in Deadlines : Initiate(a, x, n, d)
  BY <1>1, InitiateKeeps
<1>2. CASE \E o \in DOMAIN orders : Refund(o)
  BY <1>2, RefundKeeps
<1>3. CASE \E x \in Sums, left \in {0, 1} : RouterSwap(x, left)
  BY <1>3, RouterSwapKeeps
<1>4. CASE \E a \in Assets, x \in Sums \cup {1} : Withdraw(a, x) \/ RescueToken(a, x)
  BY <1>4, TakeOutKeeps DEF Withdraw, RescueToken
<1>5. CASE \E h \in {"escrow", "treasury"}, a \in Assets, x \in Sums : Give(h, a, x)
  BY <1>5, GiveKeeps
<1>6. CASE \/ \E o \in DOMAIN orders : Fulfill(o)
           \/ \E r \in Routers, bps \in Rates : SetRate(r, bps)
           \/ \E r \in Routers : SetFeeCollector(r)
           \/ SetSolverAuthorization \/ SetEmergencyPause \/ EmergencyPause \/ Resume
           \/ Tick \/ UNCHANGED escrowVars
  <2>1. /\ EscrowTypeOK'
        /\ UNCHANGED <<orders, refunded, setup, funds, collected, given, withdrawn, swapFees>>
    BY <1>0, <1>6, SettingsKeepTypes
  <2> QED
    BY <2>1, QuietKeeps
<1> QED
  BY <1>1, <1>2, <1>3, <1>4, <1>5, <1>6 DEF EscrowNext

\* Every coin of the escrow and of the treasury is accounted for, for any
\* assets, amounts, fees, deadlines and setups and any number of orders.
THEOREM LedgersAlwaysAgree == EscrowSpec => []LedgersAgree
BY EscrowStarts, EscrowStep, PTL DEF EscrowSpec

\* The escrow can pay the refund of every order that has not had one.
RefundsCovered ==
  \A o \in DOMAIN orders \ refunded : Refunded(o) <= funds["escrow"][orders[o].asset]

\* The balance check of refundExpiredOrder never stands in the way of a refund,
\* whatever fees left for a treasury that was not there and whatever other
\* orders were refunded before.
THEOREM RefundsAreCovered == EscrowSpec => []RefundsCovered
<1>1. LedgersAgree => RefundsCovered
  <2> SUFFICES ASSUME LedgersAgree, NEW o \in DOMAIN orders \ refunded
               PROVE  Refunded(o) <= funds["escrow"][orders[o].asset]
    BY DEF RefundsCovered
  <2>0. EscrowTypeOK /\ Books
    BY LedgersAreBooks
  <2>1. PICK a, n : a = orders[o].asset /\ n = Len(orders)
    OBVIOUS
  <2>2. /\ n \in Nat /\ o \in 1..n /\ a \in Assets /\ Refunded(o) \in Nat
        /\ Deposited(a) \in [1..n -> Nat] /\ Charged(a) \in [1..n -> Nat]
    BY <2>0, <2>1, OrderFacts DEF OrderType, Refunded
  <2>3. Deposited(a)[o] = Refunded(o)
    BY <2>1 DEF Deposited, Refunded
  <2>4. PICK D, F : D = Total(n, Deposited(a)) /\ F = Total(n, Charged(a))
    OBVIOUS
  <2>5. Refunded(o) <= D /\ D \in Nat /\ F \in Nat
    BY <2>2, <2>3, <2>4, TotalCovers, TotalCounts
  <2>6. Book(a, D, F)
    BY <2>0, <2>1, <2>2, <2>4 DEF Books
  <2>7. PICK v \in Nat : v = IF setup.treasury THEN 0 ELSE F
    BY <2>5
  <2>8. funds["escrow"][a] = D + given["escrow"][a] + v /\ given["escrow"][a] \in Nat
    BY <2>0, <2>2, <2>6, <2>7, BookTypes DEF Book
  <2> QED
    BY <2>1, <2>2, <2>5, <2>8
<1> QED
  BY <1>1, LedgersAlwaysAgree, PTL
=============================================================================
