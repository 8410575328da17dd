------------------------- MODULE RpcFailoverProofs -------------------------
(***************************************************************************)
(* What the RPC client promises, for any number of providers and calls and *)
(* any thresholds: the health of a provider never contradicts its circuit, *)
(* and the sender of a transaction is told the truth.                      *)
(***************************************************************************)
EXTENDS RpcFailover, TLAPS, FiniteSetTheorems

Unfinished == {"sent", "backoff"}

-----------------------------------------------------------------------------
(* Lists of providers.                                                     *)

LEMMA ManyProviders == Cardinality(Providers) \in Nat
BY FS_CardinalityType, RpcAssumption

LEMMA EmptyIsList == <<>> \in Lists
<1>1. <<>> \in [1..0 -> Providers]
  OBVIOUS
<1> QED
  BY <1>1, ManyProviders DEF Lists

\* A list of providers is no longer than there are providers.
LEMMA ListBound ==
  ASSUME NEW list \in Lists
  PROVE  /\ Len(list) \in 0..Cardinality(Providers)
         /\ \A i \in 1..Len(list) : list[i] \in Providers
         /\ list # <<>> => Len(list) > 0
<1>1. PICK n \in 0..Cardinality(Providers) : list \in [1..n -> Providers]
  BY DEF Lists
<1>2. Len(list) = n
  BY <1>1, ManyProviders
<1>3. list # <<>> => n # 0
  BY <1>1
<1> QED
  BY <1>1, <1>2, <1>3, ManyProviders

-----------------------------------------------------------------------------
(* The health of the providers: HealthAgrees but for the calls' types.     *)

Health ==
  /\ status \in [Providers -> Statuses]
  /\ circuit \in [Providers -> {"CLOSED", "OPEN", "HALF_OPEN"}]
  /\ failures \in [Providers -> 0..FailureThreshold]
  /\ successes \in [Providers -> 0..SuccessThreshold]
  /\ wait \in [Providers -> 0..Ban]
  /\ \A p \in Providers :
       /\ circuit[p] = "CLOSED" => status[p] \in {"HEALTHY", "DEGRADED"} /\ wait[p] = 0
       /\ circuit[p] = "HALF_OPEN" => status[p] = "RECOVERING" /\ wait[p] = 0
       /\ circuit[p] = "OPEN" => status[p] \in {"CIRCUIT_OPEN", "UNHEALTHY", "DEGRADED"}

LEMMA UptoBound ==
  ASSUME NEW bound \in Nat, NEW n \in 0..bound
  PROVE  Upto(n + 1, bound) \in 0..bound
BY DEF Upto

LEMMA SuccessKeepsHealth ==
  ASSUME Health, NEW p \in Providers, RecordSuccess(p)
  PROVE  Health'
<1> DEFINE n == Upto(successes[p] + 1, SuccessThreshold)
<1>1. n \in 0..SuccessThreshold
  BY UptoBound, RpcAssumption DEF Health
<1>2. failures' \in [Providers -> 0..FailureThreshold] /\ successes' \in [Providers -> 0..SuccessThreshold]
  BY <1>1, RpcAssumption DEF Health, RecordSuccess
<1>3. CASE /\ circuit[p] = "HALF_OPEN" \/ status[p] \in {"RECOVERING", "DEGRADED"}
           /\ n >= SuccessThreshold
  <2>1. /\ status' = [status EXCEPT ![p] = "HEALTHY"]
        /\ circuit' = [circuit EXCEPT ![p] = "CLOSED"]
        /\ wait' = [wait EXCEPT ![p] = 0]
    BY <1>3 DEF RecordSuccess
  <2> QED
    BY <1>2, <2>1, RpcAssumption DEF Health, Statuses
<1>4. CASE ~(/\ circuit[p] = "HALF_OPEN" \/ status[p] \in {"RECOVERING", "DEGRADED"}
             /\ n >= SuccessThreshold)
  <2>1. /\ status' = IF status[p] = "UNHEALTHY"
                     THEN [status EXCEPT ![p] = "DEGRADED"] ELSE status
        /\ circuit' = circuit /\ wait' = wait
    BY <1>4 DEF RecordSuccess
  <2> QED
    BY <1>2, <2>1 DEF Health, Statuses
<1> QED
  BY <1>3, <1>4

LEMMA TripKeepsHealth ==
  ASSUME Health, NEW p \in Providers, NEW cooldown \in 0..Ban,
         NEW as \in {"CIRCUIT_OPEN", "UNHEALTHY"}, Trip(p, cooldown, as),
         failures' \in [Providers -> 0..FailureThreshold],
         successes' \in [Providers -> 0..SuccessThreshold]
  PROVE  Health'
BY DEF Trip, Health, Statuses

LEMMA FailureKeepsHealth ==
  ASSUME Health, NEW p \in Providers, NEW retryable \in BOOLEAN, RecordFailure(p, retryable)
  PROVE  Health'
<1> DEFINE n == Upto(failures[p] + 1, FailureThreshold)
<1>1. n \in 0..FailureThreshold
  BY UptoBound, RpcAssumption DEF Health
<1>2. failures' \in [Providers -> 0..FailureThreshold] /\ successes' \in [Providers -> 0..SuccessThreshold]
  BY <1>1, RpcAssumption DEF Health, RecordFailure
<1>3. CASE retryable /\ (n >= FailureThreshold \/ circuit[p] = "HALF_OPEN")
  <2>1. Trip(p, Cooldown, "CIRCUIT_OPEN")
    BY <1>3 DEF RecordFailure
  <2>2. Cooldown \in 0..Ban
    BY RpcAssumption
  <2> QED
    BY <1>2, <2>1, <2>2, TripKeepsHealth
<1>4. CASE ~(retryable /\ (n >= FailureThreshold \/ circuit[p] = "HALF_OPEN"))
  <2>1. /\ status' = IF retryable /\ status[p] = "HEALTHY"
                     THEN [status EXCEPT ![p] = "DEGRADED"] ELSE status
        /\ circuit' = circuit /\ wait' = wait
    BY <1>4 DEF RecordFailure
  <2> QED
    BY <1>2, <2>1 DEF Health, Statuses
<1> QED
  BY <1>3, <1>4

LEMMA HalfOpenKeepsHealth == Health /\ HalfOpen => Health'
BY DEF Health, HalfOpen, Due, Statuses

LEMMA TickKeepsHealth == Health /\ Tick => Health'
BY RpcAssumption DEF Health, Tick, Statuses

LEMMA SameHealth == Health /\ UNCHANGED health => Health'
BY DEF Health, health

LEMMA HealthStep == Health /\ (\A c \in Calls : call[c].pc = "sent" => Asked(c) \in Providers)
                      /\ [Next]_vars => Health'
<1> SUFFICES ASSUME Health, \A c \in Calls : call[c].pc = "sent" => Asked(c) \in Providers,
                    [Next]_vars
             PROVE  Health'
  OBVIOUS
<1>1. CASE Tick
  BY <1>1, TickKeepsHealth
<1>2. ASSUME NEW c \in Calls, NEW kind \in {"read", "broadcast"}, Begin(c, kind) PROVE Health'
  BY <1>2, HalfOpenKeepsHealth DEF Begin
<1>3. ASSUME NEW c \in Calls, Answer(c) PROVE Health'
  BY <1>3, SuccessKeepsHealth DEF Answer
<1>4. ASSUME NEW c \in Calls, Refuse(c) PROVE Health'
  BY <1>4, FailureKeepsHealth DEF Refuse
<1>5. ASSUME NEW c \in Calls, Lose(c) PROVE Health'
  BY <1>5, FailureKeepsHealth DEF Lose
<1>6. ASSUME NEW c \in Calls, Resume(c) PROVE Health'
  BY <1>6, SameHealth DEF Resume
<1>7. ASSUME NEW p \in Providers, Check(p) \/ ChainMatches(p) PROVE Health'
  BY <1>7, SameHealth DEF Check, ChainMatches
<1>8. ASSUME NEW p \in Providers, ChainForeign(p) PROVE Health'
  <2>1. Trip(p, Ban, "UNHEALTHY") /\ UNCHANGED <<failures, successes>> /\ Ban \in 0..Ban
    BY <1>8, RpcAssumption DEF ChainForeign
  <2> QED
    BY <2>1, TripKeepsHealth DEF Health
<1>9. ASSUME NEW p \in Providers, ChainUnknown(p) PROVE Health'
  BY <1>9, FailureKeepsHealth DEF ChainUnknown
<1>10. CASE UNCHANGED vars
  BY <1>10, SameHealth DEF vars
<1> QED
  BY <1>1, <1>2, <1>3, <1>4, <1>5, <1>6, <1>7, <1>8, <1>9, <1>10 DEF Next, Receive

-----------------------------------------------------------------------------
(* The calls.                                                              *)

\* What BroadcastIsTold says of a call k.
Told(k) ==
  k.kind = "broadcast" /\ k.pc = "ended" =>
    /\ k.sends <= 1
    /\ k.told = "unavailable" => k.sends = 0
    /\ k.told = "rejected" => ~k.taken
    /\ k.taken => k.told \in {"ok", "uncertain"}

\* A call under way is at a place of its list and has sent to it, or is about
\* to; a broadcast under way has sent once, and nothing of it is lost yet.
PlacedCall(k) ==
  /\ k.pc \in Unfinished => k.at \in 1..Len(k.list) /\ k.kind \in {"read", "broadcast"}
  /\ k.pc = "sent" => k.sends <= k.at
  /\ k.pc = "backoff" => k.sends < k.at /\ k.kind = "read"
  /\ k.pc = "sent" /\ k.kind = "broadcast" => k.sends = 1 /\ ~k.taken

Good(k) == k \in CallStates /\ Told(k) /\ PlacedCall(k)

LEMMA IdleIsGood == Good(Idle)
<1>1. 0 \in 0..Cardinality(Providers) /\ 1 \in 1..(Cardinality(Providers) + 1)
  BY ManyProviders
<1> QED
  BY <1>1, EmptyIsList DEF Good, Told, PlacedCall, Idle, CallOf, CallStates, Unfinished

\* A read that ends leaves nothing; a broadcast is told one of five things.
LEMMA TellIsGood ==
  ASSUME NEW k \in CallStates, k.kind \in {"read", "broadcast"},
         NEW what \in {"ok", "rejected", "uncertain", "unavailable"},
         k.kind = "broadcast" =>
           /\ k.sends <= 1
           /\ what = "unavailable" => k.sends = 0
           /\ what \in {"rejected", "unavailable"} => ~k.taken
  PROVE  Good(Tell(k, what))
<1>1. CASE k.kind = "read"
  BY <1>1, IdleIsGood DEF Tell
<1>2. CASE k.kind = "broadcast"
  <2>1. Tell(k, what) = [k EXCEPT !.pc = "ended", !.list = <<>>, !.told = what]
    BY <1>2 DEF Tell
  <2>2. Tell(k, what) \in CallStates
    BY <2>1, EmptyIsList DEF CallStates
  <2>3. Told(Tell(k, what)) /\ PlacedCall(Tell(k, what))
    BY <1>2, <2>1 DEF Told, PlacedCall, CallStates, Unfinished
  <2> QED
    BY <2>2, <2>3 DEF Good
<1> QED
  BY <1>1, <1>2

LEMMA BegunIsGood ==
  ASSUME NEW list \in Lists, list # <<>>, NEW kind \in {"read", "broadcast"}
  PROVE  Good(SendTo(CallOf("sent", kind, list)))
<1> DEFINE k == CallOf("sent", kind, list)
<1>1. Len(list) \in 1..Cardinality(Providers) /\ Cardinality(Providers) \in Nat
  BY ListBound, ManyProviders
<1>2. {0, 1} \subseteq 0..Cardinality(Providers) /\ 1 \in 1..(Cardinality(Providers) + 1)
  BY <1>1
<1>3. /\ k \in CallStates /\ k.kind = kind /\ k.list = list
      /\ k.at = 1 /\ k.sends = 0 /\ k.taken = FALSE
  BY <1>2 DEF CallOf, CallStates
<1> HIDE DEF k
<1>4. SendTo(k) = [k EXCEPT !.pc = "sent", !.sends = 1]
  BY <1>3 DEF SendTo
<1>5. SendTo(k) \in CallStates
  BY <1>2, <1>3, <1>4 DEF CallStates
<1>6. Told(SendTo(k)) /\ PlacedCall(SendTo(k))
  BY <1>1, <1>3, <1>4 DEF Told, PlacedCall, CallStates, Unfinished
<1>7. Good(SendTo(k))
  BY <1>5, <1>6 DEF Good
<1> QED
  BY <1>7 DEF k

LEMMA UnbegunIsGood ==
  ASSUME NEW kind \in {"read", "broadcast"}
  PROVE  Good(Tell(CallOf("sent", kind, <<>>), "unavailable"))
<1> DEFINE k == CallOf("sent", kind, <<>>)
<1>1. 0 \in 0..Cardinality(Providers) /\ 1 \in 1..(Cardinality(Providers) + 1)
  BY ManyProviders
<1>2. k \in CallStates /\ k.kind = kind /\ k.sends = 0 /\ k.taken = FALSE
  BY <1>1, EmptyIsList DEF CallOf, CallStates
<1> HIDE DEF k
<1>3. Good(Tell(k, "unavailable"))
  BY <1>2, TellIsGood
<1> QED
  BY <1>3 DEF k

\* The next turn of a read.
LEMMA TurnIsGood ==
  ASSUME NEW k, Good(k), k.pc = "sent", k.kind = "read"
  PROVE  Good(Turn(k))
<1>1. k \in CallStates /\ k.list \in Lists
  BY DEF Good, CallStates
<1>2. Len(k.list) \in 0..Cardinality(Providers) /\ Cardinality(Providers) \in Nat
  BY <1>1, ListBound, ManyProviders
<1>3. CASE k.at < Len(k.list) /\ k.at < MaxRetries
  <2>1. Turn(k) = [k EXCEPT !.pc = "backoff", !.at = k.at + 1]
    BY <1>1, <1>3 DEF Turn, CallStates
  <2>2. k.at \in 1..(Cardinality(Providers) + 1)
    BY <1>1 DEF CallStates
  <2>3. k.at + 1 \in 1..(Cardinality(Providers) + 1)
    BY <1>2, <1>3, <2>2
  <2>4. Turn(k) \in CallStates
    BY <1>1, <2>1, <2>3 DEF CallStates
  <2>5. Told(Turn(k)) /\ PlacedCall(Turn(k))
    BY <1>1, <1>2, <1>3, <2>1 DEF Good, Told, PlacedCall, CallStates, Unfinished
  <2> QED
    BY <2>4, <2>5 DEF Good
<1>4. CASE ~(k.at < Len(k.list) /\ k.at < MaxRetries)
  <2>1. Turn(k) = Tell(k, "unavailable")
    BY <1>4 DEF Turn
  <2> QED
    BY <1>1, <2>1, TellIsGood
<1> QED
  BY <1>3, <1>4

LEMMA ResumedIsGood ==
  ASSUME NEW k, Good(k), k.pc = "backoff"
  PROVE  Good(SendTo(k))
<1>1. k \in CallStates /\ k.list \in Lists
  BY DEF Good, CallStates
<1>2. Len(k.list) \in 0..Cardinality(Providers) /\ Cardinality(Providers) \in Nat
  BY <1>1, ListBound, ManyProviders
<1>3. k.at \in 1..Len(k.list) /\ k.sends < k.at /\ k.kind = "read"
  BY DEF Good, PlacedCall, Unfinished
<1>4. SendTo(k) = [k EXCEPT !.pc = "sent", !.sends = k.sends + 1]
  BY <1>1 DEF SendTo, CallStates
<1>5. k.sends \in 0..Cardinality(Providers)
  BY <1>1 DEF CallStates
<1>6. k.sends + 1 \in 0..Cardinality(Providers)
  BY <1>2, <1>3, <1>5
<1>7. SendTo(k) \in CallStates
  BY <1>1, <1>4, <1>6 DEF CallStates
<1>8. Told(SendTo(k)) /\ PlacedCall(SendTo(k))
  BY <1>1, <1>3, <1>4 DEF Told, PlacedCall, CallStates, Unfinished
<1> QED
  BY <1>7, <1>8 DEF Good

\* The three ways a request ends.
LEMMA EndIsGood ==
  ASSUME NEW k, Good(k), k.pc = "sent"
  PROVE  /\ Good(Tell([k EXCEPT !.taken = (k.taken \/ k.kind = "broadcast")], "ok"))
         /\ Good(Tell(k, "rejected"))
         /\ \A taken \in {k.taken, k.kind = "broadcast"} :
              Good(AfterLoss([k EXCEPT !.taken = taken]))
<1>1. k \in CallStates /\ k.kind \in {"read", "broadcast"}
  BY DEF Good, PlacedCall, Unfinished
<1>2. k.kind = "broadcast" => k.sends = 1 /\ ~k.taken
  BY DEF Good, PlacedCall
<1>3. Good(Tell(k, "rejected"))
  BY <1>1, <1>2, TellIsGood
<1>4. ASSUME NEW taken \in BOOLEAN
      PROVE  LET m == [k EXCEPT !.taken = taken] IN
             /\ m \in CallStates /\ m.kind = k.kind /\ m.sends = k.sends /\ m.pc = "sent"
             /\ k.kind = "read" => Good(m)
  <2> DEFINE m == [k EXCEPT !.taken = taken]
  <2>1. m \in CallStates /\ m.kind = k.kind /\ m.sends = k.sends /\ m.pc = "sent"
    BY <1>1 DEF CallStates
  <2>2. ASSUME k.kind = "read" PROVE Told(m) /\ PlacedCall(m)
    BY <1>1, <2>2 DEF Good, Told, PlacedCall, CallStates, Unfinished
  <2> QED
    BY <2>1, <2>2 DEF Good
<1>5. ASSUME NEW taken \in BOOLEAN PROVE Good(Tell([k EXCEPT !.taken = taken], "ok"))
  <2> DEFINE m == [k EXCEPT !.taken = taken]
  <2>1. m \in CallStates /\ m.kind = k.kind /\ m.sends = k.sends
    BY <1>4, <1>5
  <2> HIDE DEF m
  <2>2. Good(Tell(m, "ok"))
    BY <1>1, <1>2, <2>1, TellIsGood
  <2> QED
    BY <2>2 DEF m
<1>6. ASSUME NEW taken \in BOOLEAN PROVE Good(AfterLoss([k EXCEPT !.taken = taken]))
  <2> DEFINE m == [k EXCEPT !.taken = taken]
  <2>1. m \in CallStates /\ m.kind = k.kind /\ m.sends = k.sends /\ m.pc = "sent"
    BY <1>4, <1>6
  <2>2. k.kind = "read" => Good(m)
    BY <1>4, <1>6
  <2> HIDE DEF m
  <2>3. ASSUME k.kind = "read" PROVE Good(AfterLoss(m))
    BY <2>1, <2>2, <2>3, TurnIsGood DEF AfterLoss
  <2>4. ASSUME k.kind = "broadcast" PROVE Good(AfterLoss(m))
    BY <1>1, <1>2, <2>1, <2>4, TellIsGood DEF AfterLoss
  <2>5. Good(AfterLoss(m))
    BY <1>1, <2>3, <2>4
  <2> QED
    BY <2>5 DEF m
<1>7. {k.taken, k.kind = "broadcast"} \subseteq BOOLEAN /\ (k.taken \/ k.kind = "broadcast") \in BOOLEAN
  BY <1>1 DEF CallStates
<1> QED
  BY <1>3, <1>5, <1>6, <1>7

-----------------------------------------------------------------------------
(* The invariant.                                                          *)

CallsGood == call \in [Calls -> CallStates] /\ \A c \in Calls : Good(call[c])

RpcInv ==
  /\ Health
  /\ CallsGood
  /\ checking \subseteq Providers
  /\ checks \in 0..MaxChecks

\* Whoever awaits an answer has asked a provider for it.
LEMMA AskedIsProvider ==
  ASSUME CallsGood, NEW c \in Calls, call[c].pc \in Unfinished
  PROVE  Asked(c) \in Providers
<1>1. call[c].list \in Lists /\ call[c].at \in 1..Len(call[c].list)
  BY DEF CallsGood, Good, PlacedCall, CallStates
<1> QED
  BY <1>1, ListBound DEF Asked

LEMMA OneCallChanges ==
  ASSUME CallsGood, NEW c \in Calls, NEW k, Good(k), call' = [call EXCEPT ![c] = k]
  PROVE  CallsGood'
<1>1. k \in CallStates
  BY DEF Good
<1> QED
  BY <1>1 DEF CallsGood, Good, Told, PlacedCall, CallStates, Lists

LEMMA CallsStep ==
  ASSUME CallsGood, [Next]_vars
  PROVE  CallsGood'
<1>1. CASE UNCHANGED call
  BY <1>1 DEF CallsGood, Good, Told, PlacedCall, CallStates, Lists
<1>2. ASSUME NEW c \in Calls, NEW kind \in {"read", "broadcast"}, Begin(c, kind)
      PROVE  CallsGood'
  <2>1. PICK list \in Lists :
          call' = [call EXCEPT ![c] =
                     IF list = <<>> THEN Tell(CallOf("sent", kind, list), "unavailable")
                     ELSE SendTo(CallOf("sent", kind, list))]
    BY <1>2 DEF Begin
  <2>2. CASE list = <<>>
    BY <2>1, <2>2, UnbegunIsGood, OneCallChanges
  <2>3. CASE list # <<>>
    BY <2>1, <2>3, BegunIsGood, OneCallChanges
  <2> QED
    BY <2>2, <2>3
<1>3. ASSUME NEW c \in Calls, Answer(c) PROVE CallsGood'
  <2>1. Good(call[c]) /\ call[c].pc = "sent"
    BY <1>3 DEF Answer, CallsGood
  <2>2. call' = [call EXCEPT ![c] = Tell([call[c] EXCEPT !.taken =
                   (call[c].taken \/ call[c].kind = "broadcast")], "ok")]
    BY <1>3 DEF Answer
  <2> QED
    BY <2>1, <2>2, EndIsGood, OneCallChanges
<1>4. ASSUME NEW c \in Calls, Refuse(c) PROVE CallsGood'
  <2>1. /\ Good(call[c]) /\ call[c].pc = "sent"
        /\ call' = [call EXCEPT ![c] = Tell(call[c], "rejected")]
    BY <1>4 DEF Refuse, CallsGood
  <2> QED
    BY <2>1, EndIsGood, OneCallChanges
<1>5. ASSUME NEW c \in Calls, Lose(c) PROVE CallsGood'
  <2>1. Good(call[c]) /\ call[c].pc = "sent"
    BY <1>5 DEF Lose, CallsGood
  <2>2. PICK taken \in {call[c].taken, call[c].kind = "broadcast"} :
          call' = [call EXCEPT ![c] = AfterLoss([call[c] EXCEPT !.taken = taken])]
    BY <1>5 DEF Lose
  <2> QED
    BY <2>1, <2>2, EndIsGood, OneCallChanges
<1>6. ASSUME NEW c \in Calls, Resume(c) PROVE CallsGood'
  <2>1. /\ Good(call[c]) /\ call[c].pc = "backoff"
        /\ call' = [call EXCEPT ![c] = SendTo(call[c])]
    BY <1>6 DEF Resume, CallsGood
  <2> QED
    BY <2>1, ResumedIsGood, OneCallChanges
<1>7. ASSUME NEW p \in Providers,
             Check(p) \/ ChainMatches(p) \/ ChainForeign(p) \/ ChainUnknown(p)
      PROVE  UNCHANGED call
  BY <1>7 DEF Check, ChainMatches, ChainForeign, ChainUnknown, CheckEnds
<1>8. Tick \/ UNCHANGED vars => UNCHANGED call
  BY DEF Tick, vars
<1> QED
  BY <1>1, <1>2, <1>3, <1>4, <1>5, <1>6, <1>7, <1>8 DEF Next, Receive

LEMMA ChecksStep ==
  ASSUME checking \subseteq Providers, checks \in 0..MaxChecks, [Next]_vars
  PROVE  checking' \subseteq Providers /\ checks' \in 0..MaxChecks
<1>1. ASSUME NEW p \in Providers, Check(p)
      PROVE  checking' \subseteq Providers /\ checks' \in 0..MaxChecks
  BY <1>1, RpcAssumption DEF Check
<1>2. ASSUME NEW p \in Providers, CheckEnds(p)
      PROVE  checking' \subseteq Providers /\ checks' \in 0..MaxChecks
  BY <1>2 DEF CheckEnds
<1>3. ASSUME NEW p \in Providers, ChainMatches(p) \/ ChainForeign(p) \/ ChainUnknown(p)
      PROVE  CheckEnds(p)
  BY <1>3 DEF ChainMatches, ChainForeign, ChainUnknown
<1>4. ASSUME NEW c \in Calls, Receive(c) \/ \E kind \in {"read", "broadcast"} : Begin(c, kind)
      PROVE  UNCHANGED <<checking, checks>>
  BY <1>4 DEF Receive, Answer, Refuse, Lose, Resume, Begin
<1>5. Tick \/ UNCHANGED vars => UNCHANGED <<checking, checks>>
  BY DEF Tick, vars
<1> QED
  BY <1>1, <1>2, <1>3, <1>4, <1>5 DEF Next

LEMMA InvInit == Init => RpcInv
<1> SUFFICES ASSUME Init PROVE RpcInv
  OBVIOUS
<1>1. Health
  BY RpcAssumption DEF Init, Health, Statuses
<1>2. CallsGood
  BY IdleIsGood DEF Init, CallsGood, Good
<1> QED
  BY <1>1, <1>2, RpcAssumption DEF Init, RpcInv

LEMMA InvStep == RpcInv /\ [Next]_vars => RpcInv'
<1> SUFFICES ASSUME RpcInv, [Next]_vars PROVE RpcInv'
  OBVIOUS
<1>1. \A c \in Calls : call[c].pc = "sent" => Asked(c) \in Providers
  BY AskedIsProvider DEF RpcInv, Unfinished
<1>2. Health'
  BY <1>1, HealthStep DEF RpcInv
<1>3. CallsGood'
  BY CallsStep DEF RpcInv
<1>4. checking' \subseteq Providers /\ checks' \in 0..MaxChecks
  BY ChecksStep DEF RpcInv
<1> QED
  BY <1>2, <1>3, <1>4 DEF RpcInv

LEMMA InvGives == RpcInv => HealthAgrees /\ BroadcastIsTold
BY DEF RpcInv, Health, CallsGood, Good, Told, HealthAgrees, TypeOK, BroadcastIsTold

LEMMA InvHolds == Spec => []RpcInv
BY InvInit, InvStep, PTL DEF Spec

\* multiProviderRpcManager: however late and in whatever order calls report, a
\* provider's status and circuit never contradict each other.
THEOREM HealthAlwaysAgrees == Spec => []HealthAgrees
BY InvHolds, InvGives, PTL

\* multiProviderRpcClient: the sender of a transaction is told what is true of
\* it, and it is sent once at most, with any providers and thresholds.
THEOREM BroadcastAlwaysTold == Spec => []BroadcastIsTold
BY InvHolds, InvGives, PTL
=============================================================================
