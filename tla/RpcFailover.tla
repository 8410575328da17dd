---------------------------- MODULE RpcFailover ----------------------------
(***************************************************************************)
(* The RPC providers of one chain: the circuit breaker each has in         *)
(* MultiProviderRpcManager, and the calls of MultiProviderRpcClient that   *)
(* pick providers, fail over between them and report how they did.  The    *)
(* engine's calls share the manager and run from one await to the next, so *)
(* a call works through a list of providers taken before its first await,  *)
(* and reports on circuits that others have opened or closed meanwhile.    *)
(*                                                                         *)
(* Counters are kept up to the threshold they are compared with.           *)
(***************************************************************************)
EXTENDS Integers, Sequences, FiniteSets

CONSTANTS
  Providers,
  Priority,          \* of each provider; equals are ordered by how they do
  Calls,             \* bound: calls of the client under way at once
  FailureThreshold,  \* failures in a row that open a circuit
  SuccessThreshold,  \* successes in a row that close one
  Cooldown,          \* circuitOpenCooldownMs
  Ban,               \* the cooldown after a foreign chain id, a day
  MaxRetries,        \* providers a read tries
  MaxChecks          \* bound: checks of a provider's chain id

ASSUME RpcAssumption ==
  /\ Priority \in [Providers -> Nat]
  /\ FailureThreshold \in Nat \ {0} /\ SuccessThreshold \in Nat \ {0}
  /\ Cooldown \in Nat /\ Ban \in Nat /\ Cooldown <= Ban
  /\ MaxRetries \in Nat \ {0} /\ MaxChecks \in Nat
  /\ IsFiniteSet(Providers)

VARIABLES
  status, circuit,   \* of each provider, ProviderEndpointHealth
  failures, successes,
  wait,              \* of each provider, what is left until circuitResetTimers
  call,              \* the calls under way, or how they ended
  checking,          \* the providers whose chain id is being asked for
  checks             \* chain ids checked so far

health == <<status, circuit, failures, successes, wait>>
vars == <<health, call, checking, checks>>

Statuses == {"HEALTHY", "DEGRADED", "RECOVERING", "UNHEALTHY", "CIRCUIT_OPEN"}

\* A call: the list it took and its place in it; whether a provider took its
\* transaction, and how many it was sent to; and what its caller is told.
CallOf(pc, kind, list) ==
  [pc |-> pc, kind |-> kind, list |-> list, at |-> 1,
   taken |-> FALSE, sends |-> 0, told |-> "nothing"]
Idle == CallOf("ended", "none", <<>>)

Lists == UNION {[1..n -> Providers] : n \in 0..Cardinality(Providers)}
CallStates == [pc : {"sent", "backoff", "ended"}, kind : {"none", "read", "broadcast"},
               list : Lists, at : 1..(Cardinality(Providers) + 1),
               taken : BOOLEAN, sends : 0..Cardinality(Providers),
               told : {"nothing", "ok", "rejected", "uncertain", "unavailable"}]

TypeOK ==
  /\ status \in [Providers -> Statuses]
  /\ circuit \in [Providers -> {"CLOSED", "OPEN", "HALF_OPEN"}]
  /\ failures \in [Providers -> 0..FailureThreshold]
  /\ successes \in [Providers -> 0..SuccessThreshold]
  /\ wait \in [Providers -> 0..Ban]
  /\ call \in [Calls -> CallStates]
  /\ checking \subseteq Providers
  /\ checks \in 0..MaxChecks

Init ==
  /\ status = [p \in Providers |-> "HEALTHY"]
  /\ circuit = [p \in Providers |-> "CLOSED"]
  /\ failures = [p \in Providers |-> 0]
  /\ successes = [p \in Providers |-> 0]
  /\ wait = [p \in Providers |-> 0]
  /\ call = [c \in Calls |-> Idle]
  /\ checking = {}
  /\ checks = 0

Upto(n, bound) == IF n < bound THEN n ELSE bound

-----------------------------------------------------------------------------
(* The manager.                                                            *)

Trip(p, cooldown, as) ==
  /\ circuit' = [circuit EXCEPT ![p] = "OPEN"]
  /\ status' = [status EXCEPT ![p] = as]
  /\ wait' = [wait EXCEPT ![p] = cooldown]

\* Variant: only a half open circuit is closed.
RecordSuccessByStatus(p) ==
  LET n == Upto(successes[p] + 1, SuccessThreshold)
      probation == circuit[p] = "HALF_OPEN" \/ status[p] \in {"RECOVERING", "DEGRADED"} IN
  /\ failures' = [failures EXCEPT ![p] = 0]
  /\ successes' = [successes EXCEPT ![p] = n]
  /\ status' = [status EXCEPT ![p] = IF probation /\ n >= SuccessThreshold THEN "HEALTHY"
                                     ELSE IF @ = "UNHEALTHY" THEN "DEGRADED" ELSE @]
  /\ circuit' = [circuit EXCEPT ![p] = IF @ = "HALF_OPEN" /\ n >= SuccessThreshold THEN "CLOSED" ELSE @]
  /\ UNCHANGED wait

RecordSuccess(p) ==
  LET n == Upto(successes[p] + 1, SuccessThreshold)
      probation == circuit[p] = "HALF_OPEN" \/ status[p] \in {"RECOVERING", "DEGRADED"} IN
  /\ failures' = [failures EXCEPT ![p] = 0]
  /\ successes' = [successes EXCEPT ![p] = n]
  /\ IF probation /\ n >= SuccessThreshold
     THEN /\ status' = [status EXCEPT ![p] = "HEALTHY"]
          /\ circuit' = [circuit EXCEPT ![p] = "CLOSED"]
          /\ wait' = [wait EXCEPT ![p] = 0]
     ELSE /\ status' = IF status[p] = "UNHEALTHY"
                       THEN [status EXCEPT ![p] = "DEGRADED"] ELSE status
          /\ UNCHANGED <<circuit, wait>>

\* An error of the request itself counts, and opens no circuit.
RecordFailure(p, retryable) ==
  LET n == Upto(failures[p] + 1, FailureThreshold) IN
  /\ successes' = [successes EXCEPT ![p] = 0]
  /\ failures' = [failures EXCEPT ![p] = n]
  /\ IF retryable /\ (n >= FailureThreshold \/ circuit[p] = "HALF_OPEN")
     THEN Trip(p, Cooldown, "CIRCUIT_OPEN")
     ELSE /\ status' = IF retryable /\ status[p] = "HEALTHY"
                       THEN [status EXCEPT ![p] = "DEGRADED"] ELSE status
          /\ UNCHANGED <<circuit, wait>>

\* selectEligibleEndpoints: circuits whose cooldown is over are half opened,
\* and the providers left are ordered.

\* Variant: a provider marked unhealthy is passed over before its timer is read.
DueUnlessUnhealthy(p) == circuit[p] = "OPEN" /\ wait[p] = 0 /\ status[p] # "UNHEALTHY"

Due(p) == circuit[p] = "OPEN" /\ wait[p] = 0
Eligible(p) == (circuit[p] # "OPEN" /\ status[p] # "UNHEALTHY") \/ Due(p)

HalfOpen ==
  /\ circuit' = [p \in Providers |-> IF Due(p) THEN "HALF_OPEN" ELSE circuit[p]]
  /\ status' = [p \in Providers |-> IF Due(p) THEN "RECOVERING" ELSE status[p]]
  /\ UNCHANGED <<failures, successes, wait>>

IsSelection(list) ==
  /\ {list[i] : i \in DOMAIN list} = {p \in Providers : Eligible(p)}
  /\ Len(list) = Cardinality({p \in Providers : Eligible(p)})
  /\ \A i, j \in DOMAIN list : i < j => Priority[list[i]] <= Priority[list[j]]

Tick ==
  /\ \E p \in Providers : wait[p] > 0
  /\ wait' = [p \in Providers |-> IF wait[p] > 0 THEN wait[p] - 1 ELSE 0]
  /\ UNCHANGED <<status, circuit, failures, successes, call, checking, checks>>

-----------------------------------------------------------------------------
(* The client.                                                             *)

SendTo(k) == [k EXCEPT !.pc = "sent", !.sends = @ + 1]
Tell(k, what) ==  \* of a read nothing is kept
  IF k.kind = "read" THEN Idle
  ELSE [k EXCEPT !.pc = "ended", !.list = <<>>, !.told = what]

\* executeReadOnly, executePreBroadcast, executeBroadcast, to their first fetch.
Begin(c, kind) ==
  /\ call[c].pc = "ended"
  /\ HalfOpen
  /\ \E list \in Lists :
       /\ IsSelection(list)
       /\ LET k == CallOf("sent", kind, list) IN
          call' = [call EXCEPT ![c] = IF list = <<>> THEN Tell(k, "unavailable") ELSE SendTo(k)]
  /\ UNCHANGED <<checking, checks>>

Asked(c) == call[c].list[call[c].at]

\* The provider's answer arrives.
Answer(c) ==
  /\ call[c].pc = "sent"
  /\ RecordSuccess(Asked(c))
  /\ LET taken == call[c].taken \/ call[c].kind = "broadcast" IN
     call' = [call EXCEPT ![c] = Tell([@ EXCEPT !.taken = taken], "ok")]
  /\ UNCHANGED <<checking, checks>>

\* The provider refuses: a revert, too little balance, a transaction it has.
Refuse(c) ==
  /\ call[c].pc = "sent"
  /\ RecordFailure(Asked(c), FALSE)
  /\ call' = [call EXCEPT ![c] = Tell(@, "rejected")]
  /\ UNCHANGED <<checking, checks>>

\* executeWithFailover's next turn: another provider of the list, or none left.
Turn(k) ==
  IF k.at < Len(k.list) /\ k.at < MaxRetries
  THEN [k EXCEPT !.pc = "backoff", !.at = @ + 1]
  ELSE Tell(k, "unavailable")

\* Variant: broadcasts fail over like reads.
AfterLossOfAny(k) == Turn(k)

AfterLoss(k) == IF k.kind = "broadcast" THEN Tell(k, "uncertain") ELSE Turn(k)

\* A time-out, a lost connection, a server's error: the transaction may be out.
Lose(c) ==
  /\ call[c].pc = "sent"
  /\ RecordFailure(Asked(c), TRUE)
  /\ \E taken \in {call[c].taken, call[c].kind = "broadcast"} :
       call' = [call EXCEPT ![c] = AfterLoss([@ EXCEPT !.taken = taken])]
  /\ UNCHANGED <<checking, checks>>

\* The end of the backoff: the list is not looked at anew.
Resume(c) ==
  /\ call[c].pc = "backoff"
  /\ call' = [call EXCEPT ![c] = SendTo(@)]
  /\ UNCHANGED <<health, checking, checks>>

\* validateChainIdentity, of any provider whatever its circuit.
Check(p) ==
  /\ checks < MaxChecks /\ p \notin checking
  /\ checking' = checking \cup {p}
  /\ checks' = checks + 1
  /\ UNCHANGED <<health, call>>

CheckEnds(p) ==
  /\ p \in checking
  /\ checking' = checking \ {p}
  /\ UNCHANGED <<call, checks>>

ChainMatches(p) == CheckEnds(p) /\ UNCHANGED health

ChainForeign(p) ==
  /\ CheckEnds(p)
  /\ Trip(p, Ban, "UNHEALTHY")
  /\ UNCHANGED <<failures, successes>>

ChainUnknown(p) == CheckEnds(p) /\ RecordFailure(p, TRUE)

Receive(c) == Answer(c) \/ Refuse(c) \/ Lose(c) \/ Resume(c)

Next ==
  \/ Tick
  \/ \E c \in Calls :
       \/ \E kind \in {"read", "broadcast"} : Begin(c, kind)
       \/ Receive(c)
  \/ \E p \in Providers : Check(p) \/ ChainMatches(p) \/ ChainForeign(p) \/ ChainUnknown(p)

\* Requests end, by their time-outs at the latest; backoffs end; time passes;
\* and the engine's loops go on reading the chain.
Fairness ==
  /\ WF_vars(Tick)
  /\ \A c \in Calls : WF_vars(Receive(c)) /\ WF_vars(Begin(c, "read"))

Spec == Init /\ [][Next]_vars
FairSpec == Spec /\ Fairness

-----------------------------------------------------------------------------
(* Properties.                                                             *)

\* Status and circuit are written side by side by callbacks in any order, and
\* never contradict each other: selection relies on it when it looks at one of
\* them, recordSuccess when it looks at the other.
HealthAgrees ==
  /\ TypeOK
  /\ \A p \in Providers :
       /\ circuit[p] = "CLOSED" => status[p] \in {"HEALTHY", "DEGRADED"} /\ wait[p] = 0
       /\ circuit[p] = "HALF_OPEN" => status[p] = "RECOVERING" /\ wait[p] = 0
       /\ circuit[p] = "OPEN" => status[p] \in {"CIRCUIT_OPEN", "UNHEALTHY", "DEGRADED"}

\* What the sender of a transaction is told is true of the mempool, whichever
\* answers were lost: it is sent once at most, "unavailable" means that it
\* went nowhere, "rejected" that this call did not put it there, and a
\* transaction that a provider took is never reported as one that was not.
BroadcastIsTold ==
  \A c \in Calls :
    LET k == call[c] IN
    k.kind = "broadcast" /\ k.pc = "ended" =>
      /\ k.sends <= 1
      /\ k.told = "unavailable" => k.sends = 0
      /\ k.told = "rejected" => ~k.taken
      /\ k.taken => k.told \in {"ok", "uncertain"}

\* No provider is given up for good: an open circuit, after failures or after
\* a foreign chain id, is tried again.
OpenIsTried == \A p \in Providers : circuit[p] = "OPEN" ~> circuit[p] # "OPEN"

=============================================================================
