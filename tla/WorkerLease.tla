----------------------------- MODULE WorkerLease -----------------------------
(***************************************************************************)
(* The lease service of the repository as its clients see it.  A call (one *)
(* run of executeTrade or of recoverPlan) belongs to a worker; it acquires *)
(* a lease on a resource, works, and releases it in its finally block.     *)
(* Recovery reclaims expired leases in two steps: it lists the expired     *)
(* rows, then releases them one await at a time by (resource, worker).     *)
(***************************************************************************)
EXTENDS LeaseTable

ASSUME LeaseAssumption ==
  /\ WorkerOf \in [Calls -> Workers]
  /\ NoWorker \notin Workers
  /\ Nothing \notin Resources
  /\ Term \in Nat \ {0}
  /\ MaxTime \in Nat

vars == <<leases, now, grant, listed, claimed, reclaimed>>
history == <<claimed, reclaimed>>

Lease   == [owner : Workers \cup {NoWorker}, expires : Nat]
NoGrant == [res |-> Nothing, until |-> 0]

TypeOK ==
  /\ leases \in [Resources -> Lease]
  /\ now \in 0..MaxTime
  /\ grant \in [Calls -> [res : Resources \cup {Nothing}, until : Nat]]
  /\ listed \in [Recoverers -> SUBSET (Resources \X Workers)]
  /\ claimed \in SUBSET (Resources \X Workers)
  /\ reclaimed \in SUBSET (Resources \X Workers)

Init ==
  /\ leases = [r \in Resources |-> NoLease]
  /\ now = 0
  /\ grant = [c \in Calls |-> NoGrant]
  /\ listed = [v \in Recoverers |-> {}]
  /\ claimed = {}
  /\ reclaimed = {}

(***************************************************************************)
(* Operations.  A refused acquire or renew changes nothing.                *)
(***************************************************************************)
AcquireLease(c, r) ==
  LET w == WorkerOf[c] IN
  /\ grant[c] = NoGrant
  /\ CanAcquire(leases[r], w, now)
  /\ leases' = [leases EXCEPT ![r] = Granted(w, now, Term)]
  /\ grant'  = [grant EXCEPT ![c] = [res |-> r, until |-> now + Term]]
  /\ claimed' = claimed \cup {<<r, w>>}
  /\ reclaimed' = reclaimed \cup (claimed \cap {<<r, w>>})
  /\ UNCHANGED <<now, listed>>

\* Variant: adds a term to what is left of the lease.
RenewFromEnd(c) ==
  LET r == grant[c].res
      w == WorkerOf[c] IN
  /\ r # Nothing
  /\ CanRenew(leases[r], w, now)
  /\ leases' = [leases EXCEPT ![r].expires = @ + Term]
  /\ grant'  = [grant EXCEPT ![c].until = leases[r].expires + Term]
  /\ UNCHANGED <<now, listed, history>>

RenewLease(c) ==
  LET r == grant[c].res
      w == WorkerOf[c] IN
  /\ r # Nothing
  /\ CanRenew(leases[r], w, now)
  /\ leases' = [leases EXCEPT ![r] = Granted(w, now, Term)]
  /\ grant'  = [grant EXCEPT ![c].until = now + Term]
  /\ UNCHANGED <<now, listed, history>>

ReleaseLease(c) ==
  LET r == grant[c].res IN
  /\ r # Nothing
  /\ leases' = [leases EXCEPT ![r] = Released(@, WorkerOf[c])]
  /\ grant'  = [grant EXCEPT ![c] = NoGrant]
  /\ UNCHANGED <<now, listed, history>>

\* A worker's process dies: its calls are gone, its lease rows stay.
Crash(w) ==
  /\ \E c \in Calls : WorkerOf[c] = w /\ grant[c] # NoGrant
  /\ grant' = [c \in Calls |-> IF WorkerOf[c] = w THEN NoGrant ELSE grant[c]]
  /\ UNCHANGED <<leases, now, listed, history>>

ExpiredRows ==
  {<<r, leases[r].owner>> : r \in {q \in Resources : Expired(leases[q], now)}}

ListExpiredLeases(v) ==
  /\ listed[v] = {}
  /\ ExpiredRows # {}
  /\ listed' = [listed EXCEPT ![v] = ExpiredRows]
  /\ UNCHANGED <<leases, now, grant, history>>

ReclaimListed(v) ==
  \E row \in listed[v] :
    /\ leases' = [leases EXCEPT ![row[1]] = Released(@, row[2])]
    /\ listed' = [listed EXCEPT ![v] = @ \ {row}]
    /\ UNCHANGED <<now, grant, history>>

Tick ==
  /\ now < MaxTime
  /\ now' = now + 1
  /\ UNCHANGED <<leases, grant, listed, history>>

Next ==
  \/ \E c \in Calls, r \in Resources : AcquireLease(c, r)
  \/ \E c \in Calls : RenewLease(c) \/ ReleaseLease(c)
  \/ \E w \in Workers : Crash(w)
  \/ \E v \in Recoverers : ListExpiredLeases(v) \/ ReclaimListed(v)
  \/ Tick

Spec == Init /\ [][Next]_vars
=============================================================================
