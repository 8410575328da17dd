------------------------- MODULE StepExecutionProofs -------------------------
(***************************************************************************)
(* For every plan, every set of workers and calls and every set of faults: *)
(* the lease service keeps its promises, the coordinator is a client of    *)
(* it, what the coordinator records as done is mined, the plan's order     *)
(* holds on chain, and a swap executes twice only with a cause.            *)
(***************************************************************************)
EXTENDS StepExecution, TLAPS

(***************************************************************************)
(* The lease service: types, exclusion among sole claims and the one-term  *)
(* bound, for every number of resources, workers, calls and recoverers and *)
(* every term.                                                             *)
(***************************************************************************)
Holds(c) == grant[c].res # Nothing
Claim(c) == <<grant[c].res, WorkerOf[c]>>

\* Every row and every grant was claimed at least once.
ClaimsRecorded ==
  /\ reclaimed \subseteq claimed
  /\ \A r \in Resources : leases[r].owner # NoWorker => <<r, leases[r].owner>> \in claimed
  /\ \A c \in Calls : Holds(c) => Claim(c) \in claimed

\* Two calls hold one resource under one worker id only after a second claim.
SharedIsAgain ==
  \A c, d \in Calls : c # d /\ Holds(c) /\ Claim(c) = Claim(d) => Claim(c) \in reclaimed

\* The row backs a sole claim: it names the worker as long as the grant is
\* live, and while it names the worker it ends when the grant does.
RowBacksSoleClaim ==
  \A c \in Calls : Holds(c) /\ SoleClaim(c) =>
    /\ Live(c) => leases[grant[c].res].owner = WorkerOf[c]
    /\ leases[grant[c].res].owner = WorkerOf[c] => leases[grant[c].res].expires = grant[c].until

\* A listed row is of a worker whose sole grant, if it still has one, has run out.
ListedHasRunOut ==
  \A v \in Recoverers : \A row \in listed[v] :
    /\ row \in claimed
    /\ \/ row \in reclaimed
       \/ \A c \in Calls : Holds(c) /\ Claim(c) = row => grant[c].until <= now

LeaseInv ==
  /\ Leases!TypeOK
  /\ ClaimsRecorded
  /\ SharedIsAgain
  /\ RowBacksSoleClaim
  /\ ListedHasRunOut

-----------------------------------------------------------------------------

LEMMA LeaseAssumed == Leases!LeaseAssumption
BY StepAssumption DEF Leases!LeaseAssumption

LEMMA LeaseTypeInit == Leases!Init => Leases!TypeOK
BY LeaseAssumed DEF Leases!LeaseAssumption, Leases!Init, Leases!TypeOK, Leases!Lease,
   Leases!NoGrant, Leases!NoLease

LEMMA LeaseTypeStep == Leases!TypeOK /\ [Leases!Next]_(Leases!vars) => Leases!TypeOK'
<1> SUFFICES ASSUME Leases!TypeOK, [Leases!Next]_(Leases!vars) PROVE Leases!TypeOK'
  OBVIOUS
<1> USE LeaseAssumed DEF Leases!LeaseAssumption, Leases!TypeOK, Leases!Lease
<1>1. ASSUME NEW c \in Calls, NEW r \in Resources, Leases!AcquireLease(c, r) PROVE Leases!TypeOK'
  BY <1>1 DEF Leases!AcquireLease, Leases!Granted, Leases!history
<1>2. ASSUME NEW c \in Calls, Leases!RenewLease(c) PROVE Leases!TypeOK'
  BY <1>2 DEF Leases!RenewLease, Leases!Granted, Leases!history
<1>3. ASSUME NEW c \in Calls, Leases!ReleaseLease(c) PROVE Leases!TypeOK'
  BY <1>3 DEF Leases!ReleaseLease, Leases!history, Leases!Released, Leases!NoLease,
     Leases!NoGrant
<1>4. ASSUME NEW w \in Workers, Leases!Crash(w) PROVE Leases!TypeOK'
  BY <1>4 DEF Leases!Crash, Leases!history, Leases!NoGrant
<1>5. ASSUME NEW v \in Recoverers, Leases!ListExpiredLeases(v) PROVE Leases!TypeOK'
  <2>1. Leases!ExpiredRows \subseteq Resources \X Workers
    BY DEF Leases!ExpiredRows, Leases!Expired
  <2>2. QED BY <1>5, <2>1 DEF Leases!ListExpiredLeases, Leases!history
<1>6. ASSUME NEW v \in Recoverers, Leases!ReclaimListed(v) PROVE Leases!TypeOK'
  BY <1>6 DEF Leases!ReclaimListed, Leases!history, Leases!Released, Leases!NoLease
<1>7. CASE Leases!Tick
  BY <1>7 DEF Leases!Tick, Leases!history
<1>8. CASE UNCHANGED Leases!vars
  BY <1>8 DEF Leases!vars
<1>9. QED
  BY <1>1, <1>2, <1>3, <1>4, <1>5, <1>6, <1>7, <1>8 DEF Leases!Next

\* The rows, the clock, the grants, the listings and the history always have
\* their types: for the repository's lease table and its clients.
THEOREM LeaseTypes == Leases!Spec => []Leases!TypeOK
<1>1. QED BY LeaseTypeInit, LeaseTypeStep, PTL DEF Leases!Spec

-----------------------------------------------------------------------------

LEMMA LeaseInvInit == Leases!Init => LeaseInv
<1> SUFFICES ASSUME Leases!Init PROVE LeaseInv
  OBVIOUS
<1>1. Leases!TypeOK
  BY LeaseTypeInit
<1>2. ClaimsRecorded /\ SharedIsAgain /\ RowBacksSoleClaim /\ ListedHasRunOut
  BY LeaseAssumed DEF Leases!LeaseAssumption, Leases!Init, ClaimsRecorded, SharedIsAgain,
     RowBacksSoleClaim,
     ListedHasRunOut, Holds, Leases!NoLease, Leases!NoGrant
<1>3. QED
  BY <1>1, <1>2 DEF LeaseInv

LEMMA AcquireKeepsInv ==
  ASSUME LeaseInv, Leases!TypeOK', NEW c \in Calls, NEW r \in Resources, Leases!AcquireLease(c, r)
  PROVE  LeaseInv'
<1> DEFINE w == WorkerOf[c]
<1> USE LeaseAssumed DEF Leases!LeaseAssumption, Leases!TypeOK, Leases!Lease
<1>0. Leases!TypeOK
  BY DEF LeaseInv
<1>1. /\ leases' = [leases EXCEPT ![r] = [owner |-> w, expires |-> now + Term]]
      /\ grant' = [grant EXCEPT ![c] = [res |-> r, until |-> now + Term]]
      /\ claimed' = claimed \cup {<<r, w>>}
      /\ reclaimed' = reclaimed \cup (claimed \cap {<<r, w>>})
      /\ now' = now /\ listed' = listed
      /\ ~Holds(c)
      /\ w \in Workers
  BY <1>0 DEF Leases!AcquireLease, Leases!Granted, Holds, Leases!NoGrant
<1>2. \A d \in Calls \ {c} : grant'[d] = grant[d]
  BY <1>0, <1>1
<1>3. grant'[c] = [res |-> r, until |-> now + Term]
  BY <1>0, <1>1
<1>4. ClaimsRecorded'
  BY <1>0, <1>1, <1>2, <1>3 DEF LeaseInv, ClaimsRecorded, Holds, Claim
<1>5. SharedIsAgain'
  BY <1>0, <1>1, <1>2, <1>3 DEF LeaseInv, ClaimsRecorded, SharedIsAgain, Holds, Claim
<1>6. RowBacksSoleClaim'
  <2> SUFFICES ASSUME NEW d \in Calls, Holds(d)', SoleClaim(d)'
      PROVE /\ Live(d)' => leases'[grant'[d].res].owner = WorkerOf[d]
            /\ leases'[grant'[d].res].owner = WorkerOf[d]
                 => leases'[grant'[d].res].expires = grant'[d].until
    BY DEF RowBacksSoleClaim
  <2>1. CASE d = c
    BY <2>1, <1>0, <1>1, <1>3
  <2>2. CASE d # c /\ grant[d].res # r
    BY <2>2, <1>0, <1>1, <1>2 DEF LeaseInv, RowBacksSoleClaim, Holds, SoleClaim,
       Live
  <2>3. CASE d # c /\ grant[d].res = r
    <3>1. Holds(d) /\ SoleClaim(d)
      BY <2>3, <1>1, <1>2 DEF Holds, SoleClaim
    <3>2. WorkerOf[d] # w
      BY <2>3, <3>1, <1>1, <1>2 DEF LeaseInv, ClaimsRecorded, SoleClaim, Holds, Claim
    <3>3. ~Live(d)
      BY <2>3, <3>1, <3>2, <1>0 DEF LeaseInv, RowBacksSoleClaim, Leases!AcquireLease,
         Leases!CanAcquire,
         Leases!Expired, Live, Holds
    <3>4. QED
      BY <2>3, <3>2, <3>3, <1>0, <1>1, <1>2 DEF Live
  <2>4. QED
    BY <2>1, <2>2, <2>3
<1>7. ListedHasRunOut'
  <2> SUFFICES ASSUME NEW v \in Recoverers, NEW row \in listed[v]
      PROVE /\ row \in claimed'
            /\ \/ row \in reclaimed'
               \/ \A d \in Calls : Holds(d)' /\ Claim(d)' = row => grant'[d].until <= now
    BY <1>1 DEF ListedHasRunOut
  <2>1. row \in claimed
    BY DEF LeaseInv, ListedHasRunOut
  <2>2. CASE row = <<r, w>>
    BY <2>1, <2>2, <1>1
  <2>3. CASE row # <<r, w>>
    BY <2>1, <2>3, <1>1, <1>2, <1>3 DEF LeaseInv, ListedHasRunOut, Holds, Claim
  <2>4. QED
    BY <2>2, <2>3
<1>8. QED
  BY <1>4, <1>5, <1>6, <1>7 DEF LeaseInv

LEMMA RenewKeepsInv ==
  ASSUME LeaseInv, Leases!TypeOK', NEW c \in Calls, Leases!RenewLease(c)
  PROVE  LeaseInv'
<1> DEFINE r == grant[c].res
           w == WorkerOf[c]
<1> USE LeaseAssumed DEF Leases!LeaseAssumption, Leases!TypeOK, Leases!Lease
<1>0. Leases!TypeOK
  BY DEF LeaseInv
<1>1. /\ leases' = [leases EXCEPT ![r] = [owner |-> w, expires |-> now + Term]]
      /\ UNCHANGED <<claimed, reclaimed, now, listed>>
      /\ r \in Resources /\ w \in Workers
      /\ leases[r].owner = w /\ leases[r].expires > now
  BY <1>0 DEF Leases!RenewLease, Leases!Granted, Leases!CanRenew, Leases!history
<1>2. \A d \in Calls \ {c} : grant'[d] = grant[d]
  BY <1>0 DEF Leases!RenewLease
<1>3. grant'[c].res = r /\ grant'[c].until = now + Term
  BY <1>0 DEF Leases!RenewLease
<1>4. ClaimsRecorded'
  BY <1>0, <1>1, <1>2, <1>3 DEF LeaseInv, ClaimsRecorded, Holds, Claim
<1>5. SharedIsAgain'
  BY <1>0, <1>1, <1>2, <1>3 DEF LeaseInv, SharedIsAgain, Holds, Claim
<1>6. RowBacksSoleClaim'
  <2> SUFFICES ASSUME NEW d \in Calls, Holds(d)', SoleClaim(d)'
      PROVE /\ Live(d)' => leases'[grant'[d].res].owner = WorkerOf[d]
            /\ leases'[grant'[d].res].owner = WorkerOf[d]
                 => leases'[grant'[d].res].expires = grant'[d].until
    BY DEF RowBacksSoleClaim
  <2>1. CASE d = c
    BY <2>1, <1>0, <1>1, <1>3
  <2>2. CASE d # c /\ grant[d].res # r
    BY <2>2, <1>0, <1>1, <1>2 DEF LeaseInv, RowBacksSoleClaim, Holds, SoleClaim,
       Live
  <2>3. CASE d # c /\ grant[d].res = r
    <3>1. Holds(d) /\ SoleClaim(d)
      BY <2>3, <1>1, <1>2 DEF Holds, SoleClaim
    <3>2. WorkerOf[d] # w
      BY <2>3, <3>1, <1>1 DEF LeaseInv, SharedIsAgain, SoleClaim, Holds, Claim
    <3>3. ~Live(d)
      BY <2>3, <3>1, <3>2, <1>1 DEF LeaseInv, RowBacksSoleClaim
    <3>4. QED
      BY <2>3, <3>2, <3>3, <1>0, <1>1, <1>2 DEF Live
  <2>4. QED
    BY <2>1, <2>2, <2>3
<1>7. ListedHasRunOut'
  <2> SUFFICES ASSUME NEW v \in Recoverers, NEW row \in listed[v], row \notin reclaimed
      PROVE \A d \in Calls : Holds(d)' /\ Claim(d)' = row => grant'[d].until <= now
    BY <1>1 DEF LeaseInv, ListedHasRunOut
  <2>1. \A d \in Calls : Holds(d) /\ Claim(d) = row => grant[d].until <= now
    BY DEF LeaseInv, ListedHasRunOut
  <2>2. Claim(c) # row
    <3> SUFFICES ASSUME Claim(c) = row PROVE FALSE
      OBVIOUS
    <3>1. Holds(c) /\ SoleClaim(c)
      BY <1>1 DEF Holds, SoleClaim, Claim, Leases!RenewLease
    <3>2. leases[r].expires = grant[c].until
      BY <3>1, <1>1 DEF LeaseInv, RowBacksSoleClaim
    <3>3. grant[c].until <= now
      BY <2>1, <3>1
    <3>4. grant[c].until \in Nat /\ now \in Nat
      BY <1>0
    <3>5. QED
      BY <3>2, <3>3, <3>4, <1>1
  <2>3. QED
    BY <2>1, <2>2, <1>1, <1>2, <1>3 DEF Holds, Claim
<1>8. QED
  BY <1>4, <1>5, <1>6, <1>7 DEF LeaseInv

LEMMA ReleaseKeepsInv ==
  ASSUME LeaseInv, Leases!TypeOK', NEW c \in Calls, Leases!ReleaseLease(c)
  PROVE  LeaseInv'
<1> DEFINE r == grant[c].res
           w == WorkerOf[c]
<1> USE LeaseAssumed DEF Leases!LeaseAssumption, Leases!TypeOK, Leases!Lease
<1>0. Leases!TypeOK
  BY DEF LeaseInv
<1>1. /\ leases' = [leases EXCEPT ![r] = IF leases[r].owner = w THEN Leases!NoLease ELSE leases[r]]
      /\ UNCHANGED <<claimed, reclaimed, now, listed>>
      /\ r \in Resources /\ w \in Workers /\ Holds(c)
  BY <1>0 DEF Leases!ReleaseLease, Leases!Released, Leases!history, Holds
<1>2. \A d \in Calls \ {c} : grant'[d] = grant[d]
  BY <1>0 DEF Leases!ReleaseLease
<1>3. ~Holds(c)'
  BY <1>0 DEF Leases!ReleaseLease, Holds, Leases!NoGrant
<1>4. \A q \in Resources : leases'[q].owner \in {leases[q].owner, NoWorker}
  BY <1>0, <1>1 DEF Leases!NoLease
<1>5. ClaimsRecorded'
  BY <1>0, <1>1, <1>2, <1>3, <1>4 DEF LeaseInv, ClaimsRecorded, Holds, Claim
<1>6. SharedIsAgain'
  BY <1>0, <1>1, <1>2, <1>3 DEF LeaseInv, SharedIsAgain, Holds, Claim
<1>7. RowBacksSoleClaim'
  <2> SUFFICES ASSUME NEW d \in Calls, Holds(d)', SoleClaim(d)'
      PROVE /\ Live(d)' => leases'[grant'[d].res].owner = WorkerOf[d]
            /\ leases'[grant'[d].res].owner = WorkerOf[d]
                 => leases'[grant'[d].res].expires = grant'[d].until
    BY DEF RowBacksSoleClaim
  <2>1. d # c /\ Holds(d) /\ SoleClaim(d)
    BY <1>1, <1>2, <1>3 DEF Holds, SoleClaim
  <2>2. CASE grant[d].res # r
    BY <2>1, <2>2, <1>0, <1>1, <1>2 DEF LeaseInv, RowBacksSoleClaim, Live
  <2>3. CASE grant[d].res = r
    <3>1. WorkerOf[d] # w
      BY <2>1, <2>3 DEF LeaseInv, SharedIsAgain, SoleClaim, Holds, Claim
    <3>2. CASE leases[r].owner = w
      BY <2>1, <2>3, <3>1, <3>2, <1>0, <1>1, <1>2
         DEF LeaseInv, RowBacksSoleClaim, Live, Leases!NoLease
    <3>3. CASE leases[r].owner # w
      BY <2>1, <2>3, <3>3, <1>0, <1>1, <1>2 DEF LeaseInv, RowBacksSoleClaim, Live
    <3>4. QED
      BY <3>2, <3>3
  <2>4. QED
    BY <2>2, <2>3
<1>8. ListedHasRunOut'
  BY <1>1, <1>2, <1>3 DEF LeaseInv, ListedHasRunOut, Holds, Claim
<1>9. QED
  BY <1>5, <1>6, <1>7, <1>8 DEF LeaseInv

LEMMA CrashKeepsInv ==
  ASSUME LeaseInv, Leases!TypeOK', NEW w \in Workers, Leases!Crash(w)
  PROVE  LeaseInv'
<1>1. /\ UNCHANGED <<leases, now, listed, claimed, reclaimed>>
      /\ \A c \in Calls : Holds(c)' => grant'[c] = grant[c]
  BY DEF Leases!Crash, Leases!history, Holds, Leases!NoGrant, LeaseInv, Leases!TypeOK
<1>2. ClaimsRecorded'
  BY <1>1 DEF LeaseInv, ClaimsRecorded, Holds, Claim
<1>3. SharedIsAgain'
  <2> SUFFICES ASSUME NEW c \in Calls, NEW d \in Calls, c # d, Holds(c)', Claim(c)' = Claim(d)'
               PROVE  Claim(c)' \in reclaimed'
    BY DEF SharedIsAgain
  <2>1. Holds(d)'
    BY DEF Holds, Claim
  <2>2. QED
    BY <1>1, <2>1 DEF LeaseInv, SharedIsAgain, Holds, Claim
<1>4. RowBacksSoleClaim'
  BY <1>1 DEF LeaseInv, RowBacksSoleClaim, Holds, SoleClaim, Live
<1>5. ListedHasRunOut'
  BY <1>1 DEF LeaseInv, ListedHasRunOut, Holds, Claim
<1>6. QED
  BY <1>2, <1>3, <1>4, <1>5 DEF LeaseInv

LEMMA ListKeepsInv ==
  ASSUME LeaseInv, Leases!TypeOK', NEW v \in Recoverers, Leases!ListExpiredLeases(v)
  PROVE  LeaseInv'
<1>1. /\ UNCHANGED <<leases, now, grant, claimed, reclaimed>>
      /\ listed' = [listed EXCEPT ![v] = Leases!ExpiredRows]
  BY DEF Leases!ListExpiredLeases, Leases!history
<1>2. ClaimsRecorded' /\ SharedIsAgain' /\ RowBacksSoleClaim'
  BY <1>1 DEF LeaseInv, ClaimsRecorded, SharedIsAgain, RowBacksSoleClaim, Holds, Claim,
     SoleClaim, Live
<1>3. ASSUME NEW row \in Leases!ExpiredRows
      PROVE /\ row \in claimed
            /\ \/ row \in reclaimed
               \/ \A c \in Calls : Holds(c) /\ Claim(c) = row => grant[c].until <= now
  <2>1. PICK r \in Resources : row = <<r, leases[r].owner>> /\ Leases!Expired(leases[r], now)
    BY <1>3 DEF Leases!ExpiredRows
  <2>2. row \in claimed
    BY <2>1 DEF LeaseInv, ClaimsRecorded, Leases!Expired
  <2>3. ASSUME NEW c \in Calls, row \notin reclaimed, Holds(c), Claim(c) = row
        PROVE grant[c].until <= now
    BY <2>1, <2>3 DEF LeaseInv, RowBacksSoleClaim, SoleClaim, Claim, Leases!Expired
  <2>4. QED
    BY <2>2, <2>3
<1>4. ListedHasRunOut'
  <2> SUFFICES ASSUME NEW u \in Recoverers, NEW row \in listed'[u]
      PROVE /\ row \in claimed
            /\ \/ row \in reclaimed
               \/ \A c \in Calls : Holds(c) /\ Claim(c) = row => grant[c].until <= now
    BY <1>1 DEF ListedHasRunOut, Holds, Claim
  <2>1. CASE u = v
    BY <2>1, <1>1, <1>3 DEF LeaseInv, Leases!TypeOK
  <2>2. CASE u # v
    BY <2>2, <1>1 DEF LeaseInv, Leases!TypeOK, ListedHasRunOut
  <2>3. QED
    BY <2>1, <2>2
<1>5. QED
  BY <1>2, <1>4 DEF LeaseInv

LEMMA ReclaimKeepsInv ==
  ASSUME LeaseInv, Leases!TypeOK', NEW v \in Recoverers, Leases!ReclaimListed(v)
  PROVE  LeaseInv'
<1> USE LeaseAssumed DEF Leases!LeaseAssumption, Leases!TypeOK, Leases!Lease
<1>0. Leases!TypeOK
  BY DEF LeaseInv
<1>1. PICK row \in listed[v] :
        /\ leases' = [leases EXCEPT ![row[1]] = Leases!Released(@, row[2])]
        /\ listed' = [listed EXCEPT ![v] = @ \ {row}]
        /\ UNCHANGED <<now, grant, Leases!history>>
  BY DEF Leases!ReclaimListed
<1>2. row \in Resources \X Workers
  BY <1>0, <1>1
<1>3. PICK r \in Resources, w \in Workers : row = <<r, w>>
  BY <1>2
<1>4. /\ leases' = [leases EXCEPT ![r] = IF leases[r].owner = w THEN Leases!NoLease ELSE leases[r]]
      /\ UNCHANGED <<now, grant, claimed, reclaimed>>
  BY <1>1, <1>3 DEF Leases!Released, Leases!history
<1>5. \A q \in Resources : leases'[q].owner \in {leases[q].owner, NoWorker}
  BY <1>0, <1>4 DEF Leases!NoLease
<1>6. ClaimsRecorded' /\ SharedIsAgain'
  BY <1>0, <1>4, <1>5 DEF LeaseInv, ClaimsRecorded, SharedIsAgain, Holds, Claim
<1>7. RowBacksSoleClaim'
  <2> SUFFICES ASSUME NEW d \in Calls, Holds(d), SoleClaim(d)
      PROVE /\ Live(d) => leases'[grant[d].res].owner = WorkerOf[d]
            /\ leases'[grant[d].res].owner = WorkerOf[d]
                 => leases'[grant[d].res].expires = grant[d].until
    BY <1>4 DEF RowBacksSoleClaim, Holds, SoleClaim, Live
  <2>1. CASE grant[d].res # r \/ leases[r].owner # w
    BY <2>1, <1>0, <1>4 DEF LeaseInv, RowBacksSoleClaim
  <2>2. CASE grant[d].res = r /\ leases[r].owner = w /\ WorkerOf[d] # w
    BY <2>2, <1>0, <1>4 DEF LeaseInv, RowBacksSoleClaim, Leases!NoLease
  <2>3. CASE grant[d].res = r /\ leases[r].owner = w /\ WorkerOf[d] = w
    <3>1. Claim(d) = row /\ row \notin reclaimed
      BY <2>3, <1>3 DEF Claim, SoleClaim
    <3>2. grant[d].until <= now
      BY <3>1, <1>1 DEF LeaseInv, ListedHasRunOut
    <3>3. ~Live(d)
      BY <3>2, <1>0 DEF Live
    <3>4. leases'[r] = Leases!NoLease
      BY <2>3, <1>0, <1>4
    <3>5. QED
      BY <2>3, <3>3, <3>4 DEF Leases!NoLease
  <2>4. QED
    BY <2>1, <2>2, <2>3
<1>8. ListedHasRunOut'
  BY <1>0, <1>1, <1>4 DEF LeaseInv, ListedHasRunOut, Holds, Claim
<1>9. QED
  BY <1>6, <1>7, <1>8 DEF LeaseInv

LEMMA TickKeepsInv ==
  ASSUME LeaseInv, Leases!TypeOK', Leases!Tick
  PROVE  LeaseInv'
<1> USE LeaseAssumed DEF Leases!LeaseAssumption, Leases!TypeOK, Leases!Lease
<1>0. Leases!TypeOK
  BY DEF LeaseInv
<1>1. now' = now + 1 /\ UNCHANGED <<leases, grant, listed, claimed, reclaimed>>
  BY DEF Leases!Tick, Leases!history
<1>2. ClaimsRecorded' /\ SharedIsAgain'
  BY <1>1 DEF LeaseInv, ClaimsRecorded, SharedIsAgain, Holds, Claim
<1>3. \A c \in Calls : Live(c)' => Live(c)
  BY <1>0, <1>1 DEF Live
<1>4. RowBacksSoleClaim'
  BY <1>1, <1>3 DEF LeaseInv, RowBacksSoleClaim, Holds, SoleClaim
<1>5. \A c \in Calls : grant[c].until <= now => grant[c].until <= now'
  BY <1>0, <1>1
<1>6. ListedHasRunOut'
  BY <1>1, <1>5 DEF LeaseInv, ListedHasRunOut, Holds, Claim
<1>7. QED
  BY <1>2, <1>4, <1>6 DEF LeaseInv

LEMMA LeaseInvStep == LeaseInv /\ [Leases!Next]_(Leases!vars) => LeaseInv'
<1> SUFFICES ASSUME LeaseInv, [Leases!Next]_(Leases!vars) PROVE LeaseInv'
  OBVIOUS
<1>1. Leases!TypeOK'
  BY LeaseTypeStep DEF LeaseInv
<1>2. CASE UNCHANGED Leases!vars
  BY <1>1, <1>2 DEF Leases!vars, LeaseInv, ClaimsRecorded, SharedIsAgain, RowBacksSoleClaim,
     ListedHasRunOut, Holds, Claim, SoleClaim, Live
<1>3. QED
  BY <1>1, <1>2, AcquireKeepsInv, RenewKeepsInv, ReleaseKeepsInv, CrashKeepsInv,
     ListKeepsInv, ReclaimKeepsInv, TickKeepsInv DEF Leases!Next

\* acquireLease, releaseLease and the two-step reclaim of recoveryEngine never
\* let two workers work under unexpired leases on one resource while each has
\* claimed it once: for any clients, any interleaving and any lease term.
THEOREM SoleClaimsExclude == Leases!Spec => []SoleClaimExclusive
<1>1. LeaseInv => SoleClaimExclusive
  BY DEF LeaseInv, RowBacksSoleClaim, SoleClaimExclusive, Live,
     Rivals, Holds
<1>2. QED
  BY <1>1, LeaseInvInit, LeaseInvStep, PTL DEF Leases!Spec

\* A dead worker's row ends within one lease term of now.
THEOREM BlockedOneTermOnly == Leases!Spec => []BlockedForOneTerm
<1> USE LeaseAssumed DEF Leases!LeaseAssumption, BlockedForOneTerm, Leases!TypeOK,
   Leases!Lease
<1>1. Leases!Init => BlockedForOneTerm
  BY DEF Leases!Init, Leases!NoLease
<1>2. Leases!TypeOK /\ BlockedForOneTerm /\ [Leases!Next]_(Leases!vars)
        => BlockedForOneTerm'
  <2> SUFFICES ASSUME Leases!TypeOK, BlockedForOneTerm, [Leases!Next]_(Leases!vars),
                      NEW q \in Resources
               PROVE  leases'[q].expires <= now' + Term
    BY DEF BlockedForOneTerm
  <2>1. CASE leases'[q] = leases[q] /\ now' \in {now, now + 1}
    BY <2>1
  <2>2. CASE leases'[q] = Leases!NoLease /\ now' = now
    BY <2>2 DEF Leases!NoLease
  <2>3. CASE leases'[q].expires = now + Term /\ now' = now
    BY <2>3
  <2>4. ASSUME NEW c \in Calls, NEW r \in Resources, Leases!AcquireLease(c, r)
        PROVE  now' = now /\ (leases'[q] = leases[q] \/ leases'[q].expires = now + Term)
    BY <2>4 DEF Leases!AcquireLease, Leases!Granted
  <2>5. ASSUME NEW c \in Calls, Leases!RenewLease(c)
        PROVE  now' = now /\ (leases'[q] = leases[q] \/ leases'[q].expires = now + Term)
    BY <2>5 DEF Leases!RenewLease, Leases!Granted
  <2>6. ASSUME NEW c \in Calls, Leases!ReleaseLease(c)
        PROVE  now' = now /\ leases'[q] \in {leases[q], Leases!NoLease}
    BY <2>6 DEF Leases!ReleaseLease, Leases!Released
  <2>7. ASSUME NEW v \in Recoverers, Leases!ReclaimListed(v)
        PROVE  now' = now /\ leases'[q] \in {leases[q], Leases!NoLease}
    BY <2>7 DEF Leases!ReclaimListed, Leases!Released
  <2>8. ASSUME NEW w \in Workers, Leases!Crash(w)
        PROVE  leases'[q] = leases[q] /\ now' = now
    BY <2>8 DEF Leases!Crash
  <2>9. ASSUME NEW v \in Recoverers, Leases!ListExpiredLeases(v)
        PROVE  leases'[q] = leases[q] /\ now' = now
    BY <2>9 DEF Leases!ListExpiredLeases
  <2>10. CASE Leases!Tick
    BY <2>10, <2>1 DEF Leases!Tick
  <2>11. CASE UNCHANGED Leases!vars
    BY <2>11, <2>1 DEF Leases!vars
  <2>12. QED
    BY <2>1, <2>2, <2>3, <2>4, <2>5, <2>6, <2>7, <2>8, <2>9, <2>10, <2>11 DEF Leases!Next
<1>3. QED
  BY <1>1, <1>2, LeaseTypes, PTL DEF Leases!Spec

-----------------------------------------------------------------------------
(***************************************************************************)
(* The coordinator: its invariant.                                         *)
(***************************************************************************)
\* Where each call stands relates to what the chain holds.
CallFact(c) ==
  /\ \A s \in SwapSteps : s < StepOf(c) => Mined(s) # {}
  /\ At(c, "wait") => /\ call[c].tx \in DOMAIN chain
                      /\ chain[call[c].tx].step = StepOf(c)
  /\ At(c, "persist") \/ At(c, "release") =>
       /\ ~call[c].raised => call[c].status = "SUCCESS"
       /\ call[c].status = "SUCCESS" /\ StepOf(c) \in SwapSteps
            => call[c].tx \in Mined(StepOf(c))
       /\ call[c].status # "SUCCESS" => call[c].tx = NoTx

CallInv == \A c \in Calls : CallFact(c)

\* Only a SUCCESS row names a transaction.
RowTxInv == \A s \in Steps : rows[s].status # "SUCCESS" => rows[s].tx = NoTx

StepInv ==
  /\ TypeOK
  /\ CallInv
  /\ RowTxInv
  /\ DoneIsMined
  /\ OrderOnChain
  /\ ReturnedIsExecuted

-----------------------------------------------------------------------------
(***************************************************************************)
(* The coordinator's steps are steps of the lease service.                 *)
(***************************************************************************)
LEMMA CrashOnLeases ==
  ASSUME TypeOK, NEW w \in Workers, Crash(w)
  PROVE  Leases!Next \/ UNCHANGED leaseVars
<1>1. CASE \E c \in Calls : WorkerOf[c] = w /\ grant[c] # Leases!NoGrant
  <2>1. Leases!Crash(w)
    BY <1>1 DEF Crash, Leases!Crash, Leases!history
  <2>2. QED
    BY <2>1 DEF Leases!Next
<1>2. CASE ~ \E c \in Calls : WorkerOf[c] = w /\ grant[c] # Leases!NoGrant
  <2>1. grant' = grant
    BY <1>2 DEF Crash, TypeOK, Leases!TypeOK
  <2>2. QED
    BY <2>1 DEF Crash, leaseVars
<1>3. QED
  BY <1>1, <1>2

LEMMA StepsOnLeases == TypeOK /\ [Next]_vars => [Leases!Next]_(Leases!vars)
<1> SUFFICES ASSUME TypeOK, [Next]_vars PROVE Leases!Next \/ UNCHANGED leaseVars
  BY DEF leaseVars, Leases!vars
<1>1. ASSUME NEW c \in Calls, Start(c) PROVE UNCHANGED leaseVars
  BY <1>1 DEF Start
<1>2. ASSUME NEW c \in Calls, Acquire(c) PROVE Leases!Next
  <2>1. StepOf(c) \in Steps
    BY DEF StepOf, TypeOK, CallState
  <2>2. QED
    BY <1>2, <2>1, StepAssumption DEF Acquire, Leases!Next
<1>3. ASSUME NEW c \in Calls, Release(c) PROVE Leases!Next
  BY <1>3 DEF Release, Leases!Next
<1>4. ASSUME NEW c \in Calls, Advance(c) PROVE Leases!Next \/ UNCHANGED leaseVars
  BY <1>2, <1>3, <1>4 DEF Advance, Refused, Skip, Blocked, Proceed, RunLocal, LocalThrows,
     RunFails,
     Prepare, Broadcast, BroadcastUncertain, NotSent, Receipt, ReceiptReverted,
     ReceiptLost, Persist
<1>5. CASE Mine
  BY <1>5 DEF Mine
<1>6. ASSUME NEW w \in Workers, Crash(w) PROVE Leases!Next \/ UNCHANGED leaseVars
  BY <1>6, CrashOnLeases
<1>7. CASE LeaseStep
  BY <1>7 DEF LeaseStep, Leases!Next
<1>8. CASE UNCHANGED vars
  BY <1>8 DEF vars
<1>9. QED
  BY <1>1, <1>4, <1>5, <1>6, <1>7, <1>8 DEF Next

-----------------------------------------------------------------------------
(***************************************************************************)
(* Types.                                                                  *)
(***************************************************************************)
LEMMA TypeOKInit == Init => TypeOK
<1> SUFFICES ASSUME Init PROVE TypeOK
  OBVIOUS
<1>1. Leases!TypeOK
  BY LeaseTypeInit DEF Init
<1>2. chain \in Seq(Transaction)
  BY DEF Init
<1>3. QED
  BY <1>1, <1>2, StepAssumption DEF Init, TypeOK, Record, RowStatuses, Absent, NotDone,
     CallState, AtStep, Working, Ended, NoTx, NoNonce, Steps

LEMMA LeaseTypesStep == TypeOK /\ [Next]_vars => Leases!TypeOK'
BY StepsOnLeases, LeaseTypeStep DEF TypeOK

\* The types of what a call reads and writes.
LEMMA CallTypes ==
  ASSUME TypeOK, NEW c \in Calls
  PROVE  /\ StepOf(c) \in Steps
         /\ WorkerOf[c] \in Workers
         /\ rows[StepOf(c)] \in Record
         /\ registry[WorkerOf[c]][StepOf(c)] \in Record
         /\ call[c].tx \in Nat
         /\ call[c].status \in {"NOT_STARTED", "SUCCESS", "FAILED"}
         /\ RecordedTx(c) \in Nat
BY StepAssumption DEF TypeOK, StepOf, CallState, Record, RecordedTx

LEMMA AtStepType ==
  ASSUME NEW pc \in Working \cup Ended \cup {"idle"}, NEW s \in Steps
  PROVE  AtStep(pc, s) \in CallState
BY DEF AtStep, CallState, NoNonce, NoTx

LEMMA FinishType ==
  ASSUME TypeOK, NEW c \in Calls, NEW status \in {"NOT_STARTED", "SUCCESS", "FAILED"},
         NEW tx \in Nat, NEW raised \in BOOLEAN, Finish(c, status, tx, raised)
  PROVE  call' \in [Calls -> CallState]
BY CallTypes DEF TypeOK, Finish, AtStep, CallState, Working, NoNonce

LEMMA EnterType ==
  ASSUME TypeOK, NEW c \in Calls, NEW tx \in Nat, Enter(c, tx)
  PROVE  registry' \in [Workers -> [Steps -> Record]]
<1>1. [status |-> "SUCCESS", tx |-> tx] \in Record
  BY DEF Record, RowStatuses
<1>2. QED
  BY <1>1, CallTypes DEF Enter, TypeOK

LEMMA SucceedType ==
  ASSUME TypeOK, NEW c \in Calls, NEW tx \in Nat, Succeed(c, tx)
  PROVE  call' \in [Calls -> CallState] /\ registry' \in [Workers -> [Steps -> Record]]
BY FinishType, EnterType DEF Succeed

LEMMA FailureTypes ==
  ASSUME NEW s \in Steps
  PROVE  FailureStatuses(s) \subseteq {"NOT_STARTED", "FAILED"}
<1>1. KindOf[s] \in {"LOCAL", "APPROVAL", "SWAP"}
  BY StepAssumption DEF Kinds
<1>2. QED
  BY <1>1 DEF FailureStatuses

LEMMA FailType ==
  ASSUME TypeOK, NEW c \in Calls, Fail(c)
  PROVE  call' \in [Calls -> CallState] /\ registry' = registry
<1>1. PICK status \in {"NOT_STARTED", "FAILED"} : Finish(c, status, NoTx, TRUE)
  BY CallTypes, FailureTypes DEF Fail
<1>2. QED
  BY <1>1, FinishType DEF Fail, NoTx

LEMMA AddCauseType ==
  ASSUME TypeOK, NEW s \in Steps, NEW cause \in Causes, AddCause(s, cause)
  PROVE  causes' \in [Steps -> SUBSET Causes]
BY DEF TypeOK, AddCause

LEMMA AcceptedType ==
  ASSUME TypeOK, NEW c \in Calls, Accepted(c)
  PROVE  chain' \in Seq(Transaction)
BY CallTypes DEF TypeOK, Accepted, Transaction

LEMMA MineType ==
  ASSUME TypeOK, Mine
  PROVE  chain' \in Seq(Transaction)
<1>1. PICK i \in DOMAIN chain, state \in {"mined", "reverted"} :
        chain' = [chain EXCEPT ![i].state = state]
  BY DEF Mine, Pending
<1>2. chain[i] \in Transaction
  BY <1>1 DEF TypeOK
<1>3. [chain[i] EXCEPT !.state = state] \in Transaction
  BY <1>2 DEF Transaction
<1>4. QED
  BY <1>1, <1>3 DEF TypeOK

LEMMA TypeOKStep == TypeOK /\ [Next]_vars => TypeOK'
<1> SUFFICES ASSUME TypeOK, [Next]_vars PROVE TypeOK'
  OBVIOUS
<1> DEFINE OwnTypes == /\ rows \in [Steps -> Record]
                       /\ registry \in [Workers -> [Steps -> Record]]
                       /\ chain \in Seq(Transaction)
                       /\ call \in [Calls -> CallState]
                       /\ causes \in [Steps -> SUBSET Causes]
<1>0. OwnTypes
  BY DEF TypeOK
<1>1. ASSUME NEW c \in Calls, Start(c) PROVE OwnTypes'
  <2>1. AtStep("acquire", 1) \in CallState
    BY StepAssumption, AtStepType DEF Working, Steps
  <2>2. NotDone \in Record
    BY DEF NotDone, Record, RowStatuses, NoTx
  <2>3. QED
    BY <1>0, <1>1, <2>1, <2>2 DEF Start
<1>2. ASSUME NEW c \in Calls, Advance(c) PROVE OwnTypes'
  <2>1. CASE Acquire(c)
    <3>1. call' \in [Calls -> CallState]
      BY <1>0, <2>1 DEF Acquire, CallState, Working
    <3>2. causes' \in [Steps -> SUBSET Causes]
      BY <1>0, <2>1, AddCauseType, CallTypes DEF Acquire, Causes
    <3>3. QED
      BY <1>0, <2>1, <3>1, <3>2 DEF Acquire
  <2>2. CASE Refused(c)
    BY <1>0, <2>2 DEF Refused, CallState, Ended
  <2>3. CASE Skip(c)
    BY <1>0, <2>3, SucceedType, CallTypes DEF Skip
  <2>4. CASE Blocked(c)
    BY <1>0, <2>4, FinishType DEF Blocked, NoTx
  <2>5. CASE Proceed(c)
    BY <1>0, <2>5 DEF Proceed, CallState, Working
  <2>6. CASE RunLocal(c) \/ LocalThrows(c)
    <3>1. CASE RunLocal(c)
      BY <1>0, <3>1, SucceedType DEF RunLocal, NoTx
    <3>2. CASE LocalThrows(c)
      BY <1>0, <3>2, FinishType, EnterType DEF LocalThrows, NoTx
    <3>3. QED
      BY <2>6, <3>1, <3>2
  <2>7. CASE RunFails(c)
    BY <1>0, <2>7, FailType DEF RunFails
  <2>8. CASE Prepare(c)
    <3>1. PICK nonce \in {Len(chain) + 1, AtSend} :
            call' = [call EXCEPT ![c] = [AtStep("send", StepOf(c)) EXCEPT !.nonce = nonce]]
      BY <2>8 DEF Prepare
    <3>2. nonce \in Nat
      BY <1>0 DEF AtSend
    <3>3. [AtStep("send", StepOf(c)) EXCEPT !.nonce = nonce] \in CallState
      BY <3>2, CallTypes DEF AtStep, CallState, Working, NoTx
    <3>4. QED
      BY <1>0, <2>8, <3>1, <3>3 DEF Prepare
  <2>9. CASE Broadcast(c)
    <3>1. Len(chain) + 1 \in Nat
      BY <1>0
    <3>2. call' \in [Calls -> CallState]
      BY <1>0, <2>9, <3>1, CallTypes DEF Broadcast, AtStep, CallState, Working, NoNonce
    <3>3. QED
      BY <1>0, <2>9, <3>2, AcceptedType DEF Broadcast
  <2>10. CASE BroadcastUncertain(c)
    BY <1>0, <2>10, AcceptedType, FailType, AddCauseType, CallTypes
       DEF BroadcastUncertain, Causes
  <2>11. CASE NotSent(c)
    BY <1>0, <2>11, FailType DEF NotSent
  <2>12. CASE Receipt(c)
    BY <1>0, <2>12, SucceedType, CallTypes DEF Receipt
  <2>13. CASE ReceiptReverted(c)
    BY <1>0, <2>13, FailType DEF ReceiptReverted
  <2>14. CASE ReceiptLost(c)
    BY <1>0, <2>14, FailType, AddCauseType, CallTypes DEF ReceiptLost, Causes
  <2>15. CASE Persist(c)
    <3>1. call' \in [Calls -> CallState]
      BY <1>0, <2>15 DEF Persist, CallState, Working
    <3>2. [status |-> call[c].status, tx |-> call[c].tx] \in Record
      BY CallTypes DEF Record, RowStatuses
    <3>3. rows' \in [Steps -> Record]
      BY <1>0, <2>15, <3>2, CallTypes DEF Persist
    <3>4. causes' \in [Steps -> SUBSET Causes]
      BY <1>0, <2>15, AddCauseType, CallTypes DEF Persist, Causes
    <3>5. QED
      BY <1>0, <2>15, <3>1, <3>3, <3>4 DEF Persist
  <2>16. CASE Release(c)
    <3>1. AfterRelease(c) \in CallState
      <4>1. CASE call[c].raised
        BY <4>1, AtStepType, CallTypes DEF AfterRelease, Ended
      <4>2. CASE ~call[c].raised /\ StepOf(c) = N
        BY <4>2, AtStepType, CallTypes DEF AfterRelease, Ended
      <4>3. CASE ~call[c].raised /\ StepOf(c) # N
        <5>1. StepOf(c) + 1 \in Steps
          BY <4>3, StepAssumption, CallTypes DEF Steps
        <5>2. QED
          BY <4>3, <5>1, AtStepType DEF AfterRelease, Working
      <4>4. QED
        BY <4>1, <4>2, <4>3
    <3>2. QED
      BY <1>0, <2>16, <3>1 DEF Release
  <2>17. QED
    BY <1>2, <2>1, <2>2, <2>3, <2>4, <2>5, <2>6, <2>7, <2>8, <2>9, <2>10, <2>11, <2>12,
       <2>13, <2>14, <2>15, <2>16 DEF Advance
<1>3. ASSUME Mine PROVE OwnTypes'
  BY <1>0, <1>3, MineType DEF Mine
<1>4. ASSUME NEW w \in Workers, Crash(w) PROVE OwnTypes'
  <2>1. call' \in [Calls -> CallState]
    BY <1>0, <1>4, AtStepType, CallTypes DEF Crash, Ended
  <2>2. registry' \in [Workers -> [Steps -> Record]]
    BY <1>0, <1>4 DEF Crash, NotDone, Record, RowStatuses, NoTx
  <2>3. causes' \in [Steps -> SUBSET Causes]
    BY <1>0, <1>4 DEF Crash, Causes
  <2>4. QED
    BY <1>0, <1>4, <2>1, <2>2, <2>3 DEF Crash
<1>5. ASSUME LeaseStep PROVE OwnTypes'
  BY <1>0, <1>5 DEF LeaseStep
<1>6. ASSUME UNCHANGED vars PROVE OwnTypes'
  BY <1>0, <1>6 DEF vars
<1>7. OwnTypes'
  BY <1>1, <1>2, <1>3, <1>4, <1>5, <1>6 DEF Next
<1>8. Leases!TypeOK'
  BY LeaseTypesStep
<1>9. QED
  BY <1>7, <1>8 DEF TypeOK

\* Lease rows, plan rows, registries, the chain and every call always have
\* their types, whatever fails.
THEOREM StepTypes == Spec => []TypeOK
<1>1. QED
  BY TypeOKInit, TypeOKStep, PTL DEF Spec

\* executeTrade is a client of the lease service: every step of it is one of
\* the service's operations or leaves the lease table alone.
THEOREM UsesLeases == Spec => Leases!Spec
<1>1. Init => Leases!Init
  BY DEF Init
<1>2. QED
  BY <1>1, StepTypes, StepsOnLeases, PTL DEF Spec, Leases!Spec

\* So two workers never run one step under unexpired leases while each came
\* to it once: the lease service's promise, kept for the coordinator.
THEOREM StepSoleClaimsExclude == Spec => []SoleClaimExclusive
BY UsesLeases, SoleClaimsExclude, PTL

-----------------------------------------------------------------------------
(***************************************************************************)
(* What is recorded as done is mined; the plan's order holds on chain.     *)
(***************************************************************************)
\* Transactions are only appended, and a mined one stays mined.
LEMMA ChainGrows ==
  ASSUME TypeOK, [Next]_vars
  PROVE  /\ \A i \in DOMAIN chain :
              /\ i \in DOMAIN chain'
              /\ chain'[i].step = chain[i].step
              /\ chain[i].state = "mined" => chain'[i].state = "mined"
         /\ \A s \in Steps : Mined(s) \subseteq Mined(s)'
<1> DEFINE Grows == \A i \in DOMAIN chain :
                      /\ i \in DOMAIN chain'
                      /\ chain'[i].step = chain[i].step
                      /\ chain[i].state = "mined" => chain'[i].state = "mined"
<1>1. ASSUME UNCHANGED chain PROVE Grows
  BY <1>1
<1>2. ASSUME NEW c \in Calls, Accepted(c) PROVE Grows
  BY <1>2 DEF Accepted, TypeOK
<1>3. ASSUME Mine PROVE Grows
  <2>1. PICK i \in Pending, state \in {"mined", "reverted"} :
          chain' = [chain EXCEPT ![i].state = state]
    BY <1>3 DEF Mine
  <2>2. i \in DOMAIN chain /\ chain[i].state = "pending" /\ chain[i] \in Transaction
    BY <2>1 DEF Pending, TypeOK
  <2>3. QED
    BY <2>1, <2>2 DEF TypeOK, Transaction
<1>4. ASSUME NEW c \in Calls, Advance(c) PROVE Grows
  BY <1>1, <1>2, <1>4 DEF Advance, Acquire, Refused, Skip, Blocked, Proceed, RunLocal,
     LocalThrows, RunFails, Prepare, Broadcast, BroadcastUncertain, NotSent, Receipt, ReceiptReverted,
     ReceiptLost, Persist, Release
<1>5. Grows
  BY <1>1, <1>3, <1>4 DEF Next, Start, Crash, LeaseStep, vars
<1>6. QED
  BY <1>5 DEF Mined

\* A transaction appended by a step is that step's, and not mined yet.
LEMMA Appended ==
  ASSUME TypeOK, NEW c \in Calls, Accepted(c)
  PROVE  /\ DOMAIN chain' = DOMAIN chain \cup {Len(chain) + 1}
         /\ chain'[Len(chain) + 1].step = StepOf(c)
         /\ \A i \in DOMAIN chain : chain'[i] = chain[i] /\ i < Len(chain) + 1
BY DEF Accepted, TypeOK

\* A call a step does not touch keeps its facts.
LEMMA OthersKept ==
  ASSUME TypeOK, [Next]_vars, NEW c \in Calls, CallFact(c), call'[c] = call[c]
  PROVE  CallFact(c)'
<1>1. \A s \in Steps : Mined(s) \subseteq Mined(s)'
  BY ChainGrows
<1>2. SwapSteps \subseteq Steps /\ StepOf(c) \in Steps
  BY CallTypes DEF SwapSteps
<1>3. At(c, "wait") => /\ call[c].tx \in DOMAIN chain'
                       /\ chain'[call[c].tx].step = StepOf(c)
  BY ChainGrows DEF CallFact
<1>4. QED
  BY <1>1, <1>2, <1>3 DEF CallFact, StepOf, At

\* A call that moves within its step to a place that asserts nothing.
LEMMA MoveKept ==
  ASSUME TypeOK, [Next]_vars, NEW c \in Calls, CallFact(c),
         call'[c].step = call[c].step,
         call'[c].pc \notin {"wait", "persist", "release"}
  PROVE  CallFact(c)'
<1>1. \A s \in Steps : Mined(s) \subseteq Mined(s)'
  BY ChainGrows
<1>2. SwapSteps \subseteq Steps
  BY DEF SwapSteps
<1>3. QED
  BY <1>1, <1>2 DEF CallFact, StepOf, At

\* A call that finishes its step: with success only on a mined transaction.
LEMMA FinishKept ==
  ASSUME TypeOK, [Next]_vars, NEW c \in Calls, CallFact(c),
         NEW status, NEW tx, NEW raised, Finish(c, status, tx, raised),
         raised \/ status = "SUCCESS",
         status = "SUCCESS" /\ StepOf(c) \in SwapSteps => tx \in Mined(StepOf(c)),
         status # "SUCCESS" => tx = NoTx
  PROVE  CallInv => CallInv'
<1>1. \A s \in Steps : Mined(s) \subseteq Mined(s)'
  BY ChainGrows
<1>2. SwapSteps \subseteq Steps /\ StepOf(c) \in Steps
  BY CallTypes DEF SwapSteps
<1>3. /\ call'[c].pc = "persist" /\ call'[c].step = StepOf(c) /\ call'[c].tx = tx
      /\ call'[c].status = status /\ call'[c].raised = raised
  BY DEF Finish, AtStep, TypeOK
<1>4. CallFact(c)'
  BY <1>1, <1>2, <1>3 DEF CallFact, StepOf, At
<1>5. \A d \in Calls \ {c} : call'[d] = call[d]
  BY DEF Finish, TypeOK
<1>6. QED
  BY <1>4, <1>5, OthersKept DEF CallInv

\* What a skip takes for the step's transaction is mined.
LEMMA SkipTxMined ==
  ASSUME TypeOK, RowTxInv, DoneIsMined, NEW c \in Calls, RecordedDone(c),
         StepOf(c) \in SwapSteps
  PROVE  RecordedTx(c) \in Mined(StepOf(c))
<1> DEFINE s == StepOf(c)
<1>0. s \in Steps /\ WorkerOf[c] \in Workers
  BY CallTypes
<1>1. CASE rows[s].status = "SUCCESS"
  <2>1. rows[s].tx \in Mined(s)
    BY <1>1 DEF DoneIsMined
  <2>2. rows[s].tx # NoTx
    BY <2>1 DEF Mined, NoTx, TypeOK
  <2>3. QED
    BY <2>1, <2>2 DEF RecordedTx
<1>2. CASE rows[s].status # "SUCCESS"
  <2>1. rows[s].tx = NoTx
    BY <1>0, <1>2 DEF RowTxInv
  <2>2. registry[WorkerOf[c]][s].tx \in Mined(s)
    BY <1>0, <1>2 DEF RecordedDone, DoneIsMined
  <2>3. QED
    BY <2>1, <2>2 DEF RecordedTx
<1>3. QED
  BY <1>1, <1>2

LEMMA RowTxKept ==
  ASSUME StepInv, [Next]_vars
  PROVE  RowTxInv'
<1>0. TypeOK /\ CallInv /\ RowTxInv
  BY DEF StepInv
<1>1. ASSUME UNCHANGED rows PROVE RowTxInv'
  BY <1>0, <1>1 DEF RowTxInv
<1>2. ASSUME NEW c \in Calls, Start(c) PROVE RowTxInv'
  BY <1>0, <1>1, <1>2 DEF Start, RowTxInv, NotDone
<1>3. ASSUME NEW c \in Calls, Persist(c) PROVE RowTxInv'
  <2>1. call[c].status # "SUCCESS" => call[c].tx = NoTx
    BY <1>0, <1>3 DEF CallInv, CallFact, Persist
  <2>2. CASE rows' = [rows EXCEPT ![StepOf(c)] =
                        [status |-> call[c].status, tx |-> call[c].tx]]
    BY <1>0, <2>1, <2>2 DEF RowTxInv, TypeOK
  <2>3. QED
    BY <1>1, <1>3, <2>2 DEF Persist
<1>4. ASSUME NEW c \in Calls, Advance(c) PROVE RowTxInv'
  BY <1>1, <1>3, <1>4 DEF Advance, Acquire, Refused, Skip, Blocked, Proceed, RunLocal,
     LocalThrows, RunFails, Prepare, Broadcast, BroadcastUncertain, NotSent, Receipt, ReceiptReverted,
     ReceiptLost, Release
<1>5. QED
  BY <1>1, <1>2, <1>4 DEF Next, Mine, Crash, LeaseStep, vars

LEMMA DoneKept ==
  ASSUME StepInv, [Next]_vars
  PROVE  DoneIsMined'
<1>0. TypeOK /\ CallInv /\ RowTxInv /\ DoneIsMined
  BY DEF StepInv
<1>1. \A s \in Steps : Mined(s) \subseteq Mined(s)'
  BY <1>0, ChainGrows
<1>2. SwapSteps \subseteq Steps
  BY DEF SwapSteps
<1> SUFFICES ASSUME NEW s \in SwapSteps, NEW w
             PROVE  /\ rows'[s].status = "SUCCESS" => rows'[s].tx \in Mined(s)'
                    /\ w \in Workers /\ registry'[w][s].status = "SUCCESS"
                         => registry'[w][s].tx \in Mined(s)'
  BY DEF DoneIsMined
<1> DEFINE RowBacked == rows'[s].status = "SUCCESS" => rows'[s].tx \in Mined(s)'
           EntryBacked == w \in Workers /\ registry'[w][s].status = "SUCCESS"
                            => registry'[w][s].tx \in Mined(s)'
<1>3. /\ rows[s].status = "SUCCESS" => rows[s].tx \in Mined(s)
      /\ w \in Workers /\ registry[w][s].status = "SUCCESS"
           => registry[w][s].tx \in Mined(s)
  BY <1>0 DEF DoneIsMined
<1>4. ASSUME rows'[s] = rows[s] PROVE RowBacked
  BY <1>1, <1>2, <1>3, <1>4
<1>5. ASSUME registry'[w][s] = registry[w][s] PROVE EntryBacked
  BY <1>1, <1>2, <1>3, <1>5
<1>6. ASSUME NEW c \in Calls, NEW tx, Enter(c, tx),
             StepOf(c) \in SwapSteps => tx \in Mined(StepOf(c))
      PROVE  EntryBacked
  <2>1. CASE WorkerOf[c] = w /\ StepOf(c) = s
    <3>1. w \in Workers /\ s \in Steps
      BY <1>2, <2>1, StepAssumption
    <3>2. registry' = [registry EXCEPT ![w] =
                         [registry[w] EXCEPT ![s] = [status |-> "SUCCESS", tx |-> tx]]]
      BY <1>6, <2>1 DEF Enter
    <3>3. registry'[w] = [registry[w] EXCEPT ![s] = [status |-> "SUCCESS", tx |-> tx]]
      BY <1>0, <3>1, <3>2 DEF TypeOK
    <3>4. registry'[w][s] = [status |-> "SUCCESS", tx |-> tx]
      BY <1>0, <3>1, <3>3 DEF TypeOK
    <3>5. QED
      BY <1>1, <1>2, <1>6, <2>1, <3>4
  <2>2. CASE ~(WorkerOf[c] = w /\ StepOf(c) = s)
    <3>1. registry'[w][s] = registry[w][s]
      BY <1>0, <1>2, <1>6, <2>2 DEF Enter, TypeOK
    <3>2. QED
      BY <1>5, <3>1
  <2>3. QED
    BY <2>1, <2>2
<1>7. ASSUME NEW c \in Calls, Start(c) PROVE RowBacked /\ EntryBacked
  BY <1>2, <1>4, <1>5, <1>7 DEF Start, NotDone
<1>8. ASSUME NEW c \in Calls, Skip(c) PROVE RowBacked /\ EntryBacked
  <2>1. StepOf(c) \in SwapSteps => RecordedTx(c) \in Mined(StepOf(c))
    BY <1>0, <1>8, SkipTxMined DEF Skip
  <2>2. QED
    BY <1>4, <1>6, <1>8, <2>1 DEF Skip, Succeed
<1>9. ASSUME NEW c \in Calls, RunLocal(c) \/ LocalThrows(c) PROVE RowBacked /\ EntryBacked
  BY <1>4, <1>6, <1>9 DEF RunLocal, LocalThrows, Succeed, SwapSteps
<1>10. ASSUME NEW c \in Calls, Receipt(c) PROVE RowBacked /\ EntryBacked
  <2>1. call[c].tx \in Mined(StepOf(c))
    BY <1>0, <1>10 DEF Receipt, CallInv, CallFact, Mined
  <2>2. QED
    BY <1>4, <1>6, <1>10, <2>1 DEF Receipt, Succeed
<1>11. ASSUME NEW c \in Calls, Persist(c) PROVE RowBacked /\ EntryBacked
  <2>1. CASE rows' = rows
    BY <1>4, <1>5, <1>11, <2>1 DEF Persist
  <2>2. CASE rows' = [rows EXCEPT ![StepOf(c)] = [status |-> call[c].status, tx |-> call[c].tx]]
    <3>1. call[c].status = "SUCCESS" /\ StepOf(c) \in SwapSteps
            => call[c].tx \in Mined(StepOf(c))
      BY <1>0, <1>11 DEF Persist, CallInv, CallFact
    <3>2. RowBacked
      <4>1. CASE StepOf(c) = s
        <5>1. rows'[s] = [status |-> call[c].status, tx |-> call[c].tx]
          BY <1>0, <1>2, <2>2, <4>1 DEF TypeOK
        <5>2. QED
          BY <1>1, <1>2, <3>1, <4>1, <5>1
      <4>2. CASE StepOf(c) # s
        <5>1. rows'[s] = rows[s]
          BY <1>0, <1>2, <2>2, <4>2 DEF TypeOK
        <5>2. QED
          BY <1>4, <5>1
      <4>3. QED
        BY <4>1, <4>2
    <3>3. QED
      BY <1>5, <1>11, <3>2 DEF Persist
  <2>3. QED
    BY <1>11, <2>1, <2>2 DEF Persist
<1>12. ASSUME NEW c \in Calls, Advance(c) PROVE RowBacked /\ EntryBacked
  BY <1>4, <1>5, <1>8, <1>9, <1>10, <1>11, <1>12 DEF Advance, Acquire, Refused, Blocked,
     Proceed, RunFails, Prepare, Broadcast, BroadcastUncertain, NotSent, ReceiptReverted,
     ReceiptLost, Release, Fail
<1>13. ASSUME NEW v \in Workers, Crash(v) PROVE RowBacked /\ EntryBacked
  BY <1>0, <1>2, <1>4, <1>5, <1>13 DEF Crash, NotDone, TypeOK
<1>14. QED
  BY <1>4, <1>5, <1>7, <1>12, <1>13 DEF Next, Mine, LeaseStep, vars

LEMMA OrderKept ==
  ASSUME StepInv, [Next]_vars
  PROVE  OrderOnChain'
<1>0. TypeOK /\ CallInv /\ OrderOnChain
  BY DEF StepInv
<1>1. \A s \in Steps : Mined(s) \subseteq Mined(s)'
  BY <1>0, ChainGrows
<1>2. SwapSteps \subseteq Steps
  BY DEF SwapSteps
<1>3. ASSUME DOMAIN chain' = DOMAIN chain PROVE OrderOnChain'
  BY <1>0, <1>1, <1>2, <1>3, ChainGrows DEF OrderOnChain
<1>4. ASSUME NEW c \in Calls, Accepted(c) PROVE OrderOnChain'
  <2> SUFFICES ASSUME NEW i \in DOMAIN chain', NEW s \in SwapSteps, s < chain'[i].step
               PROVE  \E j \in Mined(s)' : j < i
    BY DEF OrderOnChain
  <2>1. CASE i \in DOMAIN chain
    <3>1. \E j \in Mined(s) : j < i
      BY <1>0, <1>4, <2>1, Appended DEF OrderOnChain
    <3>2. QED
      BY <1>1, <1>2, <3>1
  <2>2. CASE i = Len(chain) + 1
    <3>1. PICK j : j \in Mined(s)
      BY <1>0, <1>4, <2>2, Appended DEF CallInv, CallFact
    <3>2. j < i
      BY <1>0, <1>4, <2>2, <3>1, Appended DEF Mined
    <3>3. QED
      BY <1>1, <1>2, <3>1, <3>2
  <2>3. QED
    BY <1>0, <1>4, <2>1, <2>2, Appended
<1>5. ASSUME NEW c \in Calls, Advance(c) PROVE OrderOnChain'
  BY <1>3, <1>4, <1>5 DEF Advance, Acquire, Refused, Skip, Blocked, Proceed, RunLocal,
     LocalThrows, RunFails, Prepare, Broadcast, BroadcastUncertain, NotSent, Receipt, ReceiptReverted,
     ReceiptLost, Persist, Release
<1>6. ASSUME Mine PROVE OrderOnChain'
  <2>1. DOMAIN chain' = DOMAIN chain
    BY <1>0, <1>6 DEF Mine, TypeOK
  <2>2. QED
    BY <1>3, <2>1
<1>7. QED
  BY <1>3, <1>5, <1>6 DEF Next, Start, Crash, LeaseStep, vars

\* Only the release of its last step lets a call return.
LEMMA ReturnedByRelease ==
  ASSUME TypeOK, [Next]_vars, NEW c \in Calls, ~At(c, "returned"), At(c, "returned")'
  PROVE  Release(c)
<1>1. call'[c].pc = "returned" /\ call[c].pc # "returned"
  BY DEF At
<1>2. ASSUME NEW d \in Calls, NEW status, NEW tx, NEW raised, Finish(d, status, tx, raised)
      PROVE  FALSE
  BY <1>1, <1>2 DEF Finish, AtStep, TypeOK
<1>3. ASSUME NEW d \in Calls, Start(d) PROVE FALSE
  BY <1>1, <1>3 DEF Start, AtStep, TypeOK
<1>4. ASSUME NEW d \in Calls,
             Acquire(d) \/ Refused(d) \/ Proceed(d) \/ Prepare(d) \/ Broadcast(d) \/ Persist(d)
      PROVE  FALSE
  <2>1. ASSUME NEW pc, pc # "returned", call' = [call EXCEPT ![d].pc = pc] PROVE FALSE
    BY <1>1, <2>1 DEF TypeOK, CallState
  <2>2. ASSUME NEW next, next.pc # "returned", call' = [call EXCEPT ![d] = next] PROVE FALSE
    BY <1>1, <2>2 DEF TypeOK
  <2>3. CASE Prepare(d) \/ Broadcast(d)
    BY <2>2, <2>3 DEF Prepare, Broadcast, AtStep
  <2>4. QED
    BY <1>4, <2>1, <2>3 DEF Acquire, Refused, Proceed, Persist
<1>5. ASSUME NEW d \in Calls, Release(d) PROVE d = c
  BY <1>1, <1>5 DEF Release, TypeOK
<1>6. ASSUME NEW d \in Calls, Advance(d) PROVE Release(c)
  BY <1>2, <1>4, <1>5, <1>6 DEF Advance, Skip, Blocked, RunLocal, LocalThrows, RunFails,
     BroadcastUncertain, NotSent, Receipt, ReceiptReverted, ReceiptLost, Succeed, Fail
<1>7. ASSUME NEW w \in Workers, Crash(w) PROVE FALSE
  <2>1. call' = [d \in Calls |-> IF d \in CallsOf(w) THEN AtStep("crashed", StepOf(d))
                                                     ELSE call[d]]
    BY <1>7 DEF Crash
  <2>2. call'[c] = call[c] \/ call'[c] = AtStep("crashed", StepOf(c))
    BY <2>1
  <2>3. QED
    BY <1>1, <2>2 DEF AtStep
<1>8. QED
  BY <1>1, <1>3, <1>6, <1>7 DEF Next, Mine, LeaseStep, vars

LEMMA ReturnedKept ==
  ASSUME StepInv, [Next]_vars
  PROVE  ReturnedIsExecuted'
<1>0. TypeOK /\ CallInv /\ ReturnedIsExecuted
  BY DEF StepInv
<1>1. \A s \in SwapSteps : Mined(s) \subseteq Mined(s)'
  BY <1>0, ChainGrows DEF SwapSteps
<1> SUFFICES ASSUME NEW c \in Calls, At(c, "returned")', NEW s \in SwapSteps
             PROVE  Mined(s)' # {}
  BY DEF ReturnedIsExecuted
<1>2. CASE At(c, "returned")
  BY <1>0, <1>1, <1>2 DEF ReturnedIsExecuted
<1>3. CASE ~At(c, "returned")
  <2>1. Release(c)
    BY <1>0, <1>3, ReturnedByRelease
  <2>2. At(c, "release") /\ ~call[c].raised /\ StepOf(c) = N
    BY <1>0, <2>1 DEF Release, AfterRelease, At, AtStep, TypeOK
  <2>3. s < N \/ s = N
    BY StepAssumption DEF SwapSteps, Steps
  <2>4. Mined(s) # {}
    BY <1>0, <2>2, <2>3 DEF CallInv, CallFact
  <2>5. QED
    BY <1>1, <2>4
<1>4. QED
  BY <1>2, <1>3

LEMMA CallKept ==
  ASSUME StepInv, [Next]_vars
  PROVE  CallInv'
<1>0. TypeOK /\ CallInv /\ RowTxInv /\ DoneIsMined
  BY DEF StepInv
<1>1. \A s \in SwapSteps : Mined(s) \subseteq Mined(s)'
  BY <1>0, ChainGrows DEF SwapSteps
<1>2. ASSUME UNCHANGED call PROVE CallInv'
  BY <1>0, <1>2, OthersKept DEF CallInv
<1>3. ASSUME NEW c \in Calls, CallFact(c)', \A d \in Calls \ {c} : call'[d] = call[d]
      PROVE  CallInv'
  BY <1>0, <1>3, OthersKept DEF CallInv
<1>4. ASSUME NEW c \in Calls, Fail(c) PROVE CallInv'
  <2>1. PICK status \in {"NOT_STARTED", "FAILED"} : Finish(c, status, NoTx, TRUE)
    BY <1>0, <1>4, CallTypes, FailureTypes DEF Fail
  <2>2. QED
    BY <1>0, <2>1, FinishKept DEF CallInv
<1>5. ASSUME NEW c \in Calls, NEW tx, Succeed(c, tx),
             StepOf(c) \in SwapSteps => tx \in Mined(StepOf(c))
      PROVE  CallInv'
  BY <1>0, <1>5, FinishKept DEF Succeed, CallInv
<1>6. ASSUME NEW c \in Calls, Start(c) PROVE CallInv'
  <2>1. call' = [call EXCEPT ![c] = AtStep("acquire", 1)]
    BY <1>6 DEF Start
  <2>2. CallFact(c)'
    BY <1>0, <2>1 DEF CallFact, At, StepOf, AtStep, SwapSteps, Steps, TypeOK
  <2>3. QED
    BY <1>0, <1>3, <2>1, <2>2 DEF TypeOK
<1>7. ASSUME NEW c \in Calls,
             Acquire(c) \/ Refused(c) \/ Proceed(c) \/ Prepare(c)
      PROVE  CallInv'
  <2>1. /\ call'[c].step = call[c].step
        /\ call'[c].pc \notin {"wait", "persist", "release"}
        /\ \A d \in Calls \ {c} : call'[d] = call[d]
    BY <1>0, <1>7 DEF Acquire, Refused, Proceed, Prepare, AtStep, StepOf, TypeOK, CallState
  <2>2. CallFact(c)'
    BY <1>0, <2>1, MoveKept DEF CallInv
  <2>3. QED
    BY <1>3, <2>1, <2>2
<1>8. ASSUME NEW c \in Calls, Skip(c) PROVE CallInv'
  BY <1>0, <1>5, <1>8, SkipTxMined DEF Skip
<1>9. ASSUME NEW c \in Calls, Blocked(c) PROVE CallInv'
  BY <1>0, <1>9, FinishKept DEF Blocked, CallInv
<1>10. ASSUME NEW c \in Calls, RunLocal(c) \/ LocalThrows(c) PROVE CallInv'
  <2>1. StepOf(c) \notin SwapSteps
    BY <1>10 DEF RunLocal, LocalThrows, SwapSteps
  <2>2. QED
    BY <1>0, <1>5, <1>10, <2>1, FinishKept DEF RunLocal, LocalThrows, CallInv
<1>11. ASSUME NEW c \in Calls, Receipt(c) PROVE CallInv'
  <2>1. call[c].tx \in Mined(StepOf(c))
    BY <1>0, <1>11 DEF Receipt, CallInv, CallFact, Mined
  <2>2. QED
    BY <1>5, <1>11, <2>1 DEF Receipt
<1>12. ASSUME NEW c \in Calls, Broadcast(c) PROVE CallInv'
  <2>1. call' = [call EXCEPT ![c] = [AtStep("wait", StepOf(c)) EXCEPT !.tx = Len(chain) + 1]]
    BY <1>12 DEF Broadcast
  <2>2. /\ call'[c].pc = "wait" /\ call'[c].step = StepOf(c) /\ call'[c].tx = Len(chain) + 1
        /\ \A d \in Calls \ {c} : call'[d] = call[d]
    BY <1>0, <2>1 DEF AtStep, TypeOK
  <2>3. Len(chain) + 1 \in DOMAIN chain' /\ chain'[Len(chain) + 1].step = StepOf(c)
    BY <1>0, <1>12, Appended DEF Broadcast
  <2>4. \A s \in SwapSteps : s < StepOf(c) => Mined(s)' # {}
    BY <1>0, <1>1 DEF CallInv, CallFact
  <2>5. CallFact(c)'
    BY <2>2, <2>3, <2>4 DEF CallFact, At, StepOf
  <2>6. QED
    BY <1>3, <2>2, <2>5
<1>13. ASSUME NEW c \in Calls, Persist(c) PROVE CallInv'
  <2>1. /\ call'[c].pc = "release" /\ call[c].pc = "persist"
        /\ call'[c].step = call[c].step /\ call'[c].tx = call[c].tx
        /\ call'[c].status = call[c].status /\ call'[c].raised = call[c].raised
        /\ \A d \in Calls \ {c} : call'[d] = call[d]
    BY <1>0, <1>13 DEF Persist, At, TypeOK, CallState
  <2>2. \A s \in SwapSteps : Mined(s)' = Mined(s)
    BY <1>13 DEF Persist, Mined
  <2>3. CallFact(c)'
    BY <1>0, <2>1, <2>2 DEF CallInv, CallFact, At, StepOf
  <2>4. QED
    BY <1>3, <2>1, <2>3
<1>14. ASSUME NEW c \in Calls, Release(c) PROVE CallInv'
  <2>1. /\ call'[c] = AfterRelease(c)
        /\ \A d \in Calls \ {c} : call'[d] = call[d]
        /\ \A s \in SwapSteps : Mined(s)' = Mined(s)
    BY <1>0, <1>14 DEF Release, TypeOK, Mined
  <2>2. /\ \A s \in SwapSteps : s < StepOf(c) => Mined(s) # {}
        /\ ~call[c].raised /\ StepOf(c) \in SwapSteps => Mined(StepOf(c)) # {}
    BY <1>0, <1>14 DEF Release, CallInv, CallFact
  <2>3. CASE call[c].raised \/ StepOf(c) = N
    <3>1. call'[c].pc \in {"threw", "returned"} /\ call'[c].step = StepOf(c)
      BY <2>1, <2>3 DEF AfterRelease, AtStep
    <3>2. CallFact(c)'
      BY <2>1, <2>2, <3>1 DEF CallFact, At, StepOf
    <3>3. QED
      BY <1>3, <2>1, <3>2
  <2>4. CASE ~call[c].raised /\ StepOf(c) # N
    <3>1. call'[c].pc = "acquire" /\ call'[c].step = StepOf(c) + 1
      BY <2>1, <2>4 DEF AfterRelease, AtStep
    <3>2. \A s \in SwapSteps : s < StepOf(c) + 1 => s < StepOf(c) \/ s = StepOf(c)
      BY <1>0, CallTypes DEF SwapSteps, Steps
    <3>3. CallFact(c)'
      BY <2>1, <2>2, <2>4, <3>1, <3>2 DEF CallFact, At, StepOf
    <3>4. QED
      BY <1>3, <2>1, <3>3
  <2>5. QED
    BY <2>3, <2>4
<1>15. ASSUME NEW c \in Calls, Advance(c) PROVE CallInv'
  BY <1>4, <1>7, <1>8, <1>9, <1>10, <1>11, <1>12, <1>13, <1>14, <1>15 DEF Advance, RunFails,
     BroadcastUncertain, NotSent, ReceiptReverted, ReceiptLost
<1>16. ASSUME NEW w \in Workers, Crash(w) PROVE CallInv'
  <2> SUFFICES ASSUME NEW c \in Calls PROVE CallFact(c)'
    BY DEF CallInv
  <2>1. CASE call'[c] = call[c]
    BY <1>0, <2>1, OthersKept DEF CallInv
  <2>2. CASE call'[c] = AtStep("crashed", StepOf(c))
    BY <1>0, <2>2, MoveKept DEF CallInv, AtStep, StepOf
  <2>3. QED
    BY <1>16, <2>1, <2>2 DEF Crash
<1>17. QED
  BY <1>2, <1>6, <1>15, <1>16 DEF Next, Mine, LeaseStep, vars

LEMMA StepInvInit == Init => StepInv
<1> SUFFICES ASSUME Init PROVE StepInv
  OBVIOUS
<1>1. TypeOK
  BY TypeOKInit
<1>2. CallInv
  BY StepAssumption DEF Init, CallInv, CallFact, At, StepOf, AtStep, SwapSteps, Steps
<1>3. RowTxInv /\ DoneIsMined /\ OrderOnChain /\ ReturnedIsExecuted
  BY DEF Init, RowTxInv, Absent, DoneIsMined, NotDone, OrderOnChain, ReturnedIsExecuted,
     At, AtStep, SwapSteps
<1>4. QED
  BY <1>1, <1>2, <1>3 DEF StepInv

LEMMA StepInvStep == StepInv /\ [Next]_vars => StepInv'
BY TypeOKStep, CallKept, RowTxKept, DoneKept, OrderKept, ReturnedKept DEF StepInv

LEMMA StepInvAlways == Spec => []StepInv
BY StepInvInit, StepInvStep, PTL DEF Spec

\* A SUCCESS row and a registry entry of a swap are backed by a mined
\* transaction of that swap.
THEOREM DoneIsAlwaysMined == Spec => []DoneIsMined
<1>1. StepInv => DoneIsMined
  BY DEF StepInv
<1>2. QED
  BY <1>1, StepInvAlways, PTL

\* No transaction is broadcast before every earlier swap of its plan is mined.
THEOREM PlanOrderOnChain == Spec => []OrderOnChain
<1>1. StepInv => OrderOnChain
  BY DEF StepInv
<1>2. QED
  BY <1>1, StepInvAlways, PTL

\* A receipt is returned only for a plan all of whose swaps were mined.
THEOREM ReturnedPlanExecuted == Spec => []ReturnedIsExecuted
<1>1. StepInv => ReturnedIsExecuted
  BY DEF StepInv
<1>2. QED
  BY <1>1, StepInvAlways, PTL

-----------------------------------------------------------------------------
(***************************************************************************)
(* A swap of the plan executes twice only with a cause: two overlapping    *)
(* runs of the step, a run that ended without seeing what its broadcast    *)
(* became, or a success that its row never got.  For every plan, every set *)
(* of workers and calls and every set of faults.                           *)
(***************************************************************************)
\* Transactions of the step that executed or still may.
LiveTx(s) == {i \in DOMAIN chain : chain[i].step = s /\ chain[i].state # "reverted"}

Runs(c, s)  == StepOf(c) = s /\ call[c].pc \in Holding
Sends(c, s) == StepOf(c) = s /\ (At(c, "run") \/ At(c, "send"))

\* The call still knows of the transaction, and will write it to the row.
Sees(c, s, i) ==
  /\ StepOf(c) = s
  /\ \/ At(c, "wait") /\ call[c].tx = i
     \/ At(c, "persist") /\ call[c].status = "SUCCESS"

Recorded(s) == rows[s].status = "SUCCESS"

Alone(s)     == \A c, d \in Calls : Runs(c, s) /\ Runs(d, s) => c = d
Accounted(s) == \A i \in LiveTx(s) : Recorded(s) \/ \E c \in Calls : Sees(c, s, i)
Clear(s)     == \A c \in Calls : Sends(c, s) => LiveTx(s) = {}
Single(s)    == \A i, j \in LiveTx(s) : i = j

OnceInv(s) == Alone(s) /\ Accounted(s) /\ Clear(s) /\ Single(s)

\* A call that works on a step holds a grant of its lease.
HoldInv == \A c \in Calls : call[c].pc \in Holding => grant[c].res = StepOf(c)

\* The rows of a plan are saved together.
RowsTogether == rows[1] = Absent => \A s \in Steps : rows[s] = Absent

DupInv ==
  /\ HoldInv
  /\ RowsTogether
  /\ \A s \in SwapSteps : causes[s] = {} => OnceInv(s)

-----------------------------------------------------------------------------
(***************************************************************************)
(* What keeps OnceInv, whatever the action.                                *)
(***************************************************************************)
\* Fewer live transactions, no new run beside another, no new sender beside a
\* live transaction, and no witness lost before the row is written.
LEMMA OnceKept ==
  ASSUME NEW s \in SwapSteps, OnceInv(s),
         LiveTx(s)' \subseteq LiveTx(s),
         Recorded(s) => Recorded(s)',
         Alone(s)',
         \A d \in Calls : Sends(d, s)' => Sends(d, s) \/ LiveTx(s) = {},
         \A d \in Calls : \A i \in LiveTx(s)' :
           Sees(d, s, i) => Sees(d, s, i)' \/ Recorded(s)'
  PROVE  OnceInv(s)'
<1>1. Accounted(s)'
  <2>1. SUFFICES ASSUME NEW i \in LiveTx(s)', ~Recorded(s)'
                 PROVE  \E d \in Calls : Sees(d, s, i)'
    BY DEF Accounted
  <2>2. PICK d \in Calls : Sees(d, s, i)
    BY <2>1 DEF OnceInv, Accounted
  <2>3. QED
    BY <2>1, <2>2
<1>2. Clear(s)'
  BY DEF OnceInv, Clear
<1>3. Single(s)'
  BY DEF OnceInv, Single
<1>4. QED
  BY <1>1, <1>2, <1>3 DEF OnceInv

\* The same for an action of one call.
LEMMA OnceKeptByCall ==
  ASSUME NEW s \in SwapSteps, OnceInv(s), NEW c \in Calls,
         \A d \in Calls : d # c => call'[d] = call[d],
         LiveTx(s)' \subseteq LiveTx(s),
         Recorded(s) => Recorded(s)',
         Runs(c, s)' => Runs(c, s) \/ \A d \in Calls : d # c => ~Runs(d, s),
         Sends(c, s)' => Sends(c, s) \/ LiveTx(s) = {},
         \A i \in LiveTx(s)' : Sees(c, s, i) => Sees(c, s, i)' \/ Recorded(s)'
  PROVE  OnceInv(s)'
<1>1. \A d \in Calls : d # c => /\ Runs(d, s)' = Runs(d, s)
                               /\ Sends(d, s)' = Sends(d, s)
  BY DEF Runs, Sends, StepOf, At
<1>2. \A d \in Calls : \A i : d # c => Sees(d, s, i)' = Sees(d, s, i)
  BY DEF Sees, StepOf, At
<1>3. Alone(s)'
  BY <1>1 DEF OnceInv, Alone
<1>4. QED
  BY <1>1, <1>2, <1>3, OnceKept

\* Causes are never forgotten.
LEMMA CausesGrow ==
  ASSUME TypeOK, [Next]_vars
  PROVE  \A s \in Steps : causes[s] \subseteq causes'[s]
<1>1. \A s \in Steps, cause \in Causes :
        AddCause(s, cause) => \A t \in Steps : causes[t] \subseteq causes'[t]
  BY DEF AddCause, TypeOK
<1>2. {"overlap", "unseen", "unrecorded"} = Causes
  BY DEF Causes
<1>3. ASSUME NEW c \in Calls, Advance(c)
      PROVE  \A s \in Steps : causes[s] \subseteq causes'[s]
  <2>1. StepOf(c) \in Steps
    BY CallTypes
  <2>2. QED
    BY <1>1, <1>2, <1>3, <2>1 DEF Advance, Acquire, Refused, Skip, Blocked, Proceed, RunLocal,
       LocalThrows, RunFails, Prepare, Broadcast, BroadcastUncertain, NotSent, Receipt,
       ReceiptReverted, ReceiptLost, Persist, Release
<1>4. ASSUME NEW w \in Workers, Crash(w)
      PROVE  \A s \in Steps : causes[s] \subseteq causes'[s]
  BY <1>4 DEF Crash
<1>5. QED
  BY <1>3, <1>4 DEF Next, Start, Mine, LeaseStep, vars

\* A step that leaves the chain alone leaves its live transactions.
LEMMA LiveUnchanged ==
  ASSUME UNCHANGED chain, NEW s
  PROVE  LiveTx(s)' = LiveTx(s)
BY DEF LiveTx

-----------------------------------------------------------------------------
(***************************************************************************)
(* The shape of the moves of one call.                                     *)
(***************************************************************************)
LEMMA FinishShape ==
  ASSUME TypeOK, NEW c \in Calls, NEW status, NEW tx, NEW raised,
         Finish(c, status, tx, raised)
  PROVE  /\ call'[c].pc = "persist"
         /\ call'[c].step = StepOf(c)
         /\ call'[c].status = status
         /\ \A d \in Calls : d # c => call'[d] = call[d]
<1>1. call'[c] = [AtStep("persist", StepOf(c)) EXCEPT
                    !.tx = tx, !.status = status, !.raised = raised]
  BY DEF Finish, TypeOK
<1>2. QED
  BY <1>1 DEF Finish, TypeOK, AtStep

LEMMA FailShape ==
  ASSUME TypeOK, NEW c \in Calls, Fail(c)
  PROVE  /\ call'[c].pc = "persist"
         /\ call'[c].step = StepOf(c)
         /\ \A d \in Calls : d # c => call'[d] = call[d]
BY FinishShape DEF Fail

LEMMA ReleaseShape ==
  ASSUME TypeOK, NEW c \in Calls, Release(c)
  PROVE  /\ call'[c].pc \in {"threw", "returned", "acquire"}
         /\ \A d \in Calls : d # c => call'[d] = call[d]
<1>1. call'[c] = AfterRelease(c) /\ \A d \in Calls : d # c => call'[d] = call[d]
  BY DEF Release, TypeOK
<1>2. QED
  BY <1>1 DEF AfterRelease, AtStep

LEMMA PrepareShape ==
  ASSUME TypeOK, NEW c \in Calls, Prepare(c)
  PROVE  /\ call'[c].pc = "send"
         /\ call'[c].step = StepOf(c)
         /\ \A d \in Calls : d # c => call'[d] = call[d]
<1>1. PICK nonce : call' = [call EXCEPT ![c] = [AtStep("send", StepOf(c)) EXCEPT !.nonce = nonce]]
  BY DEF Prepare
<1>2. QED
  BY <1>1 DEF TypeOK, AtStep

LEMMA BroadcastShape ==
  ASSUME TypeOK, NEW c \in Calls, Broadcast(c)
  PROVE  /\ call'[c].pc = "wait"
         /\ call'[c].step = StepOf(c)
         /\ call'[c].tx = Len(chain) + 1
         /\ \A d \in Calls : d # c => call'[d] = call[d]
<1>1. call' = [call EXCEPT ![c] = [AtStep("wait", StepOf(c)) EXCEPT !.tx = Len(chain) + 1]]
  BY DEF Broadcast
<1>2. QED
  BY <1>1 DEF TypeOK, AtStep

-----------------------------------------------------------------------------
(***************************************************************************)
(* A working call holds its grant; rows are saved together.                *)
(***************************************************************************)
LEMMA HoldKept == ASSUME TypeOK, HoldInv, [Next]_vars PROVE HoldInv'
<1>1. ASSUME NEW c \in Calls, UNCHANGED grant,
             \A d \in Calls : d # c => call'[d] = call[d],
             call'[c].pc \in Holding => call[c].pc \in Holding /\ call'[c].step = StepOf(c)
      PROVE  HoldInv'
  BY <1>1 DEF HoldInv, StepOf
<1>2. \A c \in Calls : call[c] \in CallState
  BY DEF TypeOK
<1>3. ASSUME UNCHANGED <<call, grant>> PROVE HoldInv'
  BY <1>3 DEF HoldInv, StepOf
<1>4. ASSUME NEW c \in Calls, Acquire(c) PROVE HoldInv'
  <2>1. grant' = [grant EXCEPT ![c] = [res |-> StepOf(c), until |-> now + Term]]
    BY <1>4 DEF Acquire, Leases!AcquireLease
  <2>2. grant'[c].res = StepOf(c) /\ \A d \in Calls : d # c => grant'[d] = grant[d]
    BY <2>1 DEF TypeOK, Leases!TypeOK
  <2>3. call'[c].step = StepOf(c) /\ \A d \in Calls : d # c => call'[d] = call[d]
    BY <1>4 DEF Acquire, TypeOK, StepOf, CallState
  <2>4. QED
    BY <2>2, <2>3 DEF HoldInv, StepOf
<1>5. ASSUME NEW c \in Calls, Release(c) PROVE HoldInv'
  <2>1. \A d \in Calls : d # c => grant'[d] = grant[d]
    BY <1>5 DEF Release, Leases!ReleaseLease, TypeOK, Leases!TypeOK
  <2>2. call'[c].pc \notin Holding
    BY <1>5, ReleaseShape DEF Holding, Working
  <2>3. QED
    BY <1>5, <2>1, <2>2, ReleaseShape DEF HoldInv, StepOf
<1>6. ASSUME NEW c \in Calls, Start(c) PROVE HoldInv'
  <2>1. call'[c].pc = "acquire" /\ \A d \in Calls : d # c => call'[d] = call[d]
    BY <1>6 DEF Start, AtStep, TypeOK
  <2>2. UNCHANGED grant
    BY <1>6 DEF Start, leaseVars
  <2>3. QED
    BY <1>1, <2>1, <2>2 DEF Holding
<1>7. ASSUME NEW c \in Calls, Refused(c) PROVE HoldInv'
  <2>1. call'[c].pc = "threw" /\ \A d \in Calls : d # c => call'[d] = call[d]
    BY <1>7 DEF Refused, TypeOK, CallState
  <2>2. UNCHANGED grant
    BY <1>7 DEF Refused, leaseVars
  <2>3. QED
    BY <1>1, <2>1, <2>2 DEF Holding, Working
<1>8. ASSUME NEW c \in Calls, Proceed(c) \/ Persist(c) PROVE HoldInv'
  <2>1. /\ call'[c].step = StepOf(c)
        /\ call[c].pc \in Holding
        /\ \A d \in Calls : d # c => call'[d] = call[d]
    BY <1>8, <1>2 DEF Proceed, Persist, At, StepOf, TypeOK, CallState, Holding, Working
  <2>2. UNCHANGED grant
    BY <1>8 DEF Proceed, Persist, leaseVars
  <2>3. QED
    BY <1>1, <2>1, <2>2
<1>9. ASSUME NEW c \in Calls, Prepare(c) \/ Broadcast(c) PROVE HoldInv'
  <2>1. call[c].pc \in Holding /\ UNCHANGED grant
    BY <1>9 DEF Prepare, Broadcast, Accepted, At, Holding, Working, leaseVars
  <2>2. QED
    BY <1>1, <1>9, <2>1, PrepareShape, BroadcastShape
<1>10. ASSUME NEW c \in Calls, Blocked(c) \/ LocalThrows(c) PROVE HoldInv'
  <2>1. call[c].pc \in Holding /\ UNCHANGED grant
    BY <1>10 DEF Blocked, LocalThrows, At, Holding, Working, leaseVars
  <2>2. QED
    BY <1>1, <1>10, <2>1, FinishShape DEF Blocked, LocalThrows
<1>11. ASSUME NEW c \in Calls, Skip(c) \/ RunLocal(c) \/ Receipt(c) PROVE HoldInv'
  <2>1. call[c].pc \in Holding /\ UNCHANGED grant
    BY <1>11 DEF Skip, RunLocal, Receipt, At, Holding, Working, leaseVars
  <2>2. QED
    BY <1>1, <1>11, <2>1, FinishShape DEF Skip, RunLocal, Receipt, Succeed
<1>12. ASSUME NEW c \in Calls,
              RunFails(c) \/ BroadcastUncertain(c) \/ NotSent(c) \/ ReceiptReverted(c) \/ ReceiptLost(c)
       PROVE  HoldInv'
  <2>1. call[c].pc \in Holding /\ UNCHANGED grant /\ Fail(c)
    BY <1>12 DEF RunFails, BroadcastUncertain, NotSent, ReceiptReverted, ReceiptLost,
       Accepted,
       At, Holding, Working, leaseVars
  <2>2. QED
    BY <1>1, <2>1, FailShape
<1>13. ASSUME NEW w \in Workers, Crash(w) PROVE HoldInv'
  <2> SUFFICES ASSUME NEW c \in Calls, call'[c].pc \in Holding PROVE grant'[c].res = call'[c].step
    BY DEF HoldInv, StepOf
  <2>1. c \notin CallsOf(w) /\ call'[c] = call[c]
    BY <1>13 DEF Crash, AtStep, Holding, Working
  <2>2. WorkerOf[c] # w
    BY <2>1 DEF CallsOf, Holding
  <2>3. QED
    BY <1>13, <2>1, <2>2 DEF Crash, HoldInv, StepOf
<1>14. ASSUME LeaseStep PROVE HoldInv'
  BY <1>3, <1>14 DEF LeaseStep, Leases!ListExpiredLeases, Leases!ReclaimListed, Leases!Tick
<1>15. QED
  BY <1>3, <1>4, <1>5, <1>6, <1>7, <1>8, <1>9, <1>10, <1>11, <1>12, <1>13, <1>14
     DEF Next, Advance, Mine, vars, leaseVars

LEMMA RowsTogetherKept == ASSUME TypeOK, RowsTogether, [Next]_vars PROVE RowsTogether'
<1>1. ASSUME UNCHANGED rows PROVE RowsTogether'
  BY <1>1 DEF RowsTogether
<1>2. 1 \in Steps
  BY StepAssumption DEF Steps
<1>3. ASSUME NEW c \in Calls, Start(c) PROVE RowsTogether'
  <2>1. CASE rows' = [s \in Steps |-> NotDone]
    BY <1>2, <2>1 DEF RowsTogether, NotDone, Absent
  <2>2. QED
    BY <1>1, <1>3, <2>1 DEF Start
<1>4. ASSUME NEW c \in Calls, Persist(c) PROVE RowsTogether'
  <2> DEFINE s == StepOf(c)
             new == [status |-> call[c].status, tx |-> call[c].tx]
  <2>1. s \in Steps /\ new # Absent
    BY CallTypes DEF Absent
  <2>2. CASE Writable(rows[s], new.status) /\ rows' = [rows EXCEPT ![s] = new]
    <3>1. rows[1] # Absent
      BY <2>1, <2>2 DEF Writable, RowsTogether
    <3>2. rows'[1] # Absent
      BY <1>2, <2>1, <2>2, <3>1 DEF TypeOK
    <3>3. QED
      BY <3>2 DEF RowsTogether
  <2>3. QED
    BY <1>1, <1>4, <2>2 DEF Persist
<1>5. ASSUME NEW c \in Calls, Advance(c) PROVE RowsTogether'
  BY <1>1, <1>4, <1>5 DEF Advance, Acquire, Refused, Skip, Blocked, Proceed, RunLocal,
     LocalThrows, RunFails, Prepare, Broadcast, BroadcastUncertain, NotSent, Receipt,
     ReceiptReverted, ReceiptLost, Release
<1>6. QED
  BY <1>1, <1>3, <1>5 DEF Next, Crash, Mine, LeaseStep, vars

\* A success that is written stays written.
LEMMA RecordedKept ==
  ASSUME TypeOK, RowsTogether, [Next]_vars, NEW s \in Steps, Recorded(s)
  PROVE  Recorded(s)'
<1>1. ASSUME NEW c \in Calls, Start(c) PROVE Recorded(s)'
  <2>1. rows[1] # Absent
    BY DEF Recorded, RowsTogether, Absent
  <2>2. QED
    BY <1>1, <2>1 DEF Start, Recorded
<1>2. ASSUME NEW c \in Calls, Persist(c) PROVE Recorded(s)'
  <2> DEFINE new == [status |-> call[c].status, tx |-> call[c].tx]
  <2>1. CASE UNCHANGED rows
    BY <2>1 DEF Recorded
  <2>2. CASE Writable(rows[StepOf(c)], new.status) /\ rows' = [rows EXCEPT ![StepOf(c)] = new]
    <3>1. CASE StepOf(c) # s
      BY <2>2, <3>1 DEF Recorded, TypeOK
    <3>2. CASE StepOf(c) = s
      <4>1. ValidStep("SUCCESS", new.status)
        BY <2>2, <3>2 DEF Writable, Recorded
      <4>2. new.status = "SUCCESS"
        BY <4>1, CallTypes DEF ValidStep, StepTransitions
      <4>3. rows'[s] = new
        BY <2>2, <3>2 DEF TypeOK
      <4>4. QED
        BY <4>2, <4>3 DEF Recorded
    <3>3. QED
      BY <3>1, <3>2
  <2>3. QED
    BY <1>2, <2>1, <2>2 DEF Persist
<1>3. ASSUME UNCHANGED rows PROVE Recorded(s)'
  BY <1>3 DEF Recorded
<1>4. ASSUME NEW c \in Calls, Advance(c) PROVE Recorded(s)'
  BY <1>2, <1>3, <1>4 DEF Advance, Acquire, Refused, Skip, Blocked, Proceed, RunLocal,
     LocalThrows, RunFails, Prepare, Broadcast, BroadcastUncertain, NotSent, Receipt,
     ReceiptReverted, ReceiptLost, Release
<1>5. QED
  BY <1>1, <1>3, <1>4 DEF Next, Crash, Mine, LeaseStep, vars

-----------------------------------------------------------------------------
(***************************************************************************)
(* OnceInv of a swap without a cause, action by action.                    *)
(***************************************************************************)
\* A call that holds the step and saw no transaction of it finds none alive
\* unless the row says SUCCESS.
LEMMA NoneAlive ==
  ASSUME NEW s \in SwapSteps, OnceInv(s), ~Recorded(s), NEW c \in Calls, Runs(c, s),
         \A i : ~Sees(c, s, i)
  PROVE  LiveTx(s) = {}
<1>1. SUFFICES ASSUME NEW i \in LiveTx(s) PROVE FALSE
  OBVIOUS
<1>2. PICK d \in Calls : Sees(d, s, i)
  BY DEF OnceInv, Accounted
<1>3. Runs(d, s)
  BY <1>2 DEF Sees, Runs, At, Holding, Working
<1>4. QED
  BY <1>2, <1>3 DEF OnceInv, Alone

LEMMA AcquireOnce ==
  ASSUME TypeOK, HoldInv, NEW c \in Calls, Acquire(c),
         NEW s \in SwapSteps, OnceInv(s), causes'[s] = {}
  PROVE  OnceInv(s)'
<1>1. /\ call'[c].pc = "check" /\ call'[c].step = StepOf(c) /\ At(c, "acquire")
      /\ \A d \in Calls : d # c => call'[d] = call[d]
  BY DEF Acquire, TypeOK, CallState, At, StepOf
<1>2. StepOf(c) = s => \A d \in Calls : d # c => ~Runs(d, s)
  <2>1. SUFFICES ASSUME StepOf(c) = s, NEW d \in Calls, Runs(d, s) PROVE FALSE
    OBVIOUS
  <2>2. grant[d].res = s
    BY <2>1 DEF Runs, HoldInv
  <2>3. AddCause(s, "overlap")
    BY <2>1, <2>2 DEF Acquire
  <2>4. QED
    BY <2>3, CallTypes DEF AddCause, TypeOK, SwapSteps
<1>3. LiveTx(s)' = LiveTx(s)
  BY LiveUnchanged DEF Acquire
<1>4. /\ Runs(c, s)' => StepOf(c) = s
      /\ ~Sends(c, s)'
      /\ \A i : ~Sees(c, s, i)
  BY <1>1 DEF Runs, Sends, Sees, StepOf, At
<1>5. Recorded(s)' = Recorded(s)
  BY DEF Acquire, Recorded
<1>6. QED
  BY <1>1, <1>2, <1>3, <1>4, <1>5, OnceKeptByCall

LEMMA ProceedOnce ==
  ASSUME TypeOK, NEW c \in Calls, Proceed(c), NEW s \in SwapSteps, OnceInv(s)
  PROVE  OnceInv(s)'
<1>1. /\ call'[c].pc = "run" /\ call'[c].step = StepOf(c) /\ call[c].pc = "check"
      /\ \A d \in Calls : d # c => call'[d] = call[d]
  BY DEF Proceed, TypeOK, CallState, At, StepOf
<1>2. StepOf(c) = s => ~Recorded(s) /\ Runs(c, s)
  BY DEF Proceed, RecordedDone, Recorded, Runs, At, Holding, Working
<1>3. \A i : ~Sees(c, s, i)
  BY <1>1 DEF Sees, At
<1>4. StepOf(c) = s => LiveTx(s) = {}
  BY <1>2, <1>3, NoneAlive
<1>5. /\ Runs(c, s)' => Runs(c, s)
      /\ Sends(c, s)' => LiveTx(s) = {}
  BY <1>1, <1>2, <1>4 DEF Runs, Sends, StepOf
<1>6. LiveTx(s)' = LiveTx(s) /\ Recorded(s)' = Recorded(s)
  BY LiveUnchanged DEF Proceed, Recorded
<1>7. QED
  BY <1>1, <1>3, <1>5, <1>6, OnceKeptByCall

\* A step that ends: with success, or on another step, or seeing nothing alive.
LEMMA EndsOnce ==
  ASSUME TypeOK, NEW c \in Calls, UNCHANGED <<chain, rows>>,
         call[c].pc \in Holding,
         call'[c].pc = "persist", call'[c].step = StepOf(c),
         \A d \in Calls : d # c => call'[d] = call[d],
         NEW s \in SwapSteps, OnceInv(s),
         \/ call'[c].status = "SUCCESS"
         \/ \A i \in LiveTx(s) : ~Sees(c, s, i)
  PROVE  OnceInv(s)'
<1>1. Runs(c, s)' => Runs(c, s)
  BY DEF Runs, StepOf
<1>2. ~Sends(c, s)'
  BY DEF Sends, At
<1>3. \A i \in LiveTx(s) : Sees(c, s, i) => Sees(c, s, i)'
  BY DEF Sees, At, StepOf
<1>4. LiveTx(s)' = LiveTx(s) /\ Recorded(s)' = Recorded(s)
  BY LiveUnchanged DEF Recorded
<1>5. QED
  BY <1>1, <1>2, <1>3, <1>4, OnceKeptByCall

\* Failures that nobody could have an executed transaction after.
LEMMA HarmlessFailureOnce ==
  ASSUME TypeOK, CallInv, NEW c \in Calls,
         Blocked(c) \/ LocalThrows(c) \/ RunFails(c) \/ NotSent(c) \/ ReceiptReverted(c),
         NEW s \in SwapSteps, OnceInv(s)
  PROVE  OnceInv(s)'
<1>1. /\ call[c].pc \in Holding
      /\ UNCHANGED <<chain, rows>>
  BY DEF Blocked, LocalThrows, RunFails, NotSent, ReceiptReverted, At, Holding, Working
<1>2. /\ call'[c].pc = "persist" /\ call'[c].step = StepOf(c)
      /\ \A d \in Calls : d # c => call'[d] = call[d]
  BY FinishShape, FailShape DEF Blocked, LocalThrows, RunFails, NotSent, ReceiptReverted
<1>3. \A i \in LiveTx(s) : ~Sees(c, s, i)
  <2>1. CASE ReceiptReverted(c)
    BY <2>1 DEF ReceiptReverted, Sees, At, LiveTx
  <2>2. CASE Blocked(c) \/ LocalThrows(c) \/ RunFails(c) \/ NotSent(c)
    BY <2>2 DEF Blocked, LocalThrows, RunFails, NotSent, Sees, At
  <2>3. QED
    BY <2>1, <2>2
<1>4. QED
  BY <1>1, <1>2, <1>3, EndsOnce

LEMMA SuccessOnce ==
  ASSUME TypeOK, NEW c \in Calls, Skip(c) \/ RunLocal(c) \/ Receipt(c),
         NEW s \in SwapSteps, OnceInv(s)
  PROVE  OnceInv(s)'
<1>1. /\ call[c].pc \in Holding
      /\ UNCHANGED <<chain, rows>>
  BY DEF Skip, RunLocal, Receipt, At, Holding, Working
<1>2. /\ call'[c].pc = "persist" /\ call'[c].step = StepOf(c) /\ call'[c].status = "SUCCESS"
      /\ \A d \in Calls : d # c => call'[d] = call[d]
  BY FinishShape DEF Skip, RunLocal, Receipt, Succeed
<1>3. QED
  BY <1>1, <1>2, EndsOnce

\* Moves that neither broadcast nor end a step.
LEMMA MoveOnce ==
  ASSUME TypeOK, RowsTogether, [Next]_vars, NEW c \in Calls,
         Start(c) \/ Refused(c) \/ Prepare(c) \/ Release(c),
         NEW s \in SwapSteps, OnceInv(s)
  PROVE  OnceInv(s)'
<1>1. UNCHANGED chain
  BY DEF Start, Refused, Prepare, Release
<1>2. LiveTx(s)' = LiveTx(s)
  BY <1>1, LiveUnchanged
<1>3. Recorded(s) => Recorded(s)'
  BY RecordedKept DEF SwapSteps
<1>4. \A i : ~Sees(c, s, i)
  BY DEF Start, Refused, Prepare, Release, Sees, At
<1>5. CASE Prepare(c)
  <2>1. Runs(c, s)' => Runs(c, s)
    BY <1>5, PrepareShape DEF Runs, Prepare, StepOf, At, Holding, Working
  <2>2. Sends(c, s)' => Sends(c, s)
    BY <1>5, PrepareShape DEF Sends, Prepare, StepOf, At
  <2>3. QED
    BY <1>2, <1>3, <1>4, <1>5, <2>1, <2>2, PrepareShape, OnceKeptByCall
<1>6. CASE Start(c) \/ Refused(c) \/ Release(c)
  <2>1. /\ call'[c].pc \in {"acquire", "threw", "returned"}
        /\ \A d \in Calls : d # c => call'[d] = call[d]
    BY <1>6, ReleaseShape DEF Start, Refused, AtStep, TypeOK, CallState
  <2>2. ~Runs(c, s)' /\ ~Sends(c, s)'
    BY <2>1 DEF Runs, Sends, At, Holding, Working
  <2>3. QED
    BY <1>2, <1>3, <1>4, <2>1, <2>2, OnceKeptByCall
<1>7. QED
  BY <1>5, <1>6

\* The finally block writes a success it knows, or there is a cause.
LEMMA PersistOnce ==
  ASSUME TypeOK, RowsTogether, [Next]_vars, NEW c \in Calls, Persist(c),
         NEW s \in SwapSteps, OnceInv(s), causes'[s] = {}
  PROVE  OnceInv(s)'
<1>1. /\ call'[c].pc = "release" /\ call'[c].step = StepOf(c) /\ call[c].pc = "persist"
      /\ \A d \in Calls : d # c => call'[d] = call[d]
  BY DEF Persist, TypeOK, CallState, At, StepOf
<1>2. LiveTx(s)' = LiveTx(s)
  BY LiveUnchanged DEF Persist
<1>3. Recorded(s) => Recorded(s)'
  BY RecordedKept DEF SwapSteps
<1>4. (Runs(c, s)' => Runs(c, s)) /\ ~Sends(c, s)'
  BY <1>1 DEF Runs, Sends, StepOf, At, Holding, Working
<1>5. ASSUME NEW i, Sees(c, s, i) PROVE Recorded(s)'
  <2>1. StepOf(c) = s /\ call[c].status = "SUCCESS"
    BY <1>1, <1>5 DEF Sees, At
  <2>2. SUFFICES ASSUME rows'[s].status # "SUCCESS" PROVE FALSE
    BY DEF Recorded
  <2>3. AddCause(s, "unrecorded")
    BY <2>1, <2>2 DEF Persist
  <2>4. QED
    BY <2>3 DEF AddCause, TypeOK, SwapSteps
<1>6. QED
  BY <1>1, <1>2, <1>3, <1>4, <1>5, OnceKeptByCall

LEMMA AcceptedLive ==
  ASSUME TypeOK, NEW c \in Calls, Accepted(c), NEW s \in SwapSteps
  PROVE  LiveTx(s)' = LiveTx(s) \cup (IF StepOf(c) = s THEN {Len(chain) + 1} ELSE {})
<1> DEFINE new == [step |-> StepOf(c), by |-> c, state |-> "pending"]
<1>1. DOMAIN chain' = DOMAIN chain \cup {Len(chain) + 1}
  BY Appended
<1>2. chain'[Len(chain) + 1] = new /\ \A i \in DOMAIN chain : chain'[i] = chain[i]
  BY DEF Accepted, TypeOK
<1>3. Len(chain) + 1 \notin DOMAIN chain
  BY DEF TypeOK
<1>4. QED
  BY <1>1, <1>2, <1>3 DEF LiveTx

LEMMA BroadcastOnce ==
  ASSUME TypeOK, NEW c \in Calls, Broadcast(c), NEW s \in SwapSteps, OnceInv(s)
  PROVE  OnceInv(s)'
<1>1. At(c, "send") /\ Accepted(c) /\ UNCHANGED rows
  BY DEF Broadcast, Accepted
<1>2. Recorded(s)' = Recorded(s) /\ ~Sends(c, s)' /\ \A i : ~Sees(c, s, i)
  BY <1>1, BroadcastShape DEF Recorded, Sends, Sees, At
<1>3. Runs(c, s)' => Runs(c, s)
  BY <1>1, BroadcastShape DEF Runs, StepOf, At, Holding, Working
<1>4. CASE StepOf(c) # s
  <2>1. LiveTx(s)' = LiveTx(s)
    BY <1>1, <1>4, AcceptedLive
  <2>2. QED
    BY <1>2, <1>3, <2>1, BroadcastShape, OnceKeptByCall
<1>5. CASE StepOf(c) = s
  <2>1. LiveTx(s) = {}
    BY <1>1, <1>5 DEF OnceInv, Clear, Sends
  <2>2. LiveTx(s)' = {Len(chain) + 1}
    BY <1>1, <1>5, <2>1, AcceptedLive
  <2>3. \A i : i = Len(chain) + 1 => Sees(c, s, i)'
    BY <1>5, BroadcastShape DEF Sees, StepOf, At
  <2>4. \A d \in Calls : d # c => Runs(d, s)' = Runs(d, s) /\ Sends(d, s)' = Sends(d, s)
    BY BroadcastShape DEF Runs, Sends, StepOf, At
  <2>5. Runs(c, s)
    BY <1>1, <1>5 DEF Runs, At, Holding, Working
  <2>6. Alone(s)' /\ \A d \in Calls : d # c => ~Sends(d, s)'
    <3>1. \A d \in Calls : Sends(d, s) => Runs(d, s)
      BY DEF Sends, Runs, At, Holding, Working
    <3>2. QED
      BY <1>3, <2>4, <2>5, <3>1 DEF OnceInv, Alone
  <2>7. Accounted(s)' /\ Single(s)'
    <3>1. \A i \in LiveTx(s)' : i = Len(chain) + 1
      BY <2>2
    <3>2. \A i \in LiveTx(s)' : Sees(c, s, i)'
      BY <2>3, <3>1
    <3>3. QED
      BY <3>1, <3>2 DEF Accounted, Single
  <2>8. Clear(s)'
    BY <1>2, <2>6 DEF Clear
  <2>9. QED
    BY <2>6, <2>7, <2>8 DEF OnceInv
<1>6. QED
  BY <1>4, <1>5

\* A run that ends without seeing its outcome leaves a cause on its step.
LEMMA UnseenOnce ==
  ASSUME TypeOK, NEW c \in Calls, BroadcastUncertain(c) \/ ReceiptLost(c),
         NEW s \in SwapSteps, OnceInv(s), causes'[s] = {}
  PROVE  OnceInv(s)'
<1>1. AddCause(StepOf(c), "unseen") /\ Fail(c) /\ UNCHANGED rows
  BY DEF BroadcastUncertain, ReceiptLost
<1>2. StepOf(c) # s
  BY <1>1 DEF AddCause, TypeOK, SwapSteps
<1>3. LiveTx(s)' = LiveTx(s)
  BY <1>2, AcceptedLive, LiveUnchanged DEF BroadcastUncertain, ReceiptLost
<1>4. ~Runs(c, s)' /\ ~Sends(c, s)' /\ \A i : ~Sees(c, s, i)
  BY <1>1, <1>2, FailShape DEF Runs, Sends, Sees, StepOf
<1>5. Recorded(s)' = Recorded(s)
  BY <1>1 DEF Recorded
<1>6. QED
  BY <1>1, <1>3, <1>4, <1>5, FailShape, OnceKeptByCall

LEMMA MineOnce ==
  ASSUME TypeOK, Mine, NEW s \in SwapSteps, OnceInv(s)
  PROVE  OnceInv(s)'
<1>1. PICK i \in Pending, state \in {"mined", "reverted"} : chain' = [chain EXCEPT ![i].state = state]
  BY DEF Mine
<1>2. i \in DOMAIN chain /\ chain[i].state = "pending" /\ \A j \in DOMAIN chain : chain[j] \in Transaction
  BY <1>1 DEF Pending, TypeOK
<1>3. DOMAIN chain' = DOMAIN chain /\ \A j \in DOMAIN chain : chain'[j].step = chain[j].step
  BY <1>1, <1>2 DEF TypeOK, Transaction
<1>4. \A j \in DOMAIN chain : chain'[j].state # "reverted" => chain[j].state # "reverted"
  BY <1>1, <1>2 DEF TypeOK, Transaction
<1>5. LiveTx(s)' \subseteq LiveTx(s)
  BY <1>3, <1>4 DEF LiveTx
<1>6. UNCHANGED <<rows, call>>
  BY DEF Mine
<1>7. Alone(s)' /\ Recorded(s)' = Recorded(s)
  BY <1>6 DEF OnceInv, Alone, Runs, StepOf, Recorded
<1>8. \A d \in Calls : Sends(d, s)' = Sends(d, s) /\ \A j : Sees(d, s, j)' = Sees(d, s, j)
  BY <1>6 DEF Sends, Sees, StepOf, At
<1>9. QED
  BY <1>5, <1>7, <1>8, OnceKept

LEMMA CrashOnce ==
  ASSUME TypeOK, NEW w \in Workers, Crash(w), NEW s \in SwapSteps, OnceInv(s), causes'[s] = {}
  PROVE  OnceInv(s)'
<1>1. LiveTx(s)' = LiveTx(s) /\ Recorded(s)' = Recorded(s)
  BY LiveUnchanged DEF Crash, Recorded
<1>2. s \notin Unrecorded(w)
  BY DEF Crash, SwapSteps
<1>3. ASSUME NEW d \in Calls, d \in CallsOf(w)
      PROVE  ~Runs(d, s)' /\ ~Sends(d, s)' /\ \A i : ~Sees(d, s, i)
  <2>1. call'[d].pc = "crashed"
    BY <1>3 DEF Crash, AtStep
  <2>2. QED
    BY <1>2, <1>3, <2>1 DEF Unrecorded, Runs, Sends, Sees, At, Holding, Working
<1>4. ASSUME NEW d \in Calls, d \notin CallsOf(w)
      PROVE  /\ Runs(d, s)' = Runs(d, s)
             /\ Sends(d, s)' = Sends(d, s)
             /\ \A i : Sees(d, s, i)' = Sees(d, s, i)
  BY <1>4 DEF Crash, Runs, Sends, Sees, StepOf, At
<1>5. Alone(s)'
  BY <1>3, <1>4 DEF OnceInv, Alone
<1>6. QED
  BY <1>1, <1>3, <1>4, <1>5, OnceKept

-----------------------------------------------------------------------------
(***************************************************************************)
(* The theorem.                                                            *)
(***************************************************************************)
LEMMA DupInvInit == Init => DupInv
<1> SUFFICES ASSUME Init PROVE DupInv
  OBVIOUS
<1>1. \A c \in Calls : call[c].pc = "idle"
  BY DEF Init, AtStep
<1>2. HoldInv
  BY <1>1 DEF HoldInv, Holding, Working
<1>3. RowsTogether
  BY DEF Init, RowsTogether
<1>4. ASSUME NEW s \in SwapSteps PROVE OnceInv(s)
  <2>1. LiveTx(s) = {}
    BY DEF Init, LiveTx
  <2>2. \A c \in Calls : ~Runs(c, s)
    BY <1>1 DEF Runs, Holding, Working
  <2>3. QED
    BY <2>1, <2>2 DEF OnceInv, Alone, Accounted, Clear, Single
<1>5. QED
  BY <1>2, <1>3, <1>4 DEF DupInv

LEMMA DupInvStep == StepInv /\ DupInv /\ [Next]_vars => DupInv'
<1> SUFFICES ASSUME StepInv, DupInv, [Next]_vars PROVE DupInv'
  OBVIOUS
<1>1. TypeOK /\ CallInv /\ HoldInv /\ RowsTogether
  BY DEF StepInv, DupInv
<1>2. HoldInv' /\ RowsTogether'
  BY <1>1, HoldKept, RowsTogetherKept
<1>3. ASSUME NEW s \in SwapSteps, causes'[s] = {} PROVE OnceInv(s)'
  <2>1. OnceInv(s)
    BY <1>1, <1>3, CausesGrow DEF DupInv, SwapSteps
  <2>2. ASSUME UNCHANGED <<chain, rows, call>> PROVE OnceInv(s)'
    BY <2>1, <2>2 DEF OnceInv, Alone, Accounted, Clear, Single, LiveTx, Recorded, Runs, Sends,
       Sees, StepOf, At
  <2>3. ASSUME NEW c \in Calls, Start(c) \/ Advance(c) PROVE OnceInv(s)'
    BY <1>1, <1>3, <2>1, <2>3, AcquireOnce, ProceedOnce, HarmlessFailureOnce, SuccessOnce,
       MoveOnce, PersistOnce, BroadcastOnce, UnseenOnce DEF Advance
  <2>4. ASSUME NEW w \in Workers, Crash(w) PROVE OnceInv(s)'
    BY <1>1, <1>3, <2>1, <2>4, CrashOnce
  <2>5. QED
    BY <1>1, <2>1, <2>2, <2>3, <2>4, MineOnce DEF Next, LeaseStep, vars
<1>4. QED
  BY <1>2, <1>3 DEF DupInv

\* A swap executes twice only if two runs of its step overlapped, or a run
\* ended without seeing what its broadcast became, or a success never reached
\* the row: without one of these, executeTrade's retries, skips and restarts
\* execute each swap at most once.
THEOREM DuplicatesHaveCauses == Spec => []DuplicateHasCause
<1>1. StepInv /\ DupInv => DuplicateHasCause
  <2> SUFFICES ASSUME DupInv, NEW s \in SwapSteps, causes[s] = {}
               PROVE  \A i, j \in Mined(s) : i = j
    BY DEF DuplicateHasCause
  <2>1. Mined(s) \subseteq LiveTx(s)
    BY DEF Mined, LiveTx
  <2>2. QED
    BY <2>1 DEF DupInv, OnceInv, Single
<1>2. Spec => []DupInv
  BY DupInvInit, DupInvStep, StepInvAlways, PTL DEF Spec
<1>3. QED
  BY <1>1, <1>2, StepInvAlways, PTL
=============================================================================
